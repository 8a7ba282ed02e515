# The Return of the Odyssey: a verification of the game server

The repository is an authoritative multiplayer roguelike: a Go server
(`src/server`), a C++ client, a Go load bot and a web dashboard. This directory
holds TLA+ models of the parts of the server where order, concurrency and
failure decide whether it is right, the TLC runs that check them on small
instances, and TLAPS proofs for every value of their constants.

Contents: [the system](#1-the-system) ·
[modules](#2-the-modules-and-how-they-correspond-to-the-code) ·
[runs, bounds and fairness](#3-the-runs) · [proofs](#4-the-proofs) ·
[findings](#5-what-the-models-found) · [what is left](#6-what-is-left) ·
[not modelled](#7-what-is-not-modelled)

## 1. The system

A client opens a TCP connection, logs in, asks for a match, is put into a room
with a teammate, fights through stages with a reward round between them, and
sees the run end in victory, defeat or abandonment; the result goes to MySQL.

| Component | Code | State | Operations | What makes it correct |
| --- | --- | --- | --- | --- |
| Connection | `internal/network/server.go` | `out` (256 frames), snapshot slot (1), `closed`, socket; goroutines reader, writer, run | Send, SendSnapshot, Close, CloseAfterFlush | Accepted frames go out once and in order, no send on a closed channel, every way to end takes all of it apart unless the peer stays and does not read |
| Session | `internal/session/session.go` | state, identity, roomID | Transition, BindRoom, Accept | State, binding and the room's member table agree |
| Lobby | `internal/lobby/matchmaker.go` | FIFO list and index | Enqueue, Cancel | A player is in the queue once and in one squad |
| Match orchestration | `cmd/gameserver/application.go`, `internal/router/router.go` | connections, waiting table, rooms; a goroutine for each match | handleMatchRequest, handleMatchCancel, createMatch, failMatch, disconnected, leaveRoom | A squad enters one room or is told that it failed and disconnected; a lost player leaves |
| Room | `internal/room/room.go` | two bounded queues, members, timer, output channels; one goroutine | Join, Leave, StartStage, StartReward, ChooseReward, CompletedStage, GameResult, ResumeState, Input, Close | Each accepted command is answered once; stage events are not lost; an empty room closes |
| World | `internal/game/*`, `game/reward`, `game/stage` | stage, players, monsters, reward round, pending events, history | AddPlayer, RemovePlayer, StartStage, Step, StartReward, ChooseReward, GameResult, Close | Stage machine, one item for each cleared stage, a complete result |
| Stage orchestration | `cmd/gameserver/application.go` | ready, rewarded and delivered sets of a room | observeEvents, observeRewards, handleNextStage, advanceStage | Everybody ready ends in one next stage |
| Rematch | `cmd/gameserver/application.go`, `deferred_events.go` | rematching flag, deferred frames | handleRematchRequest, createRematch, leaveFormerRoom, Release | One new room for each finished one; the team moves together; MatchFound before StageStarted |
| Result pipeline | `cmd/gameserver/results.go`, `internal/persistence/result_writer.go`, `results.go` | submitting and queued flags, queue, dead letters, tables | submitGameResult, Submit, run, Shutdown, Persist | A result is stored once or reported lost |
| Resume | `internal/persistence/resume_tokens.go`, `cmd/gameserver/main.go` | tokens | Issue, Consume | A token works once |
| Dispatchers | `internal/router/events.go`, `router.go`, `close.go` | subscribers | Subscribe, Unsubscribe, Dispatch | A subscriber sees every event or is disconnected |
| Director, combat | `internal/game/director`, `systems`, `equipment` | none or floating point | planning, geometry | Bounds of the plans |
| Load bot | `src/bot/internal/client/match.go` | phase of the match, scenario | RunMatch with its reward scenarios | A bot that keeps to the protocol never meets an error |
| Client synchronisation | `client/src/sync`, `client/src/core` | prediction buffer, recovery state, framing buffer | apply, replay, push | Replay agrees with the server |

How they interact. A connection's reader calls the handlers of the application
directly; the handlers change the session and the lobby, and put commands and
inputs into the room's queues under `r.mu`. Everything that has to wait for a
room's receipt runs in a goroutine of its own (`createMatch`, `leaveRoom`,
`createRematch`, `submitGameResult`). The room's goroutine alone touches the
World; it publishes through channels, each with one consumer, and the
dispatchers hand the frames to the connections without ever blocking. When a
connection ends, its `onClose` calls `disconnected`, which asks the room to let
the session leave.

What is hard here:

* readers, match goroutines and rooms look at `Session.State` and `roomID` and
  use what they saw later;
* a command may reach a room that is closing, an input may outlive the binding
  it was sent under, a timer may fire while a join is queued;
* bounded queues with three different policies when full: refuse (commands),
  replace (snapshots), close the room (stage events);
* departures in every state of the run, and in the middle of a reward round;
* shutting a connection down from four directions at once, with writes that have
  no deadline, and closes that another goroutine still has to carry out;
* a stage's events, its reward updates and the answers to its choices reach a
  client by three goroutines, while a fourth moves the sessions;
* a rematch binds players to a new room while their old one is still emitting,
  and one of them may be leaving either;
* the end of a match is noticed twice, by its last event and by its last
  disconnect, in either order, and its result must survive a failing database
  and a shutdown.

`PROJECT.json` lists the hazards at their lines with the properties that catch
them; those that have none say why.

## 2. The modules, and how they correspond to the code

```
Stages <--implements-- World <--EXTENDS-- Room --implements--> Calls
  |                      |                  |
  | EXTENDS         WorldProofs         RoomProofs
  v
StageFlow --EXTENDS--> MatchBot
  |
StageFlowProofs

ResultCapture  --hands results to-->  ResultWriter  --implements-->  Ledger
  |                                       |
ResultCaptureProofs               ResultWriterProofs

Connection           Matchmaking           Rematch
  |                    |                     |
ConnectionProofs   MatchmakingProofs     RematchProofs
```

**World** is `game.World` with its `reward.Round`. An action is one call the
room makes. Positions, health, damage, ammunition and projectiles are
abstracted: a combat tick (`StepCombat`) kills any set of living players and
any number of monsters, then draws the conclusions the code draws, in its order
(a dead team first). `state`, `index` and `monsters` are `stage.View`; `offers`
is `Round.offers`; of `tick` and `deadline` only the difference (`grace`) is
kept, because the code compares nothing else; `departed` is `departedPlayers`.
`events` and `rewardUpdates` are the pending lists with their overflow flags.

**Room** EXTENDS World and adds the goroutine (`phase` is its program counter:
select, the four parts of a tick, the two of `finish`), the queues `controls`
and `inputs`, `members` with generations, the idle timer, the receipts of the
callers and the output channels. Between two of its steps any caller or
consumer acts. `Submit` is every exported call with its checks under `r.mu`;
`ApplyRequest` is `applyControl`; `DrainControl` answers what is left when the
room closes. Wall-clock time is abstracted: the timer may fire whenever it is
armed, an input may expire whenever it is taken out.

**Calls** is the abstract service: a command accepted while the room is open is
answered exactly once and nothing is accepted later. `Room!Service` is the
refinement mapping (the queue becomes the set of pending callers).

**Stages** is what the goroutines around a room may count on: the stage
machine, who is in the room, who still owes a choice. `World!StageMachine` is
the refinement mapping (`owed` is `Undecided`), so what StageFlow assumes of
the room is what World does, not a second model of it.

**StageFlow** EXTENDS Stages and composes it with everything that gets a team
from one stage to the next: `observeEvents`, `beginRewardStage` (a goroutine for
each cleared stage, in as many steps as others can come between),
`observeRewards` with its answer to each client, `handleRewardChoice` with its
refusals, `handleNextStageRequest` in its two critical sections,
`tryAdvanceStage`, `advanceStage` with the sets it clears at its end,
`disconnected` and `leaveRoom`. Its clients are real ones:

**MatchBot** is the load bot's `RunMatch`, one phase for each of its loops, with
the four reward scenarios (choose, choose twice, choose something that was not
offered, do not choose). A bot that gets a message it does not expect goes to
`error`, so the bot is the judge of the order in which the server talks.

**Rematch** is `handleRematchRequest`, every step of `createRematch` and of its
deferred functions, `leaveFormerRoom`, the deferred sinks with their limit, the
event dispatchers and close watchers of the rooms, and connections that end
meanwhile. Of a room's events only the order is kept; `heard` is what each
connection has been sent. A sink that is full, and a connection that refuses an
event, do not close the connection: they start a goroutine that will
(`go Close()`, `GoClose`). Until it runs (`CloseConnection`) the connection is
`doomed`: `IsClosed` is still false, `createRematch` goes on with its player,
and later events are accepted.

**Connection** is one `network.Connection`: senders that hold `sendMu` between
their look at `closed` and their send; the publisher of snapshots with its
push/evict loop; the writer's two `select`s, its drain and its writes that may
fail; the reader; `run`; `closeOnce` as `closer`. A frame is its position among
the accepted ones, so order and loss are visible in `wire`. A write has no
deadline: while its peer is there and the socket open, `Write` may never happen.

**Matchmaking** composes the lobby, the sessions, the connections seen by the
application and the rooms: handlers in two steps (before and under `a.mu`),
`createMatch` in as many steps as it makes calls that others can come between
(the check of the state, the receipt, BindRoom, Transition, the check of the
connection, the stage, MatchFound), `failMatch`, `disconnected`, `leaveRoom`.
`SendDisconnect` keeps that a full queue refuses the message and leaves its
connection as it is; the history `unheard` has the players this happened to. A
room is reduced to what the proofs about Room show: it answers a join and a
leave, or closes.

**ResultCapture** is the end of one match: what notices it (`observeEvents` and
`beginRewardStage`, `disconnected` for the last connection), and
`submitGameResultAfterCapture`, whose goroutines ("captors", named by the
outcome they ask for) are taken apart where others can come between: the claim
of `resultSubmitting`, the answer of the room, the hand-over, the deferred
calls. The World is reduced to what decides which outcome `World.GameResult`
confirms; "won" is the final stage cleared, everything before it is "playing".
`captured` is the outcome that is handed over, after
`terminalResultOnDeparture`; the history `capturedIn` is the state of the World
it was read in.
Of the writer it sees that a result is taken, that the queue is full for now
(the captor asks again), or that it is closed. Captors of different rooms meet
only there, so one room is enough.

**ResultWriter** is the other side: `Submit`, `Shutdown` with its deadline, and
`run` with its attempts, back-off, first and second try of a dead letter, and
the insert of `ResultStore.Persist` with its primary key. A call of the
database may fail after it committed; one of the file may fail with the line
written. `worker` is the program counter of `run`.

**Ledger** is what the writer promises: an accepted result is saved or reported
lost, and none is missing when `Shutdown` returns. `ResultWriter!Promise` is the
refinement mapping (table and file together are "saved").

`PROJECT.json` maps every definition to its lines. Each module keeps beside a
definition the mutants that show its properties are not vacuous
(`CanChooseReward_Again`, `OutEnded_Dead`, ...): the same code with a plausible
mistake, each caught by the property it is listed with.

## 3. The runs

| Run | Module, config | Shows |
| --- | --- | --- |
| `world` | MCWorld | The stage machine, the reward round and the final result stay consistent whatever order players join, leave, choose and die in; a reward round ends by itself; the World implements Stages |
| `room_membership` | MCRoom, MCRoomMembers | Two callers race joins, double joins, leaves and reads against ticks, the timer and the closing |
| `room_run` | MCRoom, MCRoomRun | A run over two stages with consumers that stall: stage events in order or the room closes, every accepted command is answered, an empty or cancelled room ends |
| `connection` | MCConnection | Order, no loss, no send on a closed queue, freshness of snapshots; a connection that ends is taken apart, unless its peer stays and stops reading |
| `connection_flush` | MCConnection, MCConnectionFlush | Expected violation: see finding 1 |
| `matchmaking` | MCMatchmaking | Nobody that does not cancel is in two rooms or a ghost in one; queue and waiting table agree; nobody is forgotten but by way of a full queue (section 5) |
| `matchmaking_join` | MCMatchmaking, MCMatchmakingJoin | Expected violation: see finding 2 |
| `result_writer` | MCResultWriter | The writer implements Ledger, liveness included, with conflicts, lost answers, failing files and a shutdown at any moment |
| `result_capture` | ResultCapture, MCResultCapture | One result for a match however its end is noticed; a run that was cleared when its World was asked is delivered as a victory, whoever asked |
| `result_defeat` | ResultCapture, MCResultCaptureDefeat | Expected violation: see finding 3 |
| `stage_flow` | MCStageFlow | No bot sees a message out of order or is refused one; the barrier between stages holds; one plan for each stage; sessions follow the room; a cleared stage leads on |
| `rematch` | MCRematch | MatchFound precedes the events of its room, and none is missing from a connection that is not about to be closed; the team moves together; the flag has an owner; nobody stays counted in a room it left |

### Bounds, and why they are enough

* World: two players, two items, two stages, two monsters, one tick of reward
  time. Two of each is where every rule about "the others" begins: one player
  may be dead, gone or undecided while the other is not; a second stage is
  where history can have a gap; `MaxPending = 2` lets both lists overflow.
* Room: queues of one or two commands, one or two commands taken in a tick,
  three generations (join, leave, join again, and a double join).
  `room_membership` uses two callers because a race needs two (they are
  interchangeable: `CallerSymmetry`); `room_run` one caller, capacities of one
  and two stages, so that an event channel fills up. `Requests` restricts each
  run to the commands its question is about, and the runs together use all of
  them.
* Connection: two senders, a reliable queue of two, three accepted frames, so
  that the queue is full once and wraps; two snapshots, so that one is evicted.
* Matchmaking: three players for squads of two, so that one waits while two are
  being matched, and two matches, so that a player can be in both. Requests stop
  at `MaxMatches`. One player (`Cancellers`) may cancel at any moment, the other
  two are interchangeable (`BCSymmetry`). `PlayerInOneRoom` and
  `SettledRoomHoldsItsPlayers` speak of the players that do not cancel
  (`Steady`), because for the others they fail, in the way finding 2 describes.
  `matchmaking_join` lets everybody cancel.
* ResultWriter: two matches with two outcomes each, so that a result can be
  repeated by a retry and contradicted by another one; a queue of two, so that
  one waits behind another and a third is refused; two attempts, so that one is
  the last and one is not. Each envelope is submitted once.
* ResultCapture has no bounds: its one room has three captors.
* StageFlow: two bots, one of which may be lost (`Leavers`), and three stages:
  the first has no round before it, the last none after it, and the one in
  between has both. `Played` names the pairs of scenarios, each scenario in one
  of them at least.
* Rematch: two players, one of which may hang up or stop reading (`Leavers`);
  three rooms, so that a rematch may fail and be tried again; four events in a
  match and one deferred event. `Emits` bounds what each room emits of them: room 1
  starts with all but its last event delivered and ends its match; room 2 emits
  three, so that its second event overflows a sink and the third reaches a
  connection whose close is on its way; room 3, the one of a second attempt, emits
  StageStarted. An overflow may hit both players.

Deadlock is not checked where the system may stop: a closed room, a connection
that ended, matches used up.

### Fairness

* `WorldFairSpec`: the room's ticker keeps calling `Step`.
* Room's `FairSpec`: the goroutine is weakly fair, it never blocks (all its
  sends are `select` with `default`); `StopIdle` is strongly fair because Go's
  `select` picks at random among the ready cases, so a timer that has fired is
  not passed over forever by ticks.
* Connection's `FairSpec`: senders, publisher, writer and closer run, and a
  handler returns. A write is only sure to return once the peer is gone or the
  socket closed (`WriteReturns`): `writeFrame` sets no deadline, and a peer that
  stays and does not read holds the writer. `EndedConnectionReleases` therefore
  says that a peer that goes, or a Close by anyone, takes the connection apart,
  and that a reader that ends for another reason does so unless such a write never
  returns. `ReadFails` is strongly fair:
  what the buffered reader still holds after the socket closed is finite.
  `Runner` is strongly fair: it may find `sendMu` taken over and over, and Go's
  mutex does not starve a waiter. Nothing forces the peer to hang up, a sender
  to send or anyone to close.
* ResultWriter's `FairSpec`: `run` goes on. Its calls have time limits, and
  `ResultSink` and `FailureSink` ask their implementations to return when the
  context is done. Nobody is forced to call Shutdown.
* StageFlow's `FairSpec`: the observers and the goroutines they start run, the
  room applies what is queued and lets a deadline pass, a bot reads and answers,
  and `disconnected` follows the end of a connection. No fight is forced to end
  and nobody is forced to hang up.
* Rematch's `FairSpec`: `createRematch` and `leaveRoom` run to their end, a room
  nobody is in closes when its timer fires. Nobody is forced to ask for a
  rematch, no room is forced to emit, and no `go Close()` is forced to run.
* Matchmaking and ResultCapture state no fairness; their properties are safety.

### What is assumed of time

Durations are not modelled, and two modules would otherwise allow orders that
only a goroutine that is held up while the game goes on could produce. Both assumptions are named in guards:

* StageFlow, `Lagging = FALSE`: a fight, the deadline of a round (for a client
  that means to choose) and the round trip of the slowest client outlast what a
  goroutine does without waiting (`Settled`, `InTime`, `Departing`). With
  `Lagging = TRUE` they are dropped, and `BotsNeverErr`, `SessionsFollowTheRoom`
  and `ClearedStageLeadsOn` fail: `transitionRoomSessions` works on the members
  it saw under `a.mu`, and a goroutine late by a whole round moves a session
  that has gone on. How long a stall that takes depends on the clients: a player
  gives the goroutine seconds, a team of bots that choose at once a few ticks of
  the room. The assumption also rules out the half of the hazard at
  `application.go:1063` in which notices arrive before `advanceStage` clears its
  sets: the stage it has just started would have to be won in between. The hazard list has it, at `application.go:920`.
* Rematch, `Announced`: a match in the new room does not end before
  `createRematch` has announced it.

Two more abstractions of Rematch and Matchmaking: `CloseWatcher`'s disconnect is
the general "the connection is closing" step, which may come at any time; and a
room whose creation fails gives its number back, so a failure to create is an
attempt that leaves no trace.

## 4. The proofs

The eight proof modules (`WorldProofs`, `RoomProofs`, `StageFlowProofs`,
`ConnectionProofs`, `MatchmakingProofs`, `RematchProofs`, `ResultWriterProofs`,
`ResultCaptureProofs`) are checked by TLAPS with no assumption but the modules'
own `ASSUME`s on their constants and, for the theorems about the clients of
StageFlow, the hypothesis `~Lagging`. Matchmaking, Rematch and StageFlow assume
finite sets of players.

**World.** `WorldInv` is the types with six conjuncts. The properties are not
inductive without `RunMatchesState`, which says what the run flags, the departed
players and the history are in each stage state: without it the first
`StartStage` could meet a run that has already started with other players, or
`StartReward` an empty history. There is a
lemma for each action (`StepCombatSafe`, `ChooseRewardSafe`, ...); a choice and
the defaults share one argument, since both only fill in selections
(`SelectionsSafe`). `DefeatDecidesFirst` is the action property.

**Room.** `RoomImplementsWorld` shows that each of Room's steps is a World step
or leaves the World alone, so every theorem about World holds of the World of a
room. The safety of commands (`CommandsAnsweredOnce`) rests on counting the
places of a caller in the queue: a caller waits exactly while one of its
commands is queued. Membership needs that every binding's generation has been
issued (`TableInv`), and the inputs that a queued one was sent under an issued
generation (`InputsInv`). `RoomImplementsCalls` is
the refinement: the initial state maps to the initial state, and each step to
one of the service or to a stutter.

The stage events (`NoStageEventLost`, `StageEventsInOrder`) follow from one
equation, `LogInv`: while the room has no reason to close and nothing
overflowed, what the dispatcher took, what is in the channel and what is pending
are together exactly `History`, the events of a run that got as far as the World
has. `HistoryInOrder` shows that such a history is in order, and `EventsInv`
carries that to every point at which the dispatcher may stop reading. `PhaseInv`
is needed because a room that drops a batch still finishes its tick: it says
that such a room has a reason to close and never selects again.

**Stages.** `WorldImplementsStages` (in WorldProofs): a departure maps to
`Leave` whether or not it completes the round, a choice and the defaults to
`Settle`; that the round's open offers are those of present players is
WorldInv's `RoundMatchesPlayers`. `FollowsTheStages` closes the loop from the
other side: the orchestration asks the room only for steps that Stages allows.

**StageFlow.** Two layers. `RoomFits` is about the room and its goroutines and
needs no assumption on time: the event channel is the tail of what the stage
has published (`EventsFit`), `advancing` admits one goroutine whose plan is the
next stage (`AdvancesFit`), and only the stage that was won has a goroutine that
may open a round (`BeginsFit`). `RoomInvariant` states it, and
`FollowsTheStages` follows: a plan that would skip or repeat a stage, or go past
the last, never starts.

`FlowInv` adds the clients, under `~Lagging` (section 3). It compares each
connected client with the script of its scenario. `Pos` is how many messages of
the stage the client has taken, `Told` adds those in its inbox, and `InboxFits`
says that the inbox is the next piece of the script; from this the client errs
on nothing. The rest says why whatever is sent next is the next message of the
script, whoever sends it:

* `LineFits`, `OptionsFit`: the updates in the channel and in the observer's
  hand are due, options before choices, none twice, and a client that has no
  options yet finds them there;
* `LoadFits`: the choices that are sent, queued or refused but not told are no
  more than the client's place in the script allows; otherwise a refusal could
  come when it expects an answer, or in the next stage;
* `DeliveredFits`, `RewardedFits`: `delivered` stands for an answer in the
  client's queue, which is what `waitRewardAppliedDelivery` relies on, and
  `rewarded` for options that are out. Neither is inductive without a clause on
  the goroutine that is about to open a round: the flags of a stage must be down
  by then, since `beginRewardStage` clears them before it calls the room;
* `ReadyFits`, `SessionFits`: who is ready has nothing left to send, and a
  session is in Reward from the first notice to the end of `advanceStage`.

Two arguments do not follow from the shape of a step. `StartsWhenReady`: when
`tryAdvanceStage` finds every session in Reward ready, every connected client is,
since a client without its notice would still find its options in the line.
`GivenUp`: `advanceStage` gives its plan up only if nobody is connected, since a
choice still owed is that of a player on its way out; this is what
`StagesAreDecidedOnce` rests on. Without `~Lagging`, `BotsNeverErr` and
`SessionsFollowTheRoom` fail with the two players of the run;
`OneDecisionPerStage` and `NobodyIsRushed` did not, in the part of the states
that TLC could visit, and are proved only under it.

**Matchmaking.** `LobbyInv` relates queue, waiting table and session states
through the two critical sections of each handler (`QueueAgrees`). `CareInv`
adds, for each connected player in state matching, who is going to take care of
it: the queue, a handler between its two sections, or a match in the making
(`NobodyIsForgotten`), unless `sendDisconnect` could not tell it that its match
failed (section 5). `OneSquadInv` says a steady player is in one squad at a
time, which makes `OneRoomPerPlayer` inductive, and `SettledInv` follows each
member of a squad through the calls of `createMatch` up to the point where
either the room has it or somebody is on the way to take it out.

**Rematch.** Three layers, each needing the one before. `OwnerInv`: a room has
one builder at work and the flag of a room under rematch has an owner
(`Ownership`). `PlaceInv`: where each player is bound at each step of its
builder, and who is in which room (`TeamMovesTogether`); it needs the one
builder. `MessageInv`: what is in channels, sinks and `heard` is in order for
each player, and without a gap as long as nothing was dropped for it; `KeptInv`
carries the second part for the events a sink still holds. An event that is
dropped dooms the connection in the same step, and nothing makes a doomed one
open again, so what is left of the chain for it is the order (`MatchFoundLeads`).
The proof needs the place of a player to know that its sink in the old room is
gone when the new room's MatchFound is sent.

**Connection.** `ConnectionInv` has the types, `MutexInv` (one holder of
`sendMu`, a closed queue belongs to a dead connection and has no sender inside),
`WriterInv` (what the writer holds in each of its states: once it found the
queue closed there is nothing left in it), the frames, and `SnapshotInv` (a
snapshot that is being published is newer than the slot, the hand and the
screen). That the writer ends with everything written follows from `WriterInv`
and the order of the frames.

**ResultWriter.** `WriterInv` accounts for every envelope: what was taken waits,
is in hand, is saved or was given up (`AccountInv`), and none of the first two
was given up before (`OnceInv`) - otherwise a result could be reported first and
saved later, which the ledger does not allow. `WriterImplementsLedger` then maps
the end of the work on an envelope to the settlement of that envelope, or to a
stutter if it was saved by an attempt whose answer was lost.

**ResultCapture.** `CaptureInv`: one captor holds `resultSubmitting`; the writer
has taken a result exactly if one is queued or about to be marked so
(`AcceptedInv`); and for a cleared run, nobody is refused (`RefusedInv`), since
every captor that can be at work there asks for something the World confirms,
so that somebody always delivers it (`DeliveryInv`). `OutcomeInv` says as what:
every capture is recorded under the outcome that `terminalResultOnDeparture`
makes of it, so one read in a cleared World is a victory, also when an abandonment
was asked for (`ClearedRunsAreDelivered`). The argument of `DeliveryInv` fails
for a defeat, where the World refuses the abandonment.

Every invariant and every action property of the passing runs is stated by a
theorem. Only model-checked: the liveness properties (`RewardRoundEnds`,
`EmptyRoomCloses`, `CancelledRoomEnds`, `EndedConnectionReleases`,
`NobodyStaysBehind`, `ClearedStageLeadsOn`, and the liveness of Calls in
`CommandsAreServed` and of Ledger in `LedgerImplemented`), since liveness under
fairness is out of the provers' reach.

## 5. What the models found

1. **CloseAfterFlush does not close the socket** (`network/server.go:309`,
   run `connection_flush`). The comment says "CloseAfterFlush：Writer
   排空后关闭 socket -> Reader 被唤醒": the socket is closed once the writer
   has drained, which wakes the reader. The writer returns and leaves the socket
   open; `run` waits for the reader before anything else; so unless the caller
   is the reader itself, whose handler then returns an error, the connection
   stays up until the peer ends it. `failMatch` is such a caller: its players
   stay connected, unable to be sent anything, and `disconnected` does not run.
   `docs/verification/network-core/README.md:48` lists this path as untested.
2. **A joined session may be back in the lobby** (`router/router.go:41`, run
   `matchmaking_join`). `router.Join` ignores the result of `Transition`. A
   MatchCancel between the check in `createMatch` and that line puts the session
   back into state lobby; the room keeps the member and the session its binding.
   For the players that cancel `PlayerInOneRoom` fails too: such a player asks
   again while still in the first squad and ends up in two rooms.
3. **A defeat may go unrecorded** (`cmd/gameserver/results.go:42`, run
   `result_defeat`). When the last player of a fallen team disconnects before
   the goroutine started by TeamDefeated has claimed the result, the captor of
   the abandonment claims it, the captor of the defeat returns for good, and the
   World refuses an abandonment in state Failed. Nobody asks again. For a victory
   that is observed late the code has `terminalResultOnDeparture`, and
   `ClearedRunIsDelivered` holds; a defeat has nothing like it, though
   `docs/plans/WEEK2-AD-FINALIZATION.md:67` asks for "团灭/离弃也必须向 D
   交付结果".
A limit of `ClearedRunIsDelivered`: if the last player's departure is captured
before the tick that clears the final stage, and the stage is then cleared before
the leave is applied, the run is delivered as abandoned. The World was asked
while the run was not over, so that is what the code means to do.

Two more behaviours were met and are hazards without a run of their own. When a
match cannot be put together, `failMatch` calls `sendDisconnect` for each of its
players and drops the error (`application.go:706`). If the reliable queue of a
player is full, `sendDisconnect` (`main.go:328`) returns before
`CloseAfterFlush`: the player is neither told nor disconnected, is in no queue
and no match, and waits in state matching, although the comment at
`network/server.go:176` says that a client whose reliable queue is full is to be
disconnected, as `closingSink` and the announcement of a match do. `unheard`
collects these players; `NobodyForgotten` shows that nobody is lost to the lobby
in any other way, and fails without that exception.

The other is one no document contradicts: when the only player that is not ready disconnects,
`disconnected` (`application.go:710`) does not try to advance the stage, and the
players that are ready wait until one of them asks again.
`ClearedStageLeadsOn` therefore speaks of a team that stays connected.

## 6. What is left

* `OneDecisionPerStage` and `NobodyIsRushed` without `~Lagging`: what holds of a
  goroutine that is late by a whole round is not known for every team.
* The set of connections of `network.Server`: a connection accepted while the
  server stops may be tracked after `CloseConnections` took its snapshot.
* A queue of commands that is full. In StageFlow: for all attempts of
  `advanceStage` (`application.go:1082`) or of `startReward`
  (`application.go:899-918`), and the refusal of a choice (`application.go:297`).
  In Rematch the ways in which a join or the opening stage fails
  (`application.go:523-553`: a queue that stays full, a plan that is refused, a
  room that closed) are one failure.
* What becomes of a session that `advanceStage` finds between two rounds when it
  is late (`application.go:1063`), beyond the part that TLC could visit with
  `Lagging = TRUE`.
* The one-shot latch of `PlayerIntent`, and the aggregates the director reads.

## 7. What is not modelled

* Combat geometry, damage, equipment numbers and the director's scoring are
  floating-point computations without protocol; World keeps who died and what
  is left, StageFlow that one plan is decided on.
* Resume: the token store is two Redis commands, SETNX and GETDEL, each atomic,
  and nothing in the game server issues or consumes a token yet (a
  RESUME_REQUEST is admitted and ignored), so there is no protocol to model; nor
  has the client's recovery state a server side to recover with.
* Session states before the login and after the end of a session, where the
  legality matrix admits one message or none.
* Configuration, bootstrap, admin, metrics, SQL schema, wire conversion: no
  protocol of their own, or stateless translation.
* Framing: a length-prefixed codec without state on the server. The snapshot
  dispatcher keeps nothing between two snapshots; what becomes of one is in
  Connection.
* Of the load bot: the runner, the report and the stream of inputs.
* The dashboard, deployment files and the C++ client: reporting, rendering,
  sockets, and a prediction over floating-point positions in one thread.
* Of the result pipeline: opening the service, `Load`, payload hashing, the
  validation of an envelope (a World's result passes it) and the counters.
* Network time: timeouts are nondeterministic events, never durations.
