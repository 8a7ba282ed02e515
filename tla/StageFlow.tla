------------------------------ MODULE StageFlow ------------------------------
(***************************************************************************)
(* How a room gets from one stage to the next: the observers of its events *)
(* and of its reward updates, the goroutines they start, and the handlers  *)
(* of RewardChoice and NextStageRequest (server/cmd/gameserver), between   *)
(* the stage machine of the room (Stages) and its clients (MatchBot).      *)
(*                                                                         *)
(* A step is one critical section of a.mu, one call of a session or of the *)
(* room, or one message handed over.  The room answers its commands in the *)
(* order they came; a goroutine that has nothing to do but wait for its    *)
(* receipt is one step with the command, and what the command publishes    *)
(* is in the channel from then on.  The model starts where createMatch has *)
(* opened the first stage; what happens to the final result is the subject *)
(* of ResultCapture.                                                       *)
(***************************************************************************)
EXTENDS Stages, MatchBot, SequencesExt

CONSTANTS Leavers, \* bound: players whose connection may be lost in mid-match
          Lagging, \* goroutines may be late by a whole round trip or fight
          Nothing  \* the reward observer between two updates

AllStages == 1..MaxStage

\* RewardUpdate: a player's options, or the choice that was applied for it.
Update ==
    [kind : {"options"}, to : Players, index : AllStages, item : {"none"}] \cup
    [kind : {"applied"}, to : Players, index : AllStages, item : {"first", "chosen"}]

\* observeRewards with an update in hand: sent is set when it has told the client.
Notice == [update : Update, sent : BOOLEAN]

ASSUME StageFlowAssumption ==
    /\ Players = Bots /\ MaxStage = TargetStages /\ IsFiniteSet(Players)
    /\ Leavers \subseteq Players /\ Lagging \in BOOLEAN
    /\ Nothing \notin Notice

VARIABLES sess,        \* Session.state
          conn,        \* open; closing: IsClosed; gone: disconnected() has run
          handler,     \* a NextStageRequest between its two critical sections
          leaving,     \* leaveRoom goroutines
          rewardStage, \* activeRoom.rewardStage
          rewarded,    \* activeRoom.rewarded
          delivered,   \* activeRoom.delivered
          ready,       \* activeRoom.ready
          advancing,   \* activeRoom.advancing
          completed,   \* activeRoom.completed
          events,      \* channel Room.Events
          updates,     \* channel Room.RewardUpdates
          choices,     \* RewardChoices in the room's queue
          notice,      \* the update observeRewards is at
          begins,      \* the beginRewardStage goroutine of each stage
          entering,    \* the sessions it still has to move to Reward
          advances,    \* advanceStage goroutines
          rejecting,   \* refused choices whose answer is on its way
          decisions    \* history: the plans the director has decided on

sessionVars == <<sess, conn, handler, leaving>>
activeVars  == <<rewardStage, rewarded, delivered, ready, advancing, completed>>
roomVars    == <<stagesVars, events, updates, choices>>
workVars    == <<notice, begins, entering, advances, rejecting, decisions>>
vars        == <<sessionVars, activeVars, roomVars, workVars, botVars>>

Init ==
    /\ BotInit
    /\ stage = "Playing" /\ number = 1 /\ members = Players /\ owed = {}
    /\ sess = [p \in Players |-> "in_room"] /\ conn = [p \in Players |-> "open"]
    /\ handler = [p \in Players |-> "idle"] /\ leaving = {}
    /\ rewardStage = 0 /\ rewarded = {} /\ delivered = {} /\ ready = {}
    /\ advancing = FALSE /\ completed = FALSE
    /\ events = <<StageMessage("started", 1)>> /\ updates = <<>> /\ choices = <<>>
    /\ notice = Nothing
    /\ begins = [n \in AllStages |-> "none"] /\ entering = [n \in AllStages |-> {}]
    /\ advances = <<>> /\ rejecting = {} /\ decisions = <<>>

\* Transition, between the two states of a player in a room.
Transition(p, from, to) ==
    sess' = IF sess[p] = from THEN [sess EXCEPT ![p] = to] ELSE sess

\* The reliable queue of a connection that is closing takes nothing.
Deliver(who, m) ==
    inbox' = [p \in Players |-> IF p \in who /\ conn[p] = "open" THEN Append(inbox[p], m)
                                ELSE inbox[p]]

ServerOnly == UNCHANGED <<scenario, outbox, phase, cleared, offered, responses>>

Connected == {p \in Players : conn[p] = "open"}

\* Commands are applied in the order in which they were submitted.
QueueReached == choices = <<>>

\* What the model takes for granted of time: a fight outlasts what a goroutine
\* does without waiting, and so do the round trips of the slowest client.
Settled ==
    /\ \A n \in AllStages : begins[n] \notin {"snapshot", "enter"}
    /\ \A k \in DOMAIN advances : advances[k].pc \notin {"snapshot", "leave", "clear"}

-----------------------------------------------------------------------------
(* The room's own steps *)

\* The fight of a stage is won or lost.
FightEnds(result, news) ==
    /\ Lagging \/ Settled
    /\ CombatEnds(result)
    /\ events' = Append(events, StageMessage(news, number))
    /\ UNCHANGED <<sessionVars, activeVars, updates, choices, workVars, botVars>>

Applied(p, it) == [kind |-> "applied", to |-> p, index |-> number, item |-> it]
Options(p)     == [kind |-> "options", to |-> p, index |-> number, item |-> "none"]

\* A bot chooses in time unless it means not to, or has gone.
InTime == \A p \in owed : conn[p] # "open" \/ scenario[p] = "timeout"

\* The deadline passes: the open choices take their first option.
Deadline ==
    /\ Lagging \/ InTime
    /\ Settle(owed)
    /\ updates' = updates \o SetToSeq({Applied(p, "first") : p \in owed})
    /\ UNCHANGED <<sessionVars, activeVars, events, choices, workVars, botVars>>

\* Room.ChooseReward: a choice that is refused because it was made already, or
\* because the round is over, has to wait for the answer to the one that made it.
ApplyChoice ==
    /\ choices # <<>>
    /\ choices' = Tail(choices)
    /\ LET c == Head(choices)
           open == stage = "Reward" /\ c.player \in owed
       IN  \/ /\ open /\ c.item = "chosen"
              /\ Settle({c.player})
              /\ updates' = Append(updates, Applied(c.player, "chosen"))
              /\ UNCHANGED rejecting
           \/ /\ ~(open /\ c.item = "chosen")
              /\ rejecting' = rejecting \cup {[player |-> c.player, item |-> c.item, waits |-> ~open]}
              /\ UNCHANGED <<stagesVars, updates>>
    /\ UNCHANGED <<sessionVars, activeVars, events, notice, begins, entering, advances, decisions,
                   botVars>>

-----------------------------------------------------------------------------
(* observeEvents and beginRewardStage *)

\* Dispatch comes first; the goroutine it starts does not hold up the next event.
StartsBegin(e) ==
    IF e.kind = "cleared" THEN [begins EXCEPT ![e.index] = "start"] ELSE begins

ObserveEvent ==
    /\ events # <<>>
    /\ events' = Tail(events)
    /\ Deliver(Players, Head(events))
    /\ begins' = StartsBegin(Head(events))
    /\ UNCHANGED <<sessionVars, activeVars, stagesVars, updates, choices, notice, entering, advances,
                   rejecting, decisions>>
    /\ ServerOnly

BeginGoto(n, next) == begins' = [begins EXCEPT ![n] = next]

\* beginRewardStage under a.mu: the last stage completes the match instead.
BeginRewardStage(n) ==
    /\ begins[n] = "start"
    /\ \/ /\ completed \/ rewardStage >= n
          /\ BeginGoto(n, "done")
          /\ UNCHANGED activeVars
       \/ /\ ~completed /\ rewardStage < n /\ n >= MaxStage
          /\ completed' = TRUE
          /\ BeginGoto(n, "done")
          /\ UNCHANGED <<rewardStage, rewarded, delivered, ready, advancing>>
       \/ /\ ~completed /\ rewardStage < n /\ n < MaxStage
          /\ rewardStage' = n
          /\ rewarded' = {} /\ delivered' = {} /\ ready' = {}
          /\ BeginGoto(n, "reward")
          /\ UNCHANGED <<advancing, completed>>
    /\ UNCHANGED <<sessionVars, roomVars, notice, entering, advances, rejecting, decisions, botVars>>

\* CompletedStage, then StartReward; without a player left both fail.
StartReward(n) ==
    /\ begins[n] = "reward" /\ QueueReached
    /\ \/ /\ OpenRound
          /\ updates' = updates \o SetToSeq({Options(p) : p \in members})
          /\ BeginGoto(n, "snapshot")
          /\ UNCHANGED rewardStage
       \/ /\ ~CanOpenRound
          /\ rewardStage' = IF rewardStage = n THEN 0 ELSE rewardStage
          /\ BeginGoto(n, "done")
          /\ UNCHANGED <<stagesVars, updates>>
    /\ UNCHANGED <<sessionVars, rewarded, delivered, ready, advancing, completed, events, choices,
                   notice, entering, advances, rejecting, decisions, botVars>>

\* transitionRoomSessions, under a.mu: the connected members in one state.
SessionsIn(state) == {p \in Connected : sess[p] = state}

EnterSnapshot(n) ==
    /\ begins[n] = "snapshot"
    /\ entering' = [entering EXCEPT ![n] = SessionsIn("in_room")]
    /\ BeginGoto(n, "enter")
    /\ UNCHANGED <<sessionVars, activeVars, roomVars, notice, advances, rejecting, decisions, botVars>>

EnterReward(n) ==
    /\ begins[n] = "enter"
    /\ \/ \E p \in entering[n] :
             /\ Transition(p, "in_room", "reward")
             /\ entering' = [entering EXCEPT ![n] = @ \ {p}]
             /\ UNCHANGED begins
       \/ entering[n] = {} /\ BeginGoto(n, "done") /\ UNCHANGED <<sess, entering>>
    /\ UNCHANGED <<conn, handler, leaving, activeVars, roomVars, notice, advances, rejecting,
                   decisions, botVars>>

Begin(n) == BeginRewardStage(n) \/ StartReward(n) \/ EnterSnapshot(n) \/ EnterReward(n)

-----------------------------------------------------------------------------
(* observeRewards *)

\* The recipient is looked up; a reward counts whether or not it can be told.
TakeUpdate ==
    LET u == Head(updates)
    IN  /\ notice = Nothing /\ updates # <<>>
        /\ updates' = Tail(updates)
        /\ rewarded' = IF u.kind = "applied" THEN rewarded \cup {u.to} ELSE rewarded
        /\ notice' = IF conn[u.to] = "open" THEN [update |-> u, sent |-> FALSE] ELSE Nothing
        /\ UNCHANGED <<sessionVars, rewardStage, delivered, ready, advancing, completed, stagesVars,
                       events, choices, begins, entering, advances, rejecting, decisions, botVars>>

Wording(u) == IF u.kind = "options" THEN StageMessage("options", u.index)
              ELSE RewardApplied("ok", u.item)

\* The session is in Reward before the client can answer.
SendNotice ==
    /\ notice # Nothing /\ ~notice.sent
    /\ LET u == notice.update
           last == u.kind = "options" \/ conn[u.to] # "open"
       IN  /\ Transition(u.to, "in_room", "reward")
           /\ Deliver({u.to}, Wording(u))
           /\ notice' = IF last THEN Nothing ELSE [notice EXCEPT !.sent = TRUE]
    /\ UNCHANGED <<conn, handler, leaving, activeVars, roomVars, begins, entering, advances,
                   rejecting, decisions>>
    /\ ServerOnly

MarkDelivered ==
    /\ notice # Nothing /\ notice.sent
    /\ delivered' = delivered \cup {notice.update.to}
    /\ notice' = Nothing
    /\ UNCHANGED <<sessionVars, rewardStage, rewarded, ready, advancing, completed, roomVars, begins,
                   entering, advances, rejecting, decisions, botVars>>

ObserveRewards == TakeUpdate \/ SendNotice \/ MarkDelivered

\* Mutant: a refusal is sent as soon as it is known.
MayReject_AtOnce(r) == TRUE

\* waitRewardAppliedDelivery: the answer to the choice that was accepted is in
\* the reliable queue (or a second has passed).
MayReject(r) == r.waits => r.player \in delivered \/ conn[r.player] # "open" \/ Lagging

Reject ==
    \E r \in rejecting :
        /\ MayReject(r)
        /\ rejecting' = rejecting \ {r}
        /\ Deliver({r.player}, RewardApplied("refused", r.item))
        /\ UNCHANGED <<sessionVars, activeVars, roomVars, notice, begins, entering, advances,
                       decisions>>
        /\ ServerOnly

-----------------------------------------------------------------------------
(* Messages, handled by the reader of a connection *)

\* legalityMatrix, for the messages of this module.
Accepts(p, message) ==
    \/ sess[p] = "reward"
    \/ sess[p] = "in_room" /\ message = "ready"

\* The server keeps what it has read after the client is gone.
Reads(p) ==
    /\ conn[p] # "gone" /\ handler[p] = "idle"
    /\ outbox[p] # <<>>
    /\ outbox' = [outbox EXCEPT ![p] = Tail(@)]

\* sendDisconnect: the reader ends with it.
Refuse(p) ==
    /\ Deliver({p}, [kind |-> "disconnect"])
    /\ conn' = [conn EXCEPT ![p] = "closing"]

ItemOf == [choose |-> "chosen", chooseUnoffered |-> "unoffered"]

HandleRewardChoice(p) ==
    LET message == Head(outbox[p])
    IN  /\ Reads(p)
        /\ message \in DOMAIN ItemOf
        /\ \/ /\ Accepts(p, message)
              /\ choices' = Append(choices, [player |-> p, item |-> ItemOf[message]])
              /\ UNCHANGED <<conn, inbox>>
           \/ ~Accepts(p, message) /\ Refuse(p) /\ UNCHANGED choices
        /\ UNCHANGED <<sess, handler, leaving, activeVars, stagesVars, events, updates, workVars,
                       scenario, phase, cleared, offered, responses>>

\* The first critical section of handleNextStageRequest.
HandleNextStageRequest(p) ==
    /\ Reads(p)
    /\ Head(outbox[p]) = "ready"
    /\ \/ /\ Accepts(p, "ready") /\ ~completed /\ p \in rewarded
          /\ ready' = ready \cup {p}
          /\ handler' = [handler EXCEPT ![p] = "try"]
          /\ UNCHANGED <<conn, inbox>>
       \/ /\ Accepts(p, "ready") /\ (completed \/ p \notin rewarded)
          /\ UNCHANGED <<ready, handler, conn, inbox>>
       \/ ~Accepts(p, "ready") /\ Refuse(p) /\ UNCHANGED <<ready, handler>>
    /\ UNCHANGED <<sess, leaving, rewardStage, rewarded, delivered, advancing, completed,
                   roomVars, workVars, scenario, phase, cleared, offered, responses>>

\* Mutant: one player that is ready speaks for all.
EveryoneReady_Someone(who) == who \cap rewarded \cap ready # {}

EveryoneReady(who) == who # {} /\ who \subseteq rewarded \cap ready

\* Mutant: the stage may be advanced by two goroutines.
MayAdvance_Twice == ~completed /\ rewardStage # 0

MayAdvance == ~completed /\ ~advancing /\ rewardStage # 0

\* The members that count are those connected and in Reward.
TryAdvanceStage(p) ==
    /\ handler[p] = "try"
    /\ handler' = [handler EXCEPT ![p] = "idle"]
    /\ \/ /\ MayAdvance /\ EveryoneReady(SessionsIn("reward"))
          /\ advancing' = TRUE
          /\ advances' = Append(advances, [pc |-> "decide", plan |-> 0, leave |-> {}])
       \/ /\ ~(MayAdvance /\ EveryoneReady(SessionsIn("reward")))
          /\ UNCHANGED <<advancing, advances>>
    /\ UNCHANGED <<sess, conn, leaving, rewardStage, rewarded, delivered, ready, completed, roomVars,
                   notice, begins, entering, rejecting, decisions, botVars>>

Handle(p) ==
    HandleRewardChoice(p) \/ HandleNextStageRequest(p) \/ TryAdvanceStage(p)

-----------------------------------------------------------------------------
(* advanceStage *)

AdvanceGoto(k, next) == advances' = [advances EXCEPT ![k].pc = next]

\* advanceStageFailed.
AdvanceFails(k) ==
    /\ advances' = RemoveAt(advances, k)
    /\ advancing' = FALSE

\* CompletedStage and the director's decision.
Decide(k) ==
    /\ advances[k].pc = "decide" /\ QueueReached
    /\ \/ /\ stage \in {"StageClear", "Reward", "PreparingNextStage"}
          /\ advances' = [advances EXCEPT ![k].pc = "submit", ![k].plan = number + 1]
          /\ decisions' = Append(decisions, number + 1)
          /\ UNCHANGED advancing
       \/ /\ stage \notin {"StageClear", "Reward", "PreparingNextStage"}
          /\ AdvanceFails(k)
          /\ UNCHANGED decisions
    /\ UNCHANGED <<sessionVars, rewardStage, rewarded, delivered, ready, completed, roomVars, notice,
                   begins, entering, rejecting, botVars>>

\* A lost player that still owes its choice is about to leave.
Departing == leaving # {} \/ \E p \in Players : conn[p] = "closing"

\* The same plan is submitted again while the room refuses it, thirty times at
\* most: time for a departure, but not for more.
StartStage(k) ==
    /\ advances[k].pc = "submit" /\ QueueReached
    /\ Lagging \/ \A n \in AllStages : begins[n] \notin {"snapshot", "enter"}
    /\ \/ /\ Start(advances[k].plan)
          /\ events' = Append(events, StageMessage("started", advances[k].plan))
          /\ AdvanceGoto(k, "snapshot")
          /\ UNCHANGED advancing
       \/ /\ ~CanStart(advances[k].plan) /\ (Lagging \/ ~Departing)
          /\ AdvanceFails(k)
          /\ UNCHANGED <<stagesVars, events>>
    /\ UNCHANGED <<sessionVars, rewardStage, rewarded, delivered, ready, completed, updates, choices,
                   notice, begins, entering, rejecting, decisions, botVars>>

LeaveSnapshot(k) ==
    /\ advances[k].pc = "snapshot"
    /\ advances' = [advances EXCEPT ![k].pc = "leave", ![k].leave = SessionsIn("reward")]
    /\ UNCHANGED <<sessionVars, activeVars, roomVars, notice, begins, entering, rejecting, decisions,
                   botVars>>

\* Mutant: the sessions stay where they are.
LeavesReward_Never(p) == UNCHANGED sess

LeavesReward(p) == Transition(p, "reward", "in_room")

LeaveReward(k) ==
    /\ advances[k].pc = "leave"
    /\ \/ \E p \in advances[k].leave :
             /\ LeavesReward(p)
             /\ advances' = [advances EXCEPT ![k].leave = @ \ {p}]
       \/ advances[k].leave = {} /\ AdvanceGoto(k, "clear") /\ UNCHANGED sess
    /\ UNCHANGED <<conn, handler, leaving, activeVars, roomVars, notice, begins, entering, rejecting,
                   decisions, botVars>>

\* Mutant: the flag is left up.
AfterAdvance_Up == advancing

AfterAdvance == FALSE

EndAdvance(k) ==
    /\ advances[k].pc = "clear"
    /\ rewarded' = {} /\ delivered' = {} /\ ready' = {}
    /\ advancing' = AfterAdvance
    /\ advances' = RemoveAt(advances, k)
    /\ UNCHANGED <<sessionVars, rewardStage, completed, roomVars, notice, begins, entering, rejecting,
                   decisions, botVars>>

Advance ==
    \E k \in DOMAIN advances :
        Decide(k) \/ StartStage(k) \/ LeaveSnapshot(k) \/ LeaveReward(k) \/ EndAdvance(k)

-----------------------------------------------------------------------------
(* The end of a connection *)

\* The client goes: RunMatch has ended, or the connection is lost.
Hangup(p) ==
    /\ conn[p] = "open"
    /\ p \in Leavers \/ phase[p] \in Over
    /\ conn' = [conn EXCEPT ![p] = "closing"]
    /\ inbox' = [inbox EXCEPT ![p] = <<>>]
    /\ UNCHANGED <<sess, handler, leaving, activeVars, roomVars, workVars, scenario, outbox, phase,
                   cleared, offered, responses>>

Disconnected(p) ==
    /\ conn[p] = "closing" /\ handler[p] = "idle"
    /\ conn' = [conn EXCEPT ![p] = "gone"]
    /\ sess' = [sess EXCEPT ![p] = "disconnected"]
    /\ leaving' = leaving \cup {p}
    /\ outbox' = [outbox EXCEPT ![p] = <<>>]
    /\ UNCHANGED <<handler, activeVars, roomVars, workVars, scenario, inbox, phase, cleared, offered, responses>>

LeaveRoom(p) ==
    /\ p \in leaving /\ QueueReached
    /\ Leave(p)
    /\ leaving' = leaving \ {p}
    /\ UNCHANGED <<sess, conn, handler, activeVars, events, updates, choices, workVars, botVars>>

Client(p) == conn[p] = "open" /\ Observe(p)
                /\ UNCHANGED <<sessionVars, activeVars, roomVars, workVars>>

Next ==
    \/ FightEnds("StageClear", "cleared") \/ FightEnds("Failed", "defeated")
    \/ Deadline \/ ApplyChoice
    \/ ObserveEvent \/ ObserveRewards \/ Reject \/ Advance
    \/ \E n \in AllStages : Begin(n)
    \/ \E p \in Players : Handle(p) \/ Client(p) \/ Hangup(p) \/ Disconnected(p) \/ LeaveRoom(p)

Spec == Init /\ [][Next]_vars

\* Goroutines run to their end, the room ticks, and a bot reads and answers.
FairSpec ==
    /\ Spec
    /\ WF_vars(Deadline) /\ WF_vars(ApplyChoice)
    /\ WF_vars(ObserveEvent) /\ WF_vars(ObserveRewards) /\ WF_vars(Reject) /\ WF_vars(Advance)
    /\ \A n \in AllStages : WF_vars(Begin(n))
    /\ \A p \in Players : /\ WF_vars(Handle(p)) /\ WF_vars(Client(p))
                          /\ WF_vars(Disconnected(p)) /\ WF_vars(LeaveRoom(p))

-----------------------------------------------------------------------------
(* Properties *)

\* A client that keeps to the protocol is never refused a message and never
\* sees one out of order: the options come after the stage was cleared, the
\* refusal of a second choice after the answer to the first, a stage after the
\* one before it, and nothing twice, whichever goroutine sends it.
BotsNeverErr ==
    \A p \in Players : /\ phase[p] # "error"
                       /\ conn[p] = "open" /\ outbox[p] # <<>> => Accepts(p, Head(outbox[p]))

\* One stage is decided on once, however many players get ready at a time.
OneDecisionPerStage == IsInjective(decisions)

\* The barrier between two stages: the next one starts only when each player
\* that is still connected has its reward and has asked for it.
NobodyIsRushed ==
    [][stage = "PreparingNextStage" /\ stage' = "Playing" =>
           \A p \in Connected : phase[p] = "ready"]_vars

Working == \/ events # <<>> \/ updates # <<>> \/ notice # Nothing \/ advances # <<>>
           \/ \E n \in AllStages : begins[n] \notin {"none", "done"}

\* handlePlayerInput drops the inputs of a session in Reward.
InputIsDropped(p) == sess[p] = "reward"

\* The sessions follow the room: in a fight no input is dropped, in a reward
\* round a choice is legal, once nobody is on the way to change it.
SessionsFollowTheRoom ==
    ~Working => \A p \in Connected :
        /\ stage = "Playing" => ~InputIsDropped(p)
        /\ stage \in {"Reward", "PreparingNextStage"} => Accepts(p, "choose")

\* As long as everybody stays, a cleared stage leads to the next one or to the
\* end of the match.
ClearedStageLeadsOn ==
    (stage = "StageClear" /\ Connected = Players)
        ~> (stage = "Playing" \/ completed \/ Connected # Players)
=============================================================================
