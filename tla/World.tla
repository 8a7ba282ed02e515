------------------------------- MODULE World -------------------------------
(***************************************************************************)
(* The authoritative state of one match: server/internal/game (World) with *)
(* the reward round of server/internal/game/reward.  A World is not safe   *)
(* for concurrent use; every action below is one call that the goroutine   *)
(* of the owning Room makes.                                               *)
(*                                                                         *)
(* Positions, health and damage are abstracted: a combat tick kills an     *)
(* arbitrary set of living players and an arbitrary number of monsters.    *)
(* Absolute ticks are abstracted to the one difference the code compares,  *)
(* the ticks left before the reward deadline (variable grace).             *)
(***************************************************************************)
EXTENDS Integers, Sequences, FiniteSets

CONSTANTS Players,      \* entity.ID of every player that may join
          Items,        \* equipment.ID of the reward catalog
          NoItem,       \* the zero equipment.ID: nothing selected yet
          NoOffer,      \* a player without an entry in Round.offers
          Capacity,     \* Config.Capacity: players per world
          MaxOptions,   \* reward.MaxOptions: items offered to one player
          MaxStage,     \* bound: largest plan index the environment submits
          MaxMonsters,  \* bound: largest number of monsters in a plan
          RewardTicks,  \* durationTicks of a reward round
          MaxSeq,       \* bound: largest input sequence number a client sends
          MaxPending    \* maxPendingEvents: cap of either pending list

ASSUME WorldAssumption ==
    /\ NoItem \notin Items
    /\ NoOffer \notin [options : SUBSET Items, first : Items, selected : Items \cup {NoItem}]
    /\ Capacity \in Nat \ {0}
    /\ MaxOptions \in Nat \ {0}
    /\ MaxStage \in Nat \ {0}
    /\ MaxMonsters \in Nat \ {0}
    /\ RewardTicks \in Nat \ {0}
    /\ MaxSeq \in Nat \ {0}
    /\ MaxPending \in Nat \ {0}

VARIABLES state,           \* stage.View.State
          index,           \* stage.View.Index, 0 before the run
          monsters,        \* len(monsters) = View.MonstersRemaining
          life,            \* players: absent, or present and alive or dead
          departed,        \* departedPlayers: players that left during the run
          runStarted,      \* runStarted
          runEnded,        \* runEndedAtTick # 0
          ready,           \* performance.ready: this stage's metrics are frozen
          completedStages, \* indices in completedStages
          roundOpen,       \* rewardRound # nil
          offers,          \* Round.offers, NoOffer outside its domain
          grace,           \* Round.deadline - tick, -1 for every negative value
          loadout,         \* selections applied to each player's loadout
          inputSeq,        \* playerState.input.Seq: last accepted intent
          events,          \* pending events
          eventOverflow,
          rewardUpdates,   \* pending directed updates
          rewardOverflow,
          roster           \* history: players present when the run started

runVars    == <<departed, runStarted, runEnded, roster>>
stageVars  == <<state, index, monsters, ready, completedStages>>
roundVars  == <<roundOpen, offers, grace>>
eventVars  == <<events, eventOverflow>>
updateVars == <<rewardUpdates, rewardOverflow>>
playerVars == <<life, loadout, inputSeq>>
worldVars  == <<stageVars, runVars, playerVars, roundVars, eventVars, updateVars>>

StageStates == {"Waiting", "Playing", "StageClear", "Reward",
                "PreparingNextStage", "Failed", "Closed"}

Offer == [options : SUBSET Items, first : Items, selected : Items \cup {NoItem}]

EventRec  == [kind : {"StageStarted", "Combat", "StageCleared", "TeamDefeated"},
              index : Nat]
\* The updates one call emits for several players are one element.
UpdateRec == [kind : {"OptionsAvailable", "SelectionApplied"}, to : SUBSET Players]

-----------------------------------------------------------------------------
Present == {p \in Players : life[p] # "absent"}
Living  == {p \in Players : life[p] = "alive"}

\* Round.offers holds an entry for these players.
Offered == {p \in Players : offers[p] # NoOffer}

\* What Complete reports of a round holding the offers o: an empty round is
\* never complete.
Complete(o) ==
    LET held == {p \in Players : o[p] # NoOffer}
    IN  held # {} /\ \A p \in held : o[p].selected # NoItem

Shorter(s) == IF Len(s) > MaxPending THEN SubSeq(s, 1, MaxPending) ELSE s

\* Both pending lists refuse what does not fit and remember that they did.
Emit(new) ==
    /\ events' = Shorter(events \o new)
    /\ eventOverflow' = (eventOverflow \/ Len(events \o new) > MaxPending)

EmitRewardUpdates(new) ==
    /\ rewardUpdates' = Shorter(rewardUpdates \o new)
    /\ rewardOverflow' = (rewardOverflow \/ Len(rewardUpdates \o new) > MaxPending)

WorldInit ==
    /\ state = "Waiting" /\ index = 0 /\ monsters = 0
    /\ ready = FALSE /\ completedStages = <<>>
    /\ departed = {} /\ runStarted = FALSE /\ runEnded = FALSE /\ roster = {}
    /\ life = [p \in Players |-> "absent"]
    /\ roundOpen = FALSE /\ offers = [p \in Players |-> NoOffer] /\ grace = 0
    /\ loadout = [p \in Players |-> 0] /\ inputSeq = [p \in Players |-> 0]
    /\ events = <<>> /\ eventOverflow = FALSE
    /\ rewardUpdates = <<>> /\ rewardOverflow = FALSE

-----------------------------------------------------------------------------
(* Membership *)

CanAddPlayer(p) ==
    /\ p \notin Present
    /\ Cardinality(Present) < Capacity
    /\ state = "Waiting"

AddPlayer(p) ==
    /\ CanAddPlayer(p)
    /\ life' = [life EXCEPT ![p] = "alive"]
    /\ loadout' = [loadout EXCEPT ![p] = 0] /\ inputSeq' = [inputSeq EXCEPT ![p] = 0]
    /\ departed' = departed \ {p}
    /\ UNCHANGED <<stageVars, runStarted, runEnded, roster, roundVars, eventVars, updateVars>>

\* Mutant: only a departure in mid-fight is kept for the result.
Recorded_PlayingOnly(p) == IF state = "Playing" THEN {p} ELSE {}

Recorded(p) == IF runStarted THEN {p} ELSE {}

\* Mutant: RemovePlayer leaves the stage state alone.
LeavingCompletes_Never(p, left) == FALSE

LeavingCompletes(p, left) ==
    /\ p \in Offered
    /\ state = "Reward"
    /\ Present \ {p} # {}
    /\ Complete(left)

\* A player that leaves after the run began stays in the final result; one
\* that leaves the reward round may complete it for the players that remain.
RemovePlayer(p) ==
    LET left == [offers EXCEPT ![p] = NoOffer]
    IN  /\ p \in Present
        /\ life' = [life EXCEPT ![p] = "absent"]
        /\ departed' = departed \cup Recorded(p)
        /\ loadout' = [loadout EXCEPT ![p] = 0] /\ inputSeq' = [inputSeq EXCEPT ![p] = 0]
        /\ offers' = left
        /\ state' = IF LeavingCompletes(p, left) THEN "PreparingNextStage" ELSE state
        /\ UNCHANGED <<index, monsters, ready, completedStages, runStarted, runEnded, roster,
                       roundOpen, grace, eventVars, updateVars>>

\* An intent is latched only if it is newer than the last one accepted.
CanApplyInput(p, seq) == p \in Present /\ seq > inputSeq[p]

ApplyInput(p, seq) ==
    /\ CanApplyInput(p, seq)
    /\ inputSeq' = [inputSeq EXCEPT ![p] = seq]
    /\ UNCHANGED <<stageVars, runVars, life, loadout, roundVars, eventVars, updateVars>>

-----------------------------------------------------------------------------
(* Stages *)

\* Mutant: the next plan may have any index.
CanStartStage_AnyIndex(i) ==
    /\ Present # {}
    /\ \/ state = "Waiting" /\ Living # {}
       \/ state = "PreparingNextStage" /\ roundOpen /\ Complete(offers)

CanStartStage(i) ==
    /\ Present # {}
    /\ \/ state = "Waiting" /\ Living # {}
       \/ state = "PreparingNextStage" /\ roundOpen /\ Complete(offers) /\ i = index + 1

StartStage(i) ==
    /\ CanStartStage(i)
    /\ \E n \in 1..MaxMonsters : monsters' = n
    /\ index' = i
    /\ state' = "Playing"
    /\ ready' = FALSE
    /\ IF state = "Waiting"
       THEN /\ runStarted' = TRUE /\ runEnded' = FALSE
            /\ completedStages' = <<>>
            /\ roster' = Present
            /\ UNCHANGED <<life, roundVars>>
       ELSE /\ life' = [p \in Players |-> IF p \in Present THEN "alive" ELSE "absent"]
            /\ roundOpen' = FALSE /\ offers' = [p \in Players |-> NoOffer] /\ grace' = 0
            /\ UNCHANGED <<runStarted, runEnded, completedStages, roster>>
    /\ Emit(<<[kind |-> "StageStarted", index |-> i]>>)
    /\ UNCHANGED <<departed, loadout, inputSeq, updateVars>>

\* Mutant: clearing the stage is looked at first.
CombatResult_ClearFirst(survivors, rest) ==
    IF rest = 0 THEN "StageClear" ELSE IF survivors = {} THEN "Failed" ELSE "Playing"

\* The team's defeat is decided before the stage's clearing.
CombatResult(survivors, rest) ==
    IF survivors = {} THEN "Failed" ELSE IF rest = 0 THEN "StageClear" ELSE "Playing"

\* One combat tick: it kills the players in `fallen` and leaves `rest` monsters.
\* Whatever shots, hits and deaths it reports are one element (`shots`: a tick
\* may have some to report without a death).
StepCombat(fallen, rest, shots) ==
    LET result == CombatResult(Living \ fallen, rest)
        note(kind) == <<[kind |-> kind, index |-> index]>>
        fight == IF shots \/ fallen # {} \/ rest < monsters THEN note("Combat") ELSE <<>>
    IN  /\ state = "Playing"
        /\ fallen \subseteq Living /\ rest <= monsters
        /\ monsters' = rest
        /\ life' = [p \in Players |-> IF p \in fallen THEN "dead" ELSE life[p]]
        /\ state' = result
        /\ \/ /\ result = "Failed"
              /\ runEnded' = TRUE
              /\ Emit(fight \o note("TeamDefeated"))
              /\ UNCHANGED <<ready, completedStages>>
           \/ /\ result = "StageClear"
              /\ ready' = TRUE
              /\ completedStages' = Append(completedStages, index)
              /\ Emit(fight \o note("StageCleared"))
              /\ UNCHANGED runEnded
           \/ /\ result = "Playing"
              /\ Emit(fight)
              /\ UNCHANGED <<runEnded, ready, completedStages>>
        /\ UNCHANGED <<index, departed, runStarted, roster, roundVars, loadout, inputSeq, updateVars>>

-----------------------------------------------------------------------------
(* The reward round *)

OptionCount == IF Cardinality(Items) < MaxOptions THEN Cardinality(Items) ELSE MaxOptions

\* The private offers NewRound can draw for one player.
Menu == {o \in Offer : /\ Cardinality(o.options) = OptionCount
                       /\ o.first \in o.options
                       /\ o.selected = NoItem}

CanStartReward == state = "StageClear" /\ ~roundOpen /\ Items # {} /\ Present # {}

StartReward ==
    /\ CanStartReward
    /\ \E menu \in [Present -> Menu] :
          offers' = [p \in Players |-> IF p \in Present THEN menu[p] ELSE NoOffer]
    /\ state' = "Reward" /\ roundOpen' = TRUE
    /\ grace' = RewardTicks
    /\ EmitRewardUpdates(<<[kind |-> "OptionsAvailable", to |-> Present]>>)
    /\ UNCHANGED <<index, monsters, ready, completedStages, runVars, playerVars, eventVars>>

\* Mutant: a player may choose again.
CanChooseReward_Again(p, item) ==
    /\ state = "Reward" /\ roundOpen
    /\ p \in Offered
    /\ grace >= 0
    /\ item \in offers[p].options

\* ValidateChoice: the deadline tick itself is still in time.
CanChooseReward(p, item) ==
    /\ state = "Reward" /\ roundOpen
    /\ p \in Offered
    /\ offers[p].selected = NoItem
    /\ grace >= 0
    /\ item \in offers[p].options

\* applyRewardSelection for each player p in the domain of `picked`.
ApplySelections(picked) ==
    LET who    == DOMAIN picked
        chosen == [p \in Players |-> IF p \in who
                                     THEN [offers[p] EXCEPT !.selected = picked[p]]
                                     ELSE offers[p]]
    IN  /\ offers' = chosen
        /\ loadout' = [p \in Players |-> IF p \in who THEN loadout[p] + 1 ELSE loadout[p]]
        /\ state' = IF Complete(chosen) THEN "PreparingNextStage" ELSE state
        /\ EmitRewardUpdates(<<[kind |-> "SelectionApplied", to |-> who]>>)
        /\ UNCHANGED <<index, monsters, ready, completedStages, runVars, life, inputSeq,
                       roundOpen, eventVars>>

ChooseReward(p, item) ==
    /\ CanChooseReward(p, item)
    /\ ApplySelections([q \in {p} |-> item])
    /\ UNCHANGED grace

\* Mutant: a dead player's choice is never defaulted.
Undecided_Living == {p \in Offered \cap Living : offers[p].selected = NoItem}

Undecided == {p \in Offered : offers[p].selected = NoItem}

\* tick++ seen from the deadline.
TickedGrace == IF roundOpen /\ grace >= 0 THEN grace - 1 ELSE grace

\* Mutant: the tick before the increment is compared with the deadline.
DefaultsDue_Late == state = "Reward" /\ roundOpen /\ grace < 0 /\ Undecided # {}

DefaultsDue == state = "Reward" /\ roundOpen /\ TickedGrace < 0 /\ Undecided # {}

\* stepReward after tick++: past the deadline every open offer takes its
\* first item.
StepReward ==
    /\ state # "Playing"
    /\ grace' = TickedGrace
    /\ IF DefaultsDue
       THEN ApplySelections([q \in Undecided |-> offers[q].first])
       ELSE UNCHANGED <<stageVars, runVars, playerVars, roundOpen, offers, eventVars, updateVars>>

Step ==
    \/ \E fallen \in SUBSET Players, rest \in 0..MaxMonsters, shots \in BOOLEAN :
          StepCombat(fallen, rest, shots)
    \/ StepReward

-----------------------------------------------------------------------------
(* What the Room takes out of the World *)

TakeEvents ==
    /\ events' = <<>> /\ eventOverflow' = FALSE
    /\ UNCHANGED <<stageVars, runVars, playerVars, roundVars, updateVars>>

TakeRewardUpdates ==
    /\ rewardUpdates' = <<>> /\ rewardOverflow' = FALSE
    /\ UNCHANGED <<stageVars, runVars, playerVars, roundVars, eventVars>>

\* Outcomes GameResult accepts now, and the players its value lists.
GameResultOK(outcome) ==
    /\ runStarted
    /\ \/ /\ outcome = "Victory"
          /\ ready /\ completedStages # <<>>
          /\ state \in {"StageClear", "Reward", "PreparingNextStage"}
       \/ outcome = "Defeat" /\ state = "Failed" /\ runEnded
       \/ outcome = "Abandoned" /\ state \notin {"Waiting", "Closed", "Failed"}

ResultPlayers == departed \cup Present

\* CompletedStage: the director may read the frozen metrics.
CompletedStageOK == ready /\ state \in {"StageClear", "Reward", "PreparingNextStage"}

Close ==
    /\ state' = "Closed" /\ index' = 0 /\ monsters' = 0
    /\ ready' = FALSE /\ completedStages' = <<>>
    /\ departed' = {} /\ runStarted' = FALSE /\ runEnded' = FALSE /\ roster' = {}
    /\ life' = [p \in Players |-> "absent"]
    /\ roundOpen' = FALSE /\ offers' = [p \in Players |-> NoOffer] /\ grace' = 0
    /\ loadout' = [p \in Players |-> 0] /\ inputSeq' = [p \in Players |-> 0]
    /\ events' = <<>> /\ eventOverflow' = FALSE
    /\ rewardUpdates' = <<>> /\ rewardOverflow' = FALSE

WorldNext ==
    \/ \E p \in Players : AddPlayer(p) \/ RemovePlayer(p)
    \/ \E p \in Players, seq \in 1..MaxSeq : ApplyInput(p, seq)
    \/ \E i \in 1..MaxStage : StartStage(i)
    \/ StartReward
    \/ \E p \in Players, item \in Items : ChooseReward(p, item)
    \/ Step
    \/ TakeEvents
    \/ TakeRewardUpdates
    \/ Close

WorldSpec == WorldInit /\ [][WorldNext]_worldVars

\* The room's ticker keeps calling Step while the room lives.
WorldFairSpec == WorldSpec /\ WF_worldVars(Step)

-----------------------------------------------------------------------------
(* Properties *)

\* Types of every variable.
WorldTypeOK ==
    /\ state \in StageStates
    /\ index \in Nat /\ monsters \in Nat
    /\ life \in [Players -> {"absent", "alive", "dead"}]
    /\ departed \in SUBSET Players /\ roster \in SUBSET Players
    /\ runStarted \in BOOLEAN /\ runEnded \in BOOLEAN /\ ready \in BOOLEAN
    /\ completedStages \in Seq(Nat)
    /\ roundOpen \in BOOLEAN
    /\ offers \in [Players -> Offer \cup {NoOffer}]
    /\ grace \in -1..RewardTicks
    /\ loadout \in [Players -> Nat] /\ inputSeq \in [Players -> Nat]
    /\ events \in Seq(EventRec) /\ eventOverflow \in BOOLEAN
    /\ rewardUpdates \in Seq(UpdateRec) /\ rewardOverflow \in BOOLEAN

PostClear == {"Reward", "PreparingNextStage"}

\* The reward round never wedges the stage machine: its offers are those of
\* exactly the players present, the world waits in Reward only while a present
\* player has not chosen, and it prepares the next stage only once all have
\* (so StartStage of the next plan is accepted whoever left meanwhile).
RoundMatchesPlayers ==
    /\ roundOpen <=> state \in PostClear
    /\ Offered = IF roundOpen THEN Present ELSE {}
    /\ (Present # {} /\ state = "Reward") => ~Complete(offers)
    /\ (Present # {} /\ state = "PreparingNextStage") => Complete(offers)

\* Every player still present has received exactly one item per cleared stage,
\* chosen or by default, except for the open choice of the last cleared one.
OneItemPerClearedStage ==
    \A p \in Present :
        loadout[p] = LET open == \/ state = "StageClear"
                                \/ (state = "Reward" /\ offers[p].selected = NoItem)
                     IN  IF open THEN Len(completedStages) - 1 ELSE Len(completedStages)

\* The history of cleared stages has no gap and no repetition, and ends at the
\* current stage or at the one before it.
ClearedHistoryIsContiguous ==
    /\ \A k \in 1..Len(completedStages) - 1 : completedStages[k + 1] = completedStages[k] + 1
    /\ completedStages # <<>> =>
          LET last == completedStages[Len(completedStages)]
          IN  index = IF state \in {"StageClear"} \cup PostClear THEN last ELSE last + 1

\* A result lists every player that was there when the run started, each once,
\* however they left and whenever it is asked for.
ResultListsRoster ==
    runStarted => /\ ResultPlayers = roster
                  /\ departed \cap Present = {}

\* A round is never seen past its deadline with a choice open: a choice is
\* either in time or already defaulted (ErrChoiceExpired cannot be observed).
NoChoiceExpires == (state = "Reward" /\ Present # {}) => grace >= 0

\* combat.go: when the last monster and the last player die in the same tick
\* the stage is lost, so a stage is only cleared by a team with a survivor, and
\* a lost run stays lost until the world is closed.
DefeatTakesPrecedence ==
    [][/\ (state = "Playing" /\ state' = "StageClear") => \E p \in Players : life'[p] = "alive"
       /\ (state = "Failed") => state' \in {"Failed", "Closed"}]_worldVars

\* The World implements the stage machine that the goroutines around it count
\* on: nobody is left out of a round, a round that is over frees the next stage
\* whoever left meanwhile, and a stage follows the one before it.
StageMachine == INSTANCE Stages WITH
    stage <- state, number <- index, members <- Present, owed <- Undecided

StagesImplemented == StageMachine!StagesSpec

\* A reward round that keeps a player ends without any choice being made.
RewardRoundEnds ==
    (state = "Reward" /\ Present # {}) ~> (state # "Reward" \/ Present = {})
=============================================================================
