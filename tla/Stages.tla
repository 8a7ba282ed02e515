-------------------------------- MODULE Stages --------------------------------
(***************************************************************************)
(* What a World promises to the goroutines that orchestrate its stages     *)
(* (server/cmd/gameserver): the stage machine, who is in the room and who  *)
(* still owes a choice in the open reward round.  World implements it (see *)
(* StageMachine in World); StageFlow is built from its actions.            *)
(***************************************************************************)
EXTENDS Integers, FiniteSets

CONSTANTS Players,  \* entity.ID of every player that may join
          MaxStage  \* bound: largest index of a plan

VARIABLES stage,   \* stage.View.State
          number,  \* stage.View.Index
          members, \* the players in the room
          owed     \* the players whose choice is open

stagesVars == <<stage, number, members, owed>>

StagesInit == stage = "Waiting" /\ number = 0 /\ members = {} /\ owed = {}

Enter(p) ==
    /\ stage = "Waiting" /\ p \notin members
    /\ members' = members \cup {p}
    /\ UNCHANGED <<stage, number, owed>>

\* The round goes on with the players that remain, and ends with the choice of
\* the last of them or with the departure of the last that still owes one.
After(remaining, debt) ==
    IF stage = "Reward" /\ remaining # {} /\ debt = {} THEN "PreparingNextStage" ELSE stage

Leave(p) ==
    /\ p \in members
    /\ members' = members \ {p} /\ owed' = owed \ {p}
    /\ stage' = After(members', owed')
    /\ UNCHANGED number

CanStart(n) ==
    /\ members # {}
    /\ \/ stage = "Waiting"
       \/ stage = "PreparingNextStage" /\ n = number + 1

Start(n) ==
    /\ CanStart(n)
    /\ stage' = "Playing" /\ number' = n
    /\ UNCHANGED <<members, owed>>

CombatEnds(result) ==
    /\ stage = "Playing" /\ result \in {"StageClear", "Failed"}
    /\ stage' = result
    /\ UNCHANGED <<number, members, owed>>

CanOpenRound == stage = "StageClear" /\ members # {}

OpenRound ==
    /\ CanOpenRound
    /\ stage' = "Reward" /\ owed' = members
    /\ UNCHANGED <<number, members>>

\* The choices of the players in `who` are made, by themselves or by default.
Settle(who) ==
    /\ stage = "Reward" /\ who # {} /\ who \subseteq owed
    /\ owed' = owed \ who
    /\ stage' = After(members, owed')
    /\ UNCHANGED <<number, members>>

CloseStages ==
    /\ stage' = "Closed" /\ number' = 0 /\ members' = {} /\ owed' = {}

StagesNext ==
    \/ \E p \in Players : Enter(p) \/ Leave(p)
    \/ \E n \in 1..MaxStage : Start(n)
    \/ \E result \in {"StageClear", "Failed"} : CombatEnds(result)
    \/ OpenRound
    \/ \E who \in SUBSET Players : Settle(who)
    \/ CloseStages

StagesSpec == StagesInit /\ [][StagesNext]_stagesVars
=============================================================================
