------------------------------- MODULE MatchBot -------------------------------
(***************************************************************************)
(* The client of one match: the lifecycle that bot/internal/client follows *)
(* from MatchFound to the last stage (lifecycleProgress and RunMatch).     *)
(*                                                                         *)
(* The reader of a bot observes a message and its main loop sends what the *)
(* observation asks for; the wire keeps the order of the messages, so both *)
(* are one step here.  Inputs and snapshots are left out: they change      *)
(* neither the phase nor the messages below.                               *)
(***************************************************************************)
EXTENDS Integers, Sequences

CONSTANTS Bots,
          Played,       \* bound: the RewardScenarios the bots are run with
          TargetStages  \* config.TargetStages, the StageLimit of the server

Scenarios == {"normal", "invalid", "duplicate", "timeout"}

ASSUME MatchBotAssumption ==
    /\ Played \subseteq [Bots -> Scenarios]
    /\ TargetStages \in Nat \ {0}

VARIABLES scenario, \* config.RewardScenario of each bot
          inbox,    \* reliable messages on their way to each bot
          outbox,   \* messages on their way to the server
          phase,    \* progress.phase; error and defeated end RunMatch
          cleared,  \* stagesCleared
          offered,  \* rewardStage # 0: this stage's options have come
          responses \* rewardResponses

botVars == <<scenario, inbox, outbox, phase, cleared, offered, responses>>

\* What the server sends: an index belongs to a stage, an item to a choice.
StageMessage(kind, n)     == [kind |-> kind, index |-> n]
RewardApplied(reason, it) == [kind |-> "applied", reason |-> reason, item |-> it]

Over == {"complete", "defeated", "error"}

BotInit ==
    /\ scenario \in Played
    /\ inbox = [p \in Bots |-> <<>>] /\ outbox = [p \in Bots |-> <<>>]
    /\ phase = [p \in Bots |-> "match"] /\ cleared = [p \in Bots |-> 0]
    /\ offered = [p \in Bots |-> FALSE] /\ responses = [p \in Bots |-> 0]

Send(p, messages) == outbox' = [outbox EXCEPT ![p] = @ \o messages]
Enters(p, next)   == phase' = [phase EXCEPT ![p] = next]

ObserveStageStarted(p, m) ==
    /\ m.kind = "started"
    /\ Enters(p, IF m.index = cleared[p] + 1 /\ m.index <= TargetStages THEN "combat" ELSE "error")
    /\ offered' = [offered EXCEPT ![p] = FALSE]
    /\ responses' = [responses EXCEPT ![p] = 0]
    /\ UNCHANGED <<outbox, cleared>>

ObserveStageCleared(p, m) ==
    /\ m.kind = "cleared"
    /\ \/ /\ phase[p] = "combat" /\ m.index = cleared[p] + 1
          /\ cleared' = [cleared EXCEPT ![p] = m.index]
          /\ Enters(p, IF m.index >= TargetStages THEN "complete" ELSE "reward")
       \/ /\ phase[p] # "combat" \/ m.index # cleared[p] + 1
          /\ Enters(p, "error")
          /\ UNCHANGED cleared
    /\ UNCHANGED <<outbox, offered, responses>>

ObserveTeamDefeated(p, m) ==
    /\ m.kind = "defeated"
    /\ Enters(p, "defeated")
    /\ UNCHANGED <<outbox, cleared, offered, responses>>

\* What each scenario answers to the options of a stage.
FirstChoices == [normal    |-> <<"choose">>,
                 invalid   |-> <<"chooseUnoffered">>,
                 duplicate |-> <<"choose", "choose">>,
                 timeout   |-> <<>>]

ObserveRewardOptions(p, m) ==
    /\ m.kind = "options"
    /\ \/ /\ phase[p] = "reward" /\ ~offered[p] /\ m.index = cleared[p]
          /\ offered' = [offered EXCEPT ![p] = TRUE]
          /\ Send(p, FirstChoices[scenario[p]])
          /\ UNCHANGED phase
       \/ /\ ~(phase[p] = "reward" /\ ~offered[p] /\ m.index = cleared[p])
          /\ Enters(p, "error")
          /\ UNCHANGED <<offered, outbox>>
    /\ UNCHANGED <<cleared, responses>>

\* The answers each scenario waits for, in order, before it is ready.
Answers == [normal    |-> <<RewardApplied("ok", "chosen")>>,
            invalid   |-> <<RewardApplied("refused", "unoffered"), RewardApplied("ok", "chosen")>>,
            duplicate |-> <<RewardApplied("ok", "chosen"), RewardApplied("refused", "chosen")>>,
            timeout   |-> <<RewardApplied("ok", "first")>>]

ObserveRewardApplied(p, m) ==
    LET expected == Answers[scenario[p]]
        nth      == responses[p] + 1
    IN  /\ m.kind = "applied"
        /\ responses' = [responses EXCEPT ![p] = nth]
        /\ \/ /\ ~(phase[p] = "reward" /\ offered[p] /\ m = expected[nth])
              /\ Enters(p, "error")
              /\ UNCHANGED outbox
           \/ /\ phase[p] = "reward" /\ offered[p] /\ m = expected[nth]
              /\ nth < Len(expected)
              /\ Send(p, IF scenario[p] = "invalid" THEN <<"choose">> ELSE <<>>)
              /\ UNCHANGED phase
           \/ /\ phase[p] = "reward" /\ offered[p] /\ m = expected[nth]
              /\ nth = Len(expected)
              /\ Enters(p, "ready")
              /\ Send(p, <<"ready">>)
        /\ UNCHANGED <<cleared, offered>>

\* A Disconnect of the server is an error of the bot.
ObserveDisconnect(p, m) ==
    /\ m.kind = "disconnect"
    /\ Enters(p, "error")
    /\ UNCHANGED <<outbox, cleared, offered, responses>>

Observe(p) ==
    /\ phase[p] \notin Over
    /\ inbox[p] # <<>>
    /\ inbox' = [inbox EXCEPT ![p] = Tail(@)]
    /\ UNCHANGED scenario
    /\ LET m == Head(inbox[p])
       IN  \/ ObserveStageStarted(p, m) \/ ObserveStageCleared(p, m) \/ ObserveTeamDefeated(p, m)
           \/ ObserveRewardOptions(p, m) \/ ObserveRewardApplied(p, m) \/ ObserveDisconnect(p, m)
=============================================================================
