----------------------------- MODULE WorldProofs -----------------------------
(***************************************************************************)
(* Proofs about World for every number of players, items, stages and       *)
(* monsters: its invariants and action properties, and that it implements  *)
(* the stage machine its room is driven by.                                *)
(***************************************************************************)
EXTENDS World, SequenceTheorems, TLAPS

\* The stage states in which a stage of the run has been cleared.
StepPhases == {"StageClear", "Reward", "PreparingNextStage"}

\* What the run's flags and history say in each stage state: the part of the
\* inductive invariant that no run checks by itself.
RunMatchesState ==
    /\ state \in {"Waiting", "Closed"} => /\ ~runStarted
                                          /\ departed = {}
                                          /\ completedStages = <<>>
    /\ state \notin {"Waiting", "Closed"} => runStarted
    /\ state \in StepPhases => completedStages # <<>>
    /\ state = "Closed" => Present = {}

\* What a World promises its room, beyond types.
WorldSafe ==
    /\ RunMatchesState
    /\ RoundMatchesPlayers
    /\ OneItemPerClearedStage
    /\ ClearedHistoryIsContiguous
    /\ ResultListsRoster
    /\ NoChoiceExpires

\* The inductive invariant of the World.
WorldInv == WorldTypeOK /\ WorldSafe

-----------------------------------------------------------------------------
\* A pending list that was cut to its capacity still holds what it held.
LEMMA ShorterType ==
    ASSUME NEW S, NEW s \in Seq(S)
    PROVE  Shorter(s) \in Seq(S)
<1>1. MaxPending \in Nat
  BY WorldAssumption
<1>2. CASE Len(s) > MaxPending
  <2>1. \A i \in 1..MaxPending : s[i] \in S
    BY <1>1, <1>2
  <2>2. SubSeq(s, 1, MaxPending) \in Seq(S)
    BY <1>1, <2>1, SubSeqProperties
  <2> QED
    BY <1>2, <2>2 DEF Shorter
<1>3. CASE ~(Len(s) > MaxPending)
  BY <1>3 DEF Shorter
<1> QED
  BY <1>2, <1>3

\* Emitting typed events keeps the event list typed.
LEMMA EmitType ==
    ASSUME events \in Seq(EventRec), eventOverflow \in BOOLEAN,
           NEW new \in Seq(EventRec), Emit(new)
    PROVE  events' \in Seq(EventRec) /\ eventOverflow' \in BOOLEAN
<1>1. events \o new \in Seq(EventRec)
  BY ConcatProperties
<1> QED
  BY <1>1, ShorterType DEF Emit

\* The same for the directed updates.
LEMMA EmitUpdatesType ==
    ASSUME rewardUpdates \in Seq(UpdateRec), rewardOverflow \in BOOLEAN,
           NEW new \in Seq(UpdateRec), EmitRewardUpdates(new)
    PROVE  rewardUpdates' \in Seq(UpdateRec) /\ rewardOverflow' \in BOOLEAN
<1>1. rewardUpdates \o new \in Seq(UpdateRec)
  BY ConcatProperties
<1> QED
  BY <1>1, ShorterType DEF EmitRewardUpdates

-----------------------------------------------------------------------------
\* Applying typed selections to existing offers keeps the types.
LEMMA ApplySelectionsType ==
    ASSUME WorldTypeOK, NEW who \in SUBSET Offered, NEW picked \in [who -> Items],
           ApplySelections(picked), grace' \in -1..RewardTicks
    PROVE  WorldTypeOK'
<1> USE DEF WorldTypeOK, ApplySelections
<1>1. DOMAIN picked = who /\ who \subseteq Players
  BY DEF Offered
<1>2. offers' \in [Players -> Offer \cup {NoOffer}]
  <2>1. \A p \in who : offers[p] \in Offer
    BY <1>1 DEF Offered
  <2>2. \A p \in who : [offers[p] EXCEPT !.selected = picked[p]] \in Offer
    BY <2>1 DEF Offer
  <2> QED
    BY <1>1, <2>2
<1>3. rewardUpdates' \in Seq(UpdateRec) /\ rewardOverflow' \in BOOLEAN
  <2>1. [kind |-> "SelectionApplied", to |-> who] \in UpdateRec
    BY <1>1 DEF UpdateRec
  <2>2. <<[kind |-> "SelectionApplied", to |-> who]>> \in Seq(UpdateRec)
    BY <2>1
  <2> QED
    BY <1>1, <2>2, EmitUpdatesType
<1>4. loadout' \in [Players -> Nat]
  OBVIOUS
<1>5. state' \in StageStates
  BY DEF StageStates
<1> QED
  BY <1>2, <1>3, <1>4, <1>5 DEF runVars, eventVars

-----------------------------------------------------------------------------
(* Type correctness *)

\* The world of NewWorld is typed.
LEMMA InitType == WorldInit => WorldTypeOK
<1> SUFFICES ASSUME WorldInit PROVE WorldTypeOK
  OBVIOUS
<1> USE DEF WorldInit
<1>1. <<>> \in Seq(Nat) /\ <<>> \in Seq(EventRec) /\ <<>> \in Seq(UpdateRec)
  OBVIOUS
<1>2. grace \in -1..RewardTicks
  BY WorldAssumption
<1>3. offers \in [Players -> Offer \cup {NoOffer}]
  OBVIOUS
<1> QED
  BY <1>1, <1>2, <1>3 DEF WorldTypeOK, StageStates

\* Joining keeps the types.
LEMMA AddPlayerType ==
    ASSUME WorldTypeOK, NEW p \in Players, AddPlayer(p)
    PROVE  WorldTypeOK'
<1> USE DEF WorldTypeOK, AddPlayer
<1>1. /\ life' \in [Players -> {"absent", "alive", "dead"}]
      /\ loadout' \in [Players -> Nat] /\ inputSeq' \in [Players -> Nat]
      /\ departed' \in SUBSET Players
  OBVIOUS
<1> QED
  BY <1>1 DEF stageVars, roundVars, eventVars, updateVars

\* Leaving keeps the types.
LEMMA RemovePlayerType ==
    ASSUME WorldTypeOK, NEW p \in Players, RemovePlayer(p)
    PROVE  WorldTypeOK'
<1> USE DEF WorldTypeOK, RemovePlayer
<1>1. /\ life' \in [Players -> {"absent", "alive", "dead"}]
      /\ loadout' \in [Players -> Nat] /\ inputSeq' \in [Players -> Nat]
  OBVIOUS
<1>2. departed' \in SUBSET Players
  BY DEF Recorded
<1>3. offers' \in [Players -> Offer \cup {NoOffer}]
  OBVIOUS
<1>4. state' \in StageStates
  BY DEF StageStates
<1> QED
  BY <1>1, <1>2, <1>3, <1>4 DEF eventVars, updateVars

\* Latching an input keeps the types.
LEMMA ApplyInputType ==
    ASSUME WorldTypeOK, NEW p \in Players, NEW seq \in Nat, ApplyInput(p, seq)
    PROVE  WorldTypeOK'
BY DEF WorldTypeOK, ApplyInput, stageVars, runVars, roundVars, eventVars, updateVars

\* Starting a stage keeps the types.
LEMMA StartStageType ==
    ASSUME WorldTypeOK, NEW i \in Nat, StartStage(i)
    PROVE  WorldTypeOK'
<1> USE DEF WorldTypeOK, StartStage
<1>1. index' \in Nat /\ monsters' \in Nat /\ state' \in StageStates /\ ready' \in BOOLEAN
  <2>1. PICK n \in 1..MaxMonsters : monsters' = n
    OBVIOUS
  <2>2. monsters' \in Nat
    BY <2>1
  <2>3. index' = i /\ state' = "Playing" /\ ready' = FALSE
    OBVIOUS
  <2> QED
    BY <2>2, <2>3 DEF StageStates
<1>2. events' \in Seq(EventRec) /\ eventOverflow' \in BOOLEAN
  <2>1. <<[kind |-> "StageStarted", index |-> i]>> \in Seq(EventRec)
    BY DEF EventRec
  <2> QED
    BY <2>1, EmitType
<1>3. UNCHANGED <<departed, loadout, inputSeq, updateVars>>
  OBVIOUS
<1>4. CASE state = "Waiting"
  <2>1. roster' \in SUBSET Players
    BY <1>4 DEF Present
  <2>2. completedStages' \in Seq(Nat)
    BY <1>4
  <2> QED
    BY <1>1, <1>2, <1>3, <1>4, <2>1, <2>2 DEF roundVars, updateVars
<1>5. CASE state # "Waiting"
  <2>1. life' \in [Players -> {"absent", "alive", "dead"}]
    BY <1>5
  <2>2. offers' \in [Players -> Offer \cup {NoOffer}]
    BY <1>5
  <2>3. grace' \in -1..RewardTicks
    BY <1>5, WorldAssumption
  <2> QED
    BY <1>1, <1>2, <1>3, <1>5, <2>1, <2>2, <2>3 DEF updateVars
<1> QED
  BY <1>4, <1>5

\* A combat tick keeps the types.
LEMMA StepCombatType ==
    ASSUME WorldTypeOK, NEW fallen \in SUBSET Players, NEW rest \in Nat,
           NEW shots \in BOOLEAN, StepCombat(fallen, rest, shots)
    PROVE  WorldTypeOK'
<1> DEFINE result == CombatResult(Living \ fallen, rest)
           note(kind) == <<[kind |-> kind, index |-> index]>>
           fight == IF shots \/ fallen # {} \/ rest < monsters THEN note("Combat") ELSE <<>>
<1>1. /\ fight \in Seq(EventRec)
      /\ fight \o note("TeamDefeated") \in Seq(EventRec)
      /\ fight \o note("StageCleared") \in Seq(EventRec)
  <2>1. \A kind \in {"Combat", "TeamDefeated", "StageCleared"} : note(kind) \in Seq(EventRec)
    BY DEF WorldTypeOK, EventRec
  <2>2. fight \in Seq(EventRec)
    BY <2>1
  <2> HIDE DEF fight, note
  <2> QED
    BY <2>1, <2>2, ConcatProperties
<1>2. /\ monsters' = rest
      /\ life' = [p \in Players |-> IF p \in fallen THEN "dead" ELSE life[p]]
      /\ state' = result
      /\ \/ /\ runEnded' = TRUE
            /\ Emit(fight \o note("TeamDefeated"))
            /\ UNCHANGED <<ready, completedStages>>
         \/ /\ ready' = TRUE
            /\ completedStages' = Append(completedStages, index)
            /\ Emit(fight \o note("StageCleared"))
            /\ UNCHANGED runEnded
         \/ /\ Emit(fight)
            /\ UNCHANGED <<runEnded, ready, completedStages>>
      /\ UNCHANGED <<index, departed, runStarted, roster, roundVars, loadout, inputSeq, updateVars>>
  BY DEF StepCombat
<1>3. result \in StageStates
  BY DEF CombatResult, StageStates
<1> HIDE DEF result, fight, note
<1>4. life' \in [Players -> {"absent", "alive", "dead"}]
  BY <1>2 DEF WorldTypeOK
<1>5. events' \in Seq(EventRec) /\ eventOverflow' \in BOOLEAN
  BY <1>1, <1>2, EmitType DEF WorldTypeOK
<1>6. completedStages' \in Seq(Nat)
  <2>1. Append(completedStages, index) \in Seq(Nat)
    BY DEF WorldTypeOK
  <2> QED
    BY <1>2, <2>1 DEF WorldTypeOK
<1>7. runEnded' \in BOOLEAN /\ ready' \in BOOLEAN
  BY <1>2, Zenon DEF WorldTypeOK
<1> QED
  BY <1>2, <1>3, <1>4, <1>5, <1>6, <1>7 DEF WorldTypeOK, roundVars, updateVars

\* Opening the reward round keeps the types.
LEMMA StartRewardType ==
    ASSUME WorldTypeOK, StartReward
    PROVE  WorldTypeOK'
<1> USE DEF WorldTypeOK, StartReward
<1>1. offers' \in [Players -> Offer \cup {NoOffer}]
  <2>1. PICK menu \in [Present -> Menu] :
           offers' = [p \in Players |-> IF p \in Present THEN menu[p] ELSE NoOffer]
    OBVIOUS
  <2>2. \A p \in Present : menu[p] \in Offer
    BY DEF Menu
  <2> QED
    BY <2>1, <2>2
<1>2. rewardUpdates' \in Seq(UpdateRec) /\ rewardOverflow' \in BOOLEAN
  <2>1. [kind |-> "OptionsAvailable", to |-> Present] \in UpdateRec
    BY DEF UpdateRec, Present
  <2>2. <<[kind |-> "OptionsAvailable", to |-> Present]>> \in Seq(UpdateRec)
    BY <2>1
  <2> QED
    BY <2>2, EmitUpdatesType
<1>3. state' \in StageStates /\ roundOpen' \in BOOLEAN /\ grace' \in -1..RewardTicks
  BY WorldAssumption DEF StageStates
<1>4. UNCHANGED <<index, monsters, ready, completedStages, runVars, playerVars, eventVars>>
  OBVIOUS
<1> QED
  BY <1>1, <1>2, <1>3, <1>4 DEF runVars, playerVars, eventVars

\* A choice keeps the types.
LEMMA ChooseRewardType ==
    ASSUME WorldTypeOK, NEW p \in Players, NEW item \in Items, ChooseReward(p, item)
    PROVE  WorldTypeOK'
<1>1. {p} \in SUBSET Offered
  BY DEF ChooseReward, CanChooseReward
<1>2. [q \in {p} |-> item] \in [{p} -> Items]
  OBVIOUS
<1>3. grace' \in -1..RewardTicks
  BY DEF ChooseReward, WorldTypeOK
<1>4. ApplySelections([q \in {p} |-> item])
  BY DEF ChooseReward
<1> QED
  BY <1>1, <1>2, <1>3, <1>4, ApplySelectionsType

\* A tick outside the fight keeps the types.
LEMMA StepRewardType ==
    ASSUME WorldTypeOK, StepReward
    PROVE  WorldTypeOK'
<1>1. grace' \in -1..RewardTicks
  BY WorldAssumption DEF StepReward, TickedGrace, WorldTypeOK
<1>2. CASE DefaultsDue
  <2>1. Undecided \in SUBSET Offered
    BY DEF Undecided
  <2>2. [q \in Undecided |-> offers[q].first] \in [Undecided -> Items]
    BY DEF Undecided, Offered, WorldTypeOK, Offer
  <2>3. ApplySelections([q \in Undecided |-> offers[q].first])
    BY <1>2 DEF StepReward
  <2> QED
    BY <1>1, <2>1, <2>2, <2>3, ApplySelectionsType
<1>3. CASE ~DefaultsDue
  BY <1>1, <1>3 DEF StepReward, WorldTypeOK, stageVars, runVars, playerVars, eventVars, updateVars
<1> QED
  BY <1>2, <1>3

\* Closing keeps the types.
LEMMA CloseType == WorldTypeOK /\ Close => WorldTypeOK'
<1> SUFFICES ASSUME Close PROVE WorldTypeOK'
  OBVIOUS
<1> USE DEF Close
<1>1. /\ completedStages' \in Seq(Nat) /\ events' \in Seq(EventRec)
      /\ rewardUpdates' \in Seq(UpdateRec)
  OBVIOUS
<1>2. grace' \in -1..RewardTicks
  BY WorldAssumption
<1>3. offers' \in [Players -> Offer \cup {NoOffer}]
  OBVIOUS
<1> QED
  BY <1>1, <1>2, <1>3 DEF WorldTypeOK, StageStates

\* Every step of the World keeps the types.
LEMMA NextType == WorldTypeOK /\ [WorldNext]_worldVars => WorldTypeOK'
<1> SUFFICES ASSUME WorldTypeOK, [WorldNext]_worldVars PROVE WorldTypeOK'
  OBVIOUS
<1>1. ASSUME NEW p \in Players, AddPlayer(p) \/ RemovePlayer(p) PROVE WorldTypeOK'
  BY <1>1, AddPlayerType, RemovePlayerType
<1>2. ASSUME NEW p \in Players, NEW seq \in 1..MaxSeq, ApplyInput(p, seq) PROVE WorldTypeOK'
  BY <1>2, ApplyInputType
<1>3. ASSUME NEW i \in 1..MaxStage, StartStage(i) PROVE WorldTypeOK'
  BY <1>3, StartStageType
<1>4. CASE StartReward
  BY <1>4, StartRewardType
<1>5. ASSUME NEW p \in Players, NEW item \in Items, ChooseReward(p, item) PROVE WorldTypeOK'
  BY <1>5, ChooseRewardType
<1>6. CASE Step
  <2>1. ASSUME NEW fallen \in SUBSET Players, NEW rest \in 0..MaxMonsters, NEW shots \in BOOLEAN,
               StepCombat(fallen, rest, shots)
        PROVE  WorldTypeOK'
    BY <2>1, StepCombatType
  <2> QED
    BY <1>6, <2>1, StepRewardType DEF Step
<1>7. CASE TakeEvents \/ TakeRewardUpdates
  <2>1. <<>> \in Seq(EventRec) /\ <<>> \in Seq(UpdateRec)
    OBVIOUS
  <2>2. CASE TakeEvents
    BY <2>1, <2>2 DEF TakeEvents, WorldTypeOK, stageVars, runVars, playerVars, roundVars, updateVars
  <2>3. CASE TakeRewardUpdates
    BY <2>1, <2>3 DEF TakeRewardUpdates, WorldTypeOK, stageVars, runVars, playerVars, roundVars,
                      eventVars
  <2> QED
    BY <1>7, <2>2, <2>3
<1>8. CASE Close
  BY <1>8, CloseType
<1>9. CASE UNCHANGED worldVars
  BY <1>9 DEF WorldTypeOK, worldVars, stageVars, runVars, playerVars, roundVars, eventVars, updateVars
<1> QED
  BY <1>1, <1>2, <1>3, <1>4, <1>5, <1>6, <1>7, <1>8, <1>9 DEF WorldNext

\* Every variable of the World keeps its type, whatever sequence of calls its
\* room makes.
THEOREM WorldIsTyped == WorldSpec => []WorldTypeOK
BY InitType, NextType, PTL DEF WorldSpec

-----------------------------------------------------------------------------
(* The inductive invariant *)

\* Calls that touch nothing the invariant reads keep it.
LEMMA SafeUnchanged ==
    ASSUME WorldSafe,
           UNCHANGED <<state, index, completedStages, departed, runStarted, roster, life,
                       roundOpen, offers, grace, loadout>>
    PROVE  WorldSafe'
<1> USE DEF WorldSafe
<1>1. Present' = Present /\ Offered' = Offered
  BY DEF Present, Offered
<1>2. Complete(offers)' = Complete(offers)
  BY DEF Complete
<1>3. RunMatchesState'
  BY <1>1 DEF RunMatchesState
<1>4. RoundMatchesPlayers'
  BY <1>1, <1>2 DEF RoundMatchesPlayers
<1>5. OneItemPerClearedStage'
  BY <1>1 DEF OneItemPerClearedStage
<1>6. ClearedHistoryIsContiguous'
  BY DEF ClearedHistoryIsContiguous
<1>7. ResultListsRoster'
  BY <1>1 DEF ResultListsRoster, ResultPlayers
<1>8. NoChoiceExpires'
  BY <1>1 DEF NoChoiceExpires
<1> QED
  BY <1>3, <1>4, <1>5, <1>6, <1>7, <1>8

\* A new world has promised nothing yet.
LEMMA InitSafe == WorldInit => WorldSafe
<1> SUFFICES ASSUME WorldInit PROVE WorldSafe
  OBVIOUS
<1> USE DEF WorldInit
<1>1. Present = {} /\ Offered = {}
  BY DEF Present, Offered
<1>2. RunMatchesState /\ OneItemPerClearedStage /\ ResultListsRoster /\ NoChoiceExpires
  BY <1>1 DEF RunMatchesState, StepPhases, OneItemPerClearedStage, ResultListsRoster, NoChoiceExpires
<1>3. RoundMatchesPlayers
  BY <1>1 DEF RoundMatchesPlayers, PostClear
<1>4. ClearedHistoryIsContiguous
  BY DEF ClearedHistoryIsContiguous
<1> QED
  BY <1>2, <1>3, <1>4 DEF WorldSafe

\* A closed world has nothing left to promise.
LEMMA CloseSafe == Close => WorldSafe'
<1> SUFFICES ASSUME Close PROVE WorldSafe'
  OBVIOUS
<1> USE DEF Close
<1>1. Present' = {} /\ Offered' = {}
  BY DEF Present, Offered
<1>2. RunMatchesState' /\ OneItemPerClearedStage' /\ ResultListsRoster' /\ NoChoiceExpires'
  BY <1>1 DEF RunMatchesState, StepPhases, OneItemPerClearedStage, ResultListsRoster, NoChoiceExpires
<1>3. RoundMatchesPlayers'
  BY <1>1 DEF RoundMatchesPlayers, PostClear
<1>4. ClearedHistoryIsContiguous'
  BY DEF ClearedHistoryIsContiguous
<1> QED
  BY <1>2, <1>3, <1>4 DEF WorldSafe

\* Joining happens before the run, when there is nothing to contradict.
LEMMA AddPlayerSafe ==
    ASSUME WorldInv, NEW p \in Players, AddPlayer(p)
    PROVE  WorldSafe'
<1> USE DEF WorldInv, WorldSafe
<1>1. /\ state = "Waiting" /\ p \notin Present
      /\ UNCHANGED <<state, index, completedStages, runStarted, roster, roundOpen, offers, grace>>
      /\ life' = [life EXCEPT ![p] = "alive"] /\ loadout' = [loadout EXCEPT ![p] = 0]
      /\ departed' = departed \ {p}
  BY DEF AddPlayer, CanAddPlayer, stageVars, roundVars
<1>2. ~runStarted /\ departed = {} /\ completedStages = <<>> /\ ~roundOpen
  BY <1>1 DEF RunMatchesState, RoundMatchesPlayers, PostClear
<1>3. Present' = Present \cup {p} /\ Offered' = Offered
  BY <1>1 DEF Present, Offered, WorldTypeOK
<1>4. RunMatchesState' /\ ResultListsRoster' /\ NoChoiceExpires'
  BY <1>1, <1>2 DEF RunMatchesState, ResultListsRoster, NoChoiceExpires, StepPhases
<1>5. RoundMatchesPlayers'
  BY <1>1, <1>2, <1>3 DEF RoundMatchesPlayers, PostClear
<1>6. OneItemPerClearedStage'
  BY <1>1, <1>2, <1>3 DEF OneItemPerClearedStage, WorldTypeOK, Present
<1>7. ClearedHistoryIsContiguous'
  BY <1>1, <1>2 DEF ClearedHistoryIsContiguous
<1> QED
  BY <1>4, <1>5, <1>6, <1>7

\* A departure takes the player out of every table at once and completes the
\* round when the others have chosen.
LEMMA RemovePlayerSafe ==
    ASSUME WorldInv, NEW p \in Players, RemovePlayer(p)
    PROVE  WorldSafe'
<1> USE DEF WorldInv, WorldSafe
<1> DEFINE left == [offers EXCEPT ![p] = NoOffer]
<1>1. /\ p \in Present
      /\ life' = [life EXCEPT ![p] = "absent"]
      /\ departed' = departed \cup Recorded(p)
      /\ loadout' = [loadout EXCEPT ![p] = 0]
      /\ offers' = left
      /\ state' = IF LeavingCompletes(p, left) THEN "PreparingNextStage" ELSE state
      /\ UNCHANGED <<index, completedStages, runStarted, roster, roundOpen, grace>>
  BY DEF RemovePlayer
<1>2. Present' = Present \ {p} /\ Offered' = Offered \ {p}
  BY <1>1 DEF Present, Offered, WorldTypeOK
<1>3. \A q \in Players \ {p} : offers'[q] = offers[q] /\ loadout'[q] = loadout[q]
  BY <1>1 DEF WorldTypeOK
<1>4. state = "Reward" => p \in Offered
  BY <1>1 DEF RoundMatchesPlayers, PostClear
<1>5. state' = state \/ (state = "Reward" /\ state' = "PreparingNextStage")
  BY <1>1 DEF LeavingCompletes
<1>6. Complete(offers') <=> Offered' # {} /\ \A q \in Offered' : offers'[q].selected # NoItem
  BY DEF Complete, Offered
<1>7. Complete(offers) <=> Offered # {} /\ \A q \in Offered : offers[q].selected # NoItem
  BY DEF Complete, Offered
<1>8. RunMatchesState'
  BY <1>1, <1>2, <1>5 DEF RunMatchesState, Recorded, StepPhases
<1>9. RoundMatchesPlayers'
  <2>1. (roundOpen <=> state \in PostClear)' /\ Offered' = IF roundOpen' THEN Present' ELSE {}
    BY <1>1, <1>2, <1>5 DEF RoundMatchesPlayers, PostClear
  <2>2. (Present' # {} /\ state' = "Reward") => ~Complete(offers')
    BY <1>1, <1>2, <1>4, <1>5 DEF LeavingCompletes
  <2>3. (Present' # {} /\ state' = "PreparingNextStage") => Complete(offers')
    <3>1. CASE LeavingCompletes(p, left)
      BY <1>1, <3>1 DEF LeavingCompletes
    <3>2. CASE ~LeavingCompletes(p, left) /\ state = "PreparingNextStage" /\ Present' # {}
      <4>1. Complete(offers) /\ Offered' # {}
        BY <1>1, <1>2, <3>2, <2>1 DEF RoundMatchesPlayers, PostClear
      <4> QED
        BY <1>2, <1>3, <1>6, <1>7, <4>1 DEF Offered
    <3> QED
      BY <1>1, <3>1, <3>2
  <2> QED
    BY <2>1, <2>2, <2>3 DEF RoundMatchesPlayers
<1>10. OneItemPerClearedStage'
  <2> SUFFICES ASSUME NEW q \in Present'
               PROVE  loadout'[q] = LET open == \/ state' = "StageClear"
                                                \/ (state' = "Reward" /\ offers'[q].selected = NoItem)
                                    IN  IF open THEN Len(completedStages') - 1 ELSE Len(completedStages')
    BY DEF OneItemPerClearedStage
  <2>1. q \in Present /\ q \in Players \ {p} /\ loadout'[q] = loadout[q] /\ offers'[q] = offers[q]
    BY <1>2, <1>3 DEF Present
  <2>2. CASE state' = state
    BY <1>1, <2>1, <2>2 DEF OneItemPerClearedStage
  <2>3. CASE state = "Reward" /\ state' = "PreparingNextStage"
    <3>1. Complete(offers') /\ q \in Offered'
      BY <1>1, <1>2, <1>9, <2>1, <2>3 DEF RoundMatchesPlayers, PostClear
    <3>2. offers'[q].selected # NoItem
      BY <1>6, <3>1
    <3> QED
      BY <1>1, <2>1, <2>3, <3>2 DEF OneItemPerClearedStage
  <2> QED
    BY <1>5, <2>2, <2>3
<1>11. ClearedHistoryIsContiguous'
  BY <1>1, <1>5 DEF ClearedHistoryIsContiguous, PostClear
<1>12. ResultListsRoster'
  BY <1>1, <1>2 DEF ResultListsRoster, ResultPlayers, Recorded
<1>13. NoChoiceExpires'
  BY <1>1, <1>2, <1>5 DEF NoChoiceExpires
<1> QED
  BY <1>8, <1>9, <1>10, <1>11, <1>12, <1>13

\* A stage starts from Waiting, with no history, or from a completed round.
LEMMA StartStageSafe ==
    ASSUME WorldInv, NEW i \in Nat, StartStage(i)
    PROVE  WorldSafe'
<1> USE DEF WorldInv, WorldSafe
<1>1. /\ state' = "Playing" /\ index' = i /\ Present # {}
      /\ UNCHANGED <<departed, loadout>>
  BY DEF StartStage, CanStartStage
<1>2. CASE state = "Waiting"
  <2>1. /\ runStarted' = TRUE /\ completedStages' = <<>> /\ roster' = Present
        /\ UNCHANGED <<life, roundOpen, offers, grace>>
    BY <1>2 DEF StartStage, roundVars
  <2>2. departed = {} /\ completedStages = <<>> /\ ~roundOpen
    BY <1>2 DEF RunMatchesState, RoundMatchesPlayers, PostClear
  <2>3. Present' = Present /\ Offered' = Offered
    BY <2>1 DEF Present, Offered
  <2>4. RunMatchesState' /\ NoChoiceExpires'
    BY <1>1, <2>1 DEF RunMatchesState, StepPhases, NoChoiceExpires
  <2>5. RoundMatchesPlayers'
    BY <1>1, <2>1, <2>2, <2>3 DEF RoundMatchesPlayers, PostClear
  <2>6. OneItemPerClearedStage'
    BY <1>1, <1>2, <2>1, <2>2, <2>3 DEF OneItemPerClearedStage
  <2>7. ClearedHistoryIsContiguous'
    BY <2>1 DEF ClearedHistoryIsContiguous
  <2>8. ResultListsRoster'
    BY <1>1, <2>1, <2>2, <2>3 DEF ResultListsRoster, ResultPlayers
  <2> QED
    BY <2>4, <2>5, <2>6, <2>7, <2>8
<1>3. CASE state # "Waiting"
  <2>1. state = "PreparingNextStage" /\ i = index + 1 /\ Complete(offers)
    BY <1>3 DEF StartStage, CanStartStage
  <2>2. /\ life' = [p \in Players |-> IF p \in Present THEN "alive" ELSE "absent"]
        /\ roundOpen' = FALSE /\ offers' = [p \in Players |-> NoOffer]
        /\ UNCHANGED <<runStarted, completedStages, roster>>
    BY <1>3 DEF StartStage
  <2>3. Present' = Present /\ Offered' = {}
    BY <2>2 DEF Present, Offered
  <2>4. RunMatchesState' /\ NoChoiceExpires'
    BY <1>1, <2>1, <2>2 DEF RunMatchesState, StepPhases, NoChoiceExpires
  <2>5. RoundMatchesPlayers'
    BY <1>1, <2>2, <2>3 DEF RoundMatchesPlayers, PostClear
  <2>6. OneItemPerClearedStage'
    BY <1>1, <2>1, <2>2, <2>3 DEF OneItemPerClearedStage
  <2>7. ClearedHistoryIsContiguous'
    BY <1>1, <2>1, <2>2 DEF ClearedHistoryIsContiguous, PostClear
  <2>8. ResultListsRoster'
    BY <1>1, <2>2, <2>3 DEF ResultListsRoster, ResultPlayers
  <2> QED
    BY <2>4, <2>5, <2>6, <2>7, <2>8
<1> QED
  BY <1>2, <1>3

\* What a combat tick does to the tables, without its events.
LEMMA StepCombatEffect ==
    ASSUME WorldTypeOK, NEW fallen \in SUBSET Players, NEW rest \in Nat,
           NEW shots \in BOOLEAN, StepCombat(fallen, rest, shots)
    PROVE  /\ state = "Playing"
           /\ UNCHANGED <<index, departed, runStarted, roster, roundOpen, offers, grace, loadout>>
           /\ Present' = Present
           /\ \/ state' \in {"Playing", "Failed"} /\ UNCHANGED completedStages
              \/ /\ state' = "StageClear" /\ completedStages' = Append(completedStages, index)
                 /\ \E p \in Players : life'[p] = "alive"
<1> DEFINE result == CombatResult(Living \ fallen, rest)
<1>1. /\ state = "Playing" /\ fallen \subseteq Living
      /\ life' = [p \in Players |-> IF p \in fallen THEN "dead" ELSE life[p]]
      /\ state' = result
      /\ \/ result \in {"Playing", "Failed"} /\ UNCHANGED completedStages
         \/ result = "StageClear" /\ completedStages' = Append(completedStages, index)
      /\ UNCHANGED <<index, departed, runStarted, roster, roundVars, loadout>>
  BY DEF StepCombat
<1>2. Present' = Present
  BY <1>1 DEF Present, Living
<1>3. result = "StageClear" => \E p \in Players : life'[p] = "alive"
  <2>1. result = "StageClear" => Living \ fallen # {}
    BY DEF CombatResult
  <2> QED
    BY <1>1, <2>1 DEF Living
<1> QED
  BY <1>1, <1>2, <1>3 DEF roundVars

\* A combat tick keeps the invariant: the stage it clears is the next one of
\* the history.
LEMMA StepCombatSafe ==
    ASSUME WorldInv, NEW fallen \in SUBSET Players, NEW rest \in Nat,
           NEW shots \in BOOLEAN, StepCombat(fallen, rest, shots)
    PROVE  WorldSafe'
<1> USE DEF WorldInv, WorldSafe
<1>1. /\ state = "Playing"
      /\ UNCHANGED <<index, departed, runStarted, roster, roundOpen, offers, grace, loadout>>
      /\ Present' = Present
      /\ \/ state' \in {"Playing", "Failed"} /\ UNCHANGED completedStages
         \/ state' = "StageClear" /\ completedStages' = Append(completedStages, index)
  BY StepCombatEffect
<1>2. completedStages \in Seq(Nat) /\ index \in Nat /\ ~roundOpen /\ Offered' = Offered
  BY <1>1 DEF WorldTypeOK, RoundMatchesPlayers, PostClear, Offered
<1>3. /\ Len(Append(completedStages, index)) = Len(completedStages) + 1
      /\ \A k \in 1..Len(completedStages) : Append(completedStages, index)[k] = completedStages[k]
      /\ Append(completedStages, index)[Len(completedStages) + 1] = index
      /\ Append(completedStages, index) # <<>>
  BY <1>2
<1>4. RunMatchesState'
  BY <1>1, <1>3 DEF RunMatchesState, StepPhases
<1>5. RoundMatchesPlayers' /\ NoChoiceExpires'
  BY <1>1, <1>2 DEF RoundMatchesPlayers, PostClear, NoChoiceExpires
<1>6. ResultListsRoster'
  BY <1>1 DEF ResultListsRoster, ResultPlayers
<1>7. OneItemPerClearedStage'
  BY <1>1, <1>2, <1>3 DEF OneItemPerClearedStage
<1>8. ClearedHistoryIsContiguous'
  <2>1. CASE state' # "StageClear"
    BY <1>1, <2>1 DEF ClearedHistoryIsContiguous, PostClear
  <2>2. CASE state' = "StageClear"
    <3>1. completedStages' = Append(completedStages, index)
      BY <1>1, <2>2
    <3>2. completedStages # <<>> => index = completedStages[Len(completedStages)] + 1
      BY <1>1 DEF ClearedHistoryIsContiguous, PostClear
    <3>3. ASSUME NEW k \in 1..Len(completedStages)
          PROVE  completedStages'[k + 1] = completedStages'[k] + 1
      <4>1. CASE k = Len(completedStages)
        BY <1>2, <1>3, <3>1, <3>2, <4>1
      <4>2. CASE k < Len(completedStages)
        BY <1>2, <1>3, <3>1, <4>2 DEF ClearedHistoryIsContiguous
      <4> QED
        BY <1>2, <4>1, <4>2
    <3>4. index' = completedStages'[Len(completedStages')]
      BY <1>1, <1>3, <3>1
    <3> QED
      BY <1>2, <1>3, <2>2, <3>1, <3>3, <3>4 DEF ClearedHistoryIsContiguous
  <2> QED
    BY <2>1, <2>2
<1> QED
  BY <1>4, <1>5, <1>6, <1>7, <1>8

\* Opening the round makes an open offer for exactly the players present.
LEMMA StartRewardSafe ==
    ASSUME WorldInv, StartReward
    PROVE  WorldSafe'
<1> USE DEF WorldInv, WorldSafe
<1>1. /\ state = "StageClear" /\ state' = "Reward" /\ roundOpen' = TRUE
      /\ grace' = RewardTicks /\ Present # {}
      /\ UNCHANGED <<index, completedStages, departed, runStarted, roster, life, loadout>>
  BY DEF StartReward, CanStartReward, runVars, playerVars
<1>2. PICK menu \in [Present -> Menu] :
         offers' = [p \in Players |-> IF p \in Present THEN menu[p] ELSE NoOffer]
  BY DEF StartReward
<1>3. \A p \in Present : p \in Players /\ offers'[p] \in Offer /\ offers'[p].selected = NoItem
  BY <1>2 DEF Menu, Present
<1>4. Present' = Present
  BY <1>1 DEF Present
<1>5. Offered' = Present
  BY <1>2, <1>3, WorldAssumption DEF Offered, Offer, Present
<1>6. ~Complete(offers')
  BY <1>1, <1>3, <1>5 DEF Complete, Offered
<1>7. RunMatchesState' /\ NoChoiceExpires'
  BY <1>1, WorldAssumption DEF RunMatchesState, StepPhases, NoChoiceExpires
<1>8. RoundMatchesPlayers'
  BY <1>1, <1>4, <1>5, <1>6 DEF RoundMatchesPlayers, PostClear
<1>9. OneItemPerClearedStage'
  BY <1>1, <1>3, <1>4 DEF OneItemPerClearedStage
<1>10. ClearedHistoryIsContiguous'
  BY <1>1 DEF ClearedHistoryIsContiguous, PostClear
<1>11. ResultListsRoster'
  BY <1>1, <1>4 DEF ResultListsRoster, ResultPlayers
<1> QED
  BY <1>7, <1>8, <1>9, <1>10, <1>11

\* What applied selections do to the offers and the loadouts.
LEMMA ApplySelectionsEffect ==
    ASSUME WorldTypeOK, NEW who \in SUBSET Offered, NEW picked \in [who -> Items],
           ApplySelections(picked)
    PROVE  /\ Offered' = Offered
           /\ \A p \in who : /\ offers'[p].selected = picked[p]
                             /\ loadout'[p] = loadout[p] + 1
           /\ \A p \in Players \ who : offers'[p] = offers[p] /\ loadout'[p] = loadout[p]
           /\ state' = IF Complete(offers') THEN "PreparingNextStage" ELSE state
           /\ UNCHANGED <<index, completedStages, departed, runStarted, roster, life, roundOpen>>
<1>1. DOMAIN picked = who /\ who \subseteq Players
  BY DEF Offered
<1> DEFINE chosen == [p \in Players |-> IF p \in who
                                        THEN [offers[p] EXCEPT !.selected = picked[p]]
                                        ELSE offers[p]]
<1>2. /\ offers' = chosen
      /\ loadout' = [p \in Players |-> IF p \in who THEN loadout[p] + 1 ELSE loadout[p]]
      /\ state' = IF Complete(chosen) THEN "PreparingNextStage" ELSE state
      /\ UNCHANGED <<index, completedStages, runVars, life, roundOpen>>
  BY <1>1 DEF ApplySelections
<1>3. \A p \in who : offers[p] \in Offer
  BY DEF WorldTypeOK, Offered
<1>4. \A p \in who : /\ [offers[p] EXCEPT !.selected = picked[p]] \in Offer
                     /\ [offers[p] EXCEPT !.selected = picked[p]].selected = picked[p]
  BY <1>3 DEF Offer
<1>5. /\ \A p \in who : offers'[p] \in Offer /\ offers'[p].selected = picked[p]
      /\ \A p \in Players \ who : offers'[p] = offers[p]
  BY <1>1, <1>2, <1>4
<1>6. NoOffer \notin Offer
  BY WorldAssumption DEF Offer
<1>7. Offered' = Offered
  BY <1>1, <1>5, <1>6 DEF Offered
<1> QED
  BY <1>1, <1>2, <1>5, <1>7 DEF runVars

\* Selections for players that had none keep the invariant, provided the round
\* is in time or complete afterwards.
LEMMA SelectionsSafe ==
    ASSUME WorldInv, state = "Reward", roundOpen,
           NEW who \in SUBSET Undecided, NEW picked \in [who -> Items],
           ApplySelections(picked), grace' >= 0 \/ who = Undecided
    PROVE  WorldSafe'
<1> USE DEF WorldInv, WorldSafe
<1>1. who \in SUBSET Offered /\ Offered = Present
  BY DEF Undecided, RoundMatchesPlayers
<1>2. /\ Offered' = Offered
      /\ \A p \in who : /\ offers'[p].selected = picked[p]
                        /\ loadout'[p] = loadout[p] + 1
      /\ \A p \in Players \ who : offers'[p] = offers[p] /\ loadout'[p] = loadout[p]
      /\ state' = IF Complete(offers') THEN "PreparingNextStage" ELSE state
      /\ UNCHANGED <<index, completedStages, departed, runStarted, roster, life, roundOpen>>
  BY <1>1, ApplySelectionsEffect
<1>3. Present' = Present
  BY <1>2 DEF Present
<1>4. \A p \in who : offers[p].selected = NoItem /\ offers'[p].selected # NoItem
  BY <1>2, WorldAssumption DEF Undecided
<1>5. Complete(offers') <=> Offered' # {} /\ \A q \in Offered' : offers'[q].selected # NoItem
  BY DEF Complete, Offered
<1>6. RunMatchesState'
  BY <1>2, <1>3 DEF RunMatchesState, StepPhases
<1>7. RoundMatchesPlayers'
  BY <1>1, <1>2, <1>3 DEF RoundMatchesPlayers, PostClear
<1>8. OneItemPerClearedStage'
  <2> SUFFICES ASSUME NEW q \in Present'
               PROVE  loadout'[q] = LET open == \/ state' = "StageClear"
                                                \/ (state' = "Reward" /\ offers'[q].selected = NoItem)
                                    IN  IF open THEN Len(completedStages') - 1 ELSE Len(completedStages')
    BY DEF OneItemPerClearedStage
  <2>1. q \in Present /\ q \in Players /\ state' \in {"Reward", "PreparingNextStage"}
    BY <1>2, <1>3 DEF Present
  <2>2. CASE q \in who
    <3>1. loadout[q] = Len(completedStages) - 1
      BY <1>4, <2>1, <2>2 DEF OneItemPerClearedStage
    <3> QED
      BY <1>2, <1>4, <2>1, <2>2, <3>1 DEF WorldTypeOK
  <2>3. CASE q \notin who
    <3>1. offers'[q] = offers[q] /\ loadout'[q] = loadout[q]
      BY <1>2, <2>1, <2>3
    <3>2. state' = "PreparingNextStage" => offers'[q].selected # NoItem
      BY <1>1, <1>2, <1>5, <2>1
    <3> QED
      BY <1>2, <2>1, <3>1, <3>2 DEF OneItemPerClearedStage
  <2> QED
    BY <2>2, <2>3
<1>9. ClearedHistoryIsContiguous'
  BY <1>2 DEF ClearedHistoryIsContiguous, PostClear
<1>10. ResultListsRoster'
  BY <1>2, <1>3 DEF ResultListsRoster, ResultPlayers
<1>11. NoChoiceExpires'
  <2>1. CASE grace' >= 0
    BY <2>1 DEF NoChoiceExpires
  <2>2. CASE who = Undecided /\ Present # {}
    <3>1. \A q \in Offered' : offers'[q].selected # NoItem
      BY <1>2, <1>4, <2>2 DEF Undecided, Offered
    <3> QED
      BY <1>1, <1>2, <1>5, <2>2, <3>1 DEF NoChoiceExpires
  <2> QED
    BY <1>3, <2>1, <2>2 DEF NoChoiceExpires
<1> QED
  BY <1>6, <1>7, <1>8, <1>9, <1>10, <1>11

\* A choice in time keeps the invariant.
LEMMA ChooseRewardSafe ==
    ASSUME WorldInv, NEW p \in Players, NEW item \in Items, ChooseReward(p, item)
    PROVE  WorldSafe'
<1>1. /\ state = "Reward" /\ roundOpen /\ {p} \in SUBSET Undecided
      /\ grace >= 0 /\ grace' = grace
      /\ ApplySelections([q \in {p} |-> item])
  BY DEF ChooseReward, CanChooseReward, Undecided
<1>2. [q \in {p} |-> item] \in [{p} -> Items]
  OBVIOUS
<1> QED
  BY <1>1, <1>2, SelectionsSafe

\* A tick outside the fight keeps the invariant: past the deadline somebody is
\* undecided, so the defaults are due and complete the round.
LEMMA StepRewardSafe ==
    ASSUME WorldInv, StepReward
    PROVE  WorldSafe'
<1> USE DEF WorldInv
<1>1. grace' = TickedGrace
  BY DEF StepReward
<1>2. CASE DefaultsDue
  <2>1. state = "Reward" /\ roundOpen /\ Undecided \in SUBSET Undecided
    BY <1>2 DEF DefaultsDue
  <2>2. [q \in Undecided |-> offers[q].first] \in [Undecided -> Items]
    BY DEF Undecided, Offered, WorldTypeOK, Offer
  <2>3. ApplySelections([q \in Undecided |-> offers[q].first])
    BY <1>2 DEF StepReward
  <2> QED
    BY <2>1, <2>2, <2>3, SelectionsSafe
<1>3. CASE ~DefaultsDue
  <2> USE DEF WorldSafe
  <2>1. UNCHANGED <<state, index, completedStages, departed, runStarted, roster, life,
                    roundOpen, offers, loadout>>
    BY <1>3 DEF StepReward, stageVars, runVars, playerVars
  <2>2. Present' = Present /\ Offered' = Offered /\ Complete(offers)' = Complete(offers)
    BY <2>1 DEF Present, Offered, Complete
  <2>3. NoChoiceExpires'
    <3> SUFFICES ASSUME state = "Reward", Present # {} PROVE grace' >= 0
      BY <2>1, <2>2 DEF NoChoiceExpires
    <3>1. roundOpen /\ Offered = Present /\ ~Complete(offers)
      BY DEF RoundMatchesPlayers, PostClear
    <3>2. Undecided # {}
      BY <3>1 DEF Complete, Offered, Undecided
    <3> QED
      BY <1>1, <1>3, <3>1, <3>2, WorldAssumption DEF DefaultsDue, TickedGrace, WorldTypeOK
  <2>4. RunMatchesState'
    BY <2>1, <2>2 DEF RunMatchesState
  <2>5. RoundMatchesPlayers'
    BY <2>1, <2>2 DEF RoundMatchesPlayers
  <2>6. OneItemPerClearedStage'
    BY <2>1, <2>2 DEF OneItemPerClearedStage
  <2>7. ClearedHistoryIsContiguous' /\ ResultListsRoster'
    BY <2>1, <2>2 DEF ClearedHistoryIsContiguous, ResultListsRoster, ResultPlayers
  <2> QED
    BY <2>3, <2>4, <2>5, <2>6, <2>7
<1> QED
  BY <1>2, <1>3

\* Every step of the World keeps the invariant.
LEMMA NextSafe == WorldInv /\ [WorldNext]_worldVars => WorldSafe'
<1> SUFFICES ASSUME WorldInv, [WorldNext]_worldVars PROVE WorldSafe'
  OBVIOUS
<1>1. ASSUME NEW p \in Players, AddPlayer(p) \/ RemovePlayer(p) PROVE WorldSafe'
  BY <1>1, AddPlayerSafe, RemovePlayerSafe
<1>2. ASSUME NEW p \in Players, NEW seq \in 1..MaxSeq, ApplyInput(p, seq) PROVE WorldSafe'
  BY <1>2, SafeUnchanged DEF WorldInv, ApplyInput, stageVars, runVars, roundVars
<1>3. ASSUME NEW i \in 1..MaxStage, StartStage(i) PROVE WorldSafe'
  BY <1>3, StartStageSafe
<1>4. CASE StartReward
  BY <1>4, StartRewardSafe
<1>5. ASSUME NEW p \in Players, NEW item \in Items, ChooseReward(p, item) PROVE WorldSafe'
  BY <1>5, ChooseRewardSafe
<1>6. CASE Step
  <2>1. ASSUME NEW fallen \in SUBSET Players, NEW rest \in 0..MaxMonsters, NEW shots \in BOOLEAN,
               StepCombat(fallen, rest, shots)
        PROVE  WorldSafe'
    BY <2>1, StepCombatSafe
  <2> QED
    BY <1>6, <2>1, StepRewardSafe DEF Step
<1>7. CASE TakeEvents \/ TakeRewardUpdates
  BY <1>7, SafeUnchanged DEF WorldInv, TakeEvents, TakeRewardUpdates, stageVars, runVars, playerVars,
                             roundVars
<1>8. CASE Close
  BY <1>8, CloseSafe
<1>9. CASE UNCHANGED worldVars
  BY <1>9, SafeUnchanged DEF WorldInv, worldVars, stageVars, runVars, playerVars, roundVars
<1> QED
  BY <1>1, <1>2, <1>3, <1>4, <1>5, <1>6, <1>7, <1>8, <1>9 DEF WorldNext

\* The invariant holds of every world, whatever sequence of calls its room
\* makes.
THEOREM WorldInvariant == WorldSpec => []WorldInv
<1>1. WorldInit => WorldInv
  BY InitType, InitSafe DEF WorldInv
<1>2. WorldInv /\ [WorldNext]_worldVars => WorldInv'
  BY NextType, NextSafe DEF WorldInv
<1> QED
  BY <1>1, <1>2, PTL DEF WorldSpec

-----------------------------------------------------------------------------
(* What follows from it *)

\* The reward round never wedges the stage machine (RemovePlayer of
\* game/world.go completes the round for those that remain).
THEOREM RewardRoundMatchesPlayers == WorldSpec => []RoundMatchesPlayers
<1>1. WorldInv => RoundMatchesPlayers
  BY DEF WorldInv, WorldSafe
<1> QED
  BY <1>1, WorldInvariant, PTL

\* Every player gets exactly one item per cleared stage (ValidateChoice,
\* DueDefaults and Commit of game/reward/round.go).
THEOREM EveryPlayerGetsOneItem == WorldSpec => []OneItemPerClearedStage
<1>1. WorldInv => OneItemPerClearedStage
  BY DEF WorldInv, WorldSafe
<1> QED
  BY <1>1, WorldInvariant, PTL

\* The history of cleared stages has no gap (StartStage and freezePerformance).
THEOREM ClearedHistoryHasNoGap == WorldSpec => []ClearedHistoryIsContiguous
<1>1. WorldInv => ClearedHistoryIsContiguous
  BY DEF WorldInv, WorldSafe
<1> QED
  BY <1>1, WorldInvariant, PTL

\* Leaving does not take a player out of the run's result (GameResult of
\* game/result.go).
THEOREM ResultIsComplete == WorldSpec => []ResultListsRoster
<1>1. WorldInv => ResultListsRoster
  BY DEF WorldInv, WorldSafe
<1> QED
  BY <1>1, WorldInvariant, PTL

\* No open choice outlives its deadline (stepReward of game/rewards.go).
THEOREM ChoicesNeverExpire == WorldSpec => []NoChoiceExpires
<1>1. WorldInv => NoChoiceExpires
  BY DEF WorldInv, WorldSafe
<1> QED
  BY <1>1, WorldInvariant, PTL

\* No step of the World clears a stage without a survivor, and none leaves
\* Failed but by closing.
LEMMA StepKeepsDefeat ==
    ASSUME WorldInv, [WorldNext]_worldVars
    PROVE  /\ (state = "Playing" /\ state' = "StageClear") => \E p \in Players : life'[p] = "alive"
           /\ state = "Failed" => state' \in {"Failed", "Closed"}
<1> DEFINE Goal == /\ (state = "Playing" /\ state' = "StageClear") =>
                         \E p \in Players : life'[p] = "alive"
                   /\ state = "Failed" => state' \in {"Failed", "Closed"}
<1>1. ASSUME NEW p \in Players, AddPlayer(p) \/ RemovePlayer(p) PROVE Goal
  BY <1>1 DEF AddPlayer, stageVars, RemovePlayer, LeavingCompletes
<1>2. ASSUME NEW p \in Players, NEW seq \in 1..MaxSeq, ApplyInput(p, seq) PROVE Goal
  BY <1>2 DEF ApplyInput, stageVars
<1>3. ASSUME NEW i \in 1..MaxStage, StartStage(i) PROVE Goal
  BY <1>3 DEF StartStage, CanStartStage
<1>4. CASE StartReward
  BY <1>4 DEF StartReward, CanStartReward
<1>5. ASSUME NEW p \in Players, NEW item \in Items, ChooseReward(p, item) PROVE Goal
  BY <1>5 DEF ChooseReward, CanChooseReward
<1>6. ASSUME NEW fallen \in SUBSET Players, NEW rest \in 0..MaxMonsters, NEW shots \in BOOLEAN,
             StepCombat(fallen, rest, shots)
      PROVE  Goal
  <2> HIDE DEF Goal
  <2>1. rest \in Nat /\ WorldTypeOK
    BY DEF WorldInv
  <2>2. /\ state = "Playing"
        /\ \/ state' \in {"Playing", "Failed"}
           \/ \E p \in Players : life'[p] = "alive"
    BY <1>6, <2>1, StepCombatEffect, Zenon
  <2>3. state # "Failed" /\ (state' = "StageClear" => \E p \in Players : life'[p] = "alive")
    BY <2>2
  <2> QED
    BY <2>2, <2>3 DEF Goal
<1>7. CASE StepReward
  <2>1. state # "Playing" /\ (state = "Failed" => state' = state)
    BY <1>7 DEF StepReward, DefaultsDue, stageVars
  <2> QED
    BY <2>1
<1>8. CASE TakeEvents \/ TakeRewardUpdates
  BY <1>8 DEF TakeEvents, TakeRewardUpdates, stageVars
<1>9. CASE Close
  BY <1>9 DEF Close
<1>10. CASE UNCHANGED worldVars
  BY <1>10 DEF worldVars, stageVars
<1> QED
  BY <1>1, <1>2, <1>3, <1>4, <1>5, <1>6, <1>7, <1>8, <1>9, <1>10 DEF WorldNext, Step

\* Defeat is decided before clearing (stepCombat of game/combat.go).
THEOREM DefeatDecidesFirst == WorldSpec => DefeatTakesPrecedence
<1> DEFINE A == /\ (state = "Playing" /\ state' = "StageClear") => \E p \in Players : life'[p] = "alive"
                /\ (state = "Failed") => state' \in {"Failed", "Closed"}
<1>1. WorldInv /\ [WorldNext]_worldVars => [A]_worldVars
  BY StepKeepsDefeat
<1>2. WorldSpec => [][A]_worldVars
  BY <1>1, WorldInvariant, PTL DEF WorldSpec
<1> QED
  BY <1>2 DEF DefeatTakesPrecedence

-----------------------------------------------------------------------------
(* The stage machine that the orchestration relies on (Stages) *)

\* What the four variables of Stages see of a step that changes none of them.
LEMMA UnseenStep ==
    ASSUME UNCHANGED <<state, index, life, offers>>
    PROVE  UNCHANGED StageMachine!stagesVars
BY DEF StageMachine!stagesVars, Present, Undecided, Offered

\* The players of an open round owe a choice until they have made it; without
\* a round nobody does.
LEMMA OwedIsPresent ==
    ASSUME WorldInv
    PROVE  /\ Undecided \subseteq Present
           /\ state \notin PostClear => Undecided = {}
           /\ Present # {} /\ state = "PreparingNextStage" => Undecided = {}
BY DEF WorldInv, WorldSafe, RoundMatchesPlayers, Undecided, Complete, Offered

\* In a round that still has a player, to be complete is to owe nothing.
LEMMA CompleteMeansSettled ==
    ASSUME NEW o, NEW P, P # {}, P = {p \in Players : o[p] # NoOffer}
    PROVE  Complete(o) <=> {p \in P : o[p].selected = NoItem} = {}
BY DEF Complete

\* AddPlayer is Enter.
LEMMA AddPlayerEnters ==
    ASSUME WorldInv, NEW p \in Players, AddPlayer(p)
    PROVE  StageMachine!Enter(p)
<1>1. Present' = Present \cup {p}
  BY DEF AddPlayer, CanAddPlayer, Present, WorldInv, WorldTypeOK
<1>2. UNCHANGED <<state, index, offers>>
  BY DEF AddPlayer, stageVars, roundVars
<1>3. Undecided' = Undecided
  BY <1>2 DEF Undecided, Offered
<1> QED
  BY <1>1, <1>2, <1>3 DEF StageMachine!Enter, AddPlayer, CanAddPlayer

\* RemovePlayer is Leave, and frees the next stage when Leave does.
LEMMA RemovePlayerLeaves ==
    ASSUME WorldInv, NEW p \in Players, RemovePlayer(p)
    PROVE  StageMachine!Leave(p)
<1> DEFINE left == [offers EXCEPT ![p] = NoOffer]
<1>1. p \in Present /\ offers' = left /\ index' = index
  BY DEF RemovePlayer
<1>2. Present' = Present \ {p}
  BY DEF RemovePlayer, Present, WorldInv, WorldTypeOK
<1>3. Undecided' = Undecided \ {p}
  BY <1>1 DEF Undecided, Offered, WorldInv, WorldTypeOK
<1>4. state' = StageMachine!After(Present', Undecided')
  <2>1. CASE state = "Reward"
    <3>1. Offered = Present
      BY <2>1 DEF WorldInv, WorldSafe, RoundMatchesPlayers, PostClear
    <3>2. Present \ {p} = {q \in Players : left[q] # NoOffer}
      BY <3>1 DEF Offered, Present, WorldInv, WorldTypeOK
    <3>3. {q \in Present \ {p} : left[q].selected = NoItem} = Undecided'
      BY <1>3, <3>1 DEF Undecided, Present, Offered, WorldInv, WorldTypeOK
    <3>4. Present \ {p} # {} => (Complete(left) <=> Undecided' = {})
      BY <3>2, <3>3, CompleteMeansSettled
    <3>5. LeavingCompletes(p, left) <=> Present \ {p} # {} /\ Complete(left)
      BY <1>1, <2>1, <3>1 DEF LeavingCompletes
    <3>6. state' = IF LeavingCompletes(p, left) THEN "PreparingNextStage" ELSE state
      BY DEF RemovePlayer
    <3> QED
      BY <1>2, <2>1, <3>4, <3>5, <3>6 DEF StageMachine!After
  <2>2. CASE state # "Reward"
    BY <2>2 DEF RemovePlayer, LeavingCompletes, StageMachine!After
  <2> QED
    BY <2>1, <2>2
<1> QED
  BY <1>1, <1>2, <1>3, <1>4 DEF StageMachine!Leave

\* StartStage is Start: the round that is over owed nothing.
LEMMA StartStageStarts ==
    ASSUME WorldInv, NEW i \in 1..MaxStage, StartStage(i)
    PROVE  StageMachine!Start(i)
<1>1. CanStartStage(i) /\ state' = "Playing" /\ index' = i
  BY DEF StartStage
<1>2. Undecided = {}
  BY <1>1, OwedIsPresent DEF CanStartStage, PostClear
<1>3. Present' = Present /\ Undecided' = {}
  <2>1. CASE state = "Waiting"
    BY <1>2, <2>1 DEF StartStage, roundVars, Present, Undecided, Offered
  <2>2. CASE state # "Waiting"
    BY <2>2 DEF StartStage, Present, Undecided, Offered
  <2> QED
    BY <2>1, <2>2
<1> QED
  BY <1>1, <1>2, <1>3 DEF StageMachine!Start, StageMachine!CanStart, CanStartStage

\* A combat tick ends the fight or changes nothing that Stages sees.
LEMMA StepCombatEnds ==
    ASSUME WorldInv, NEW fallen, NEW rest, NEW shots, StepCombat(fallen, rest, shots)
    PROVE  \/ \E result \in {"StageClear", "Failed"} : StageMachine!CombatEnds(result)
           \/ UNCHANGED StageMachine!stagesVars
<1>1. state = "Playing" /\ index' = index /\ offers' = offers /\ fallen \subseteq Living
  BY DEF StepCombat, roundVars
<1>2. state' \in {"StageClear", "Failed", "Playing"}
  BY DEF StepCombat, CombatResult
<1>3. Present' = Present
  BY <1>1 DEF StepCombat, Present, Living
<1>4. Undecided' = Undecided
  BY <1>1 DEF Undecided, Offered
<1> QED
  BY <1>1, <1>2, <1>3, <1>4 DEF StageMachine!CombatEnds, StageMachine!stagesVars

\* StartReward is OpenRound: everybody present owes a choice.
LEMMA StartRewardOpens ==
    ASSUME WorldInv, StartReward
    PROVE  StageMachine!OpenRound
<1>1. PICK menu \in [Present -> Menu] :
         offers' = [p \in Players |-> IF p \in Present THEN menu[p] ELSE NoOffer]
  BY DEF StartReward
<1>2. \A p \in Present : menu[p] # NoOffer /\ menu[p].selected = NoItem
  BY WorldAssumption DEF Menu, Offer
<1>3. Undecided' = Present
  BY <1>1, <1>2 DEF Undecided, Offered, Present
<1>4. Present' = Present /\ state' = "Reward" /\ index' = index
  BY DEF StartReward, playerVars, Present
<1> QED
  BY <1>3, <1>4 DEF StartReward, CanStartReward, StageMachine!OpenRound, StageMachine!CanOpenRound

\* Choices, whoever makes them, settle a debt.
LEMMA SelectionsSettle ==
    ASSUME WorldInv, state = "Reward",
           NEW who \in SUBSET Undecided, who # {}, NEW picked \in [who -> Items],
           ApplySelections(picked)
    PROVE  StageMachine!Settle(who)
<1>1. DOMAIN picked = who /\ who \subseteq Players /\ Undecided \subseteq Present
  BY OwedIsPresent DEF Undecided, Offered
<1>2. /\ offers' = [p \in Players |-> IF p \in who THEN [offers[p] EXCEPT !.selected = picked[p]]
                                      ELSE offers[p]]
      /\ state' = IF Complete(offers') THEN "PreparingNextStage" ELSE state
      /\ index' = index /\ life' = life
  BY <1>1 DEF ApplySelections
<1>3. Offered = Present
  BY DEF WorldInv, WorldSafe, RoundMatchesPlayers, PostClear
<1>4. \A p \in who : /\ offers[p] \in Offer
                     /\ offers'[p] \in Offer
                     /\ offers'[p].selected = picked[p]
  <2>1. \A p \in who : offers[p] \in Offer
    BY DEF Undecided, Offered, WorldInv, WorldTypeOK
  <2>2. \A p \in who : offers'[p] = [offers[p] EXCEPT !.selected = picked[p]]
    BY <1>1, <1>2
  <2> QED
    BY <2>1, <2>2 DEF Offer
<1>5. \A p \in who : offers'[p] # NoOffer /\ offers'[p].selected # NoItem
  BY <1>4, WorldAssumption DEF Offer
<1>6. \A p \in Players \ who : offers'[p] = offers[p]
  BY <1>2
<1>7. Present = {p \in Players : offers'[p] # NoOffer}
  BY <1>1, <1>3, <1>5, <1>6 DEF Offered
<1>8. Undecided' = {p \in Present : offers'[p].selected = NoItem}
  BY <1>7 DEF Undecided, Offered
<1>9. Undecided' = Undecided \ who
  BY <1>1, <1>3, <1>5, <1>6, <1>8 DEF Undecided, Offered
<1>10. Complete(offers') <=> Undecided' = {}
  BY <1>1, <1>7, <1>8, CompleteMeansSettled
<1>11. state' = StageMachine!After(Present, Undecided')
  BY <1>1, <1>2, <1>10 DEF StageMachine!After
<1>12. Present' = Present
  BY <1>2 DEF Present
<1> QED
  BY <1>2, <1>9, <1>11, <1>12 DEF StageMachine!Settle

\* ChooseReward is Settle of one player.
LEMMA ChooseRewardSettles ==
    ASSUME WorldInv, NEW p \in Players, NEW item \in Items, ChooseReward(p, item)
    PROVE  StageMachine!Settle({p})
<1>1. state = "Reward" /\ {p} \in SUBSET Undecided
  BY DEF ChooseReward, CanChooseReward, Undecided
<1>2. [q \in {p} |-> item] \in [{p} -> Items]
  OBVIOUS
<1> QED
  BY <1>1, <1>2, SelectionsSettle DEF ChooseReward

\* A tick outside the fight settles what is due, or nothing.
LEMMA StepRewardSettles ==
    ASSUME WorldInv, StepReward
    PROVE  \/ StageMachine!Settle(Undecided)
           \/ UNCHANGED StageMachine!stagesVars
<1>1. CASE DefaultsDue
  <2>1. [q \in Undecided |-> offers[q].first] \in [Undecided -> Items]
    BY DEF Undecided, Offered, WorldInv, WorldTypeOK, Offer
  <2>2. ApplySelections([q \in Undecided |-> offers[q].first])
    BY <1>1 DEF StepReward
  <2> QED
    BY <1>1, <2>1, <2>2, SelectionsSettle DEF DefaultsDue
<1>2. CASE ~DefaultsDue
  BY <1>2, UnseenStep DEF StepReward, stageVars, playerVars
<1> QED
  BY <1>1, <1>2

\* Close is CloseStages.
LEMMA CloseCloses ==
    ASSUME Close
    PROVE  StageMachine!CloseStages
BY DEF Close, StageMachine!CloseStages, Present, Undecided, Offered

\* Each step of the World is one of the stage machine, or is unseen there.
LEMMA WorldStepMapped ==
    ASSUME WorldInv, [WorldNext]_worldVars
    PROVE  [StageMachine!StagesNext]_(StageMachine!stagesVars)
<1> USE DEF StageMachine!StagesNext
<1>1. ASSUME NEW p \in Players, AddPlayer(p) \/ RemovePlayer(p) PROVE StageMachine!StagesNext
  BY <1>1, AddPlayerEnters, RemovePlayerLeaves
<1>2. ASSUME NEW p \in Players, NEW seq \in 1..MaxSeq, ApplyInput(p, seq)
      PROVE  UNCHANGED StageMachine!stagesVars
  BY <1>2, UnseenStep DEF ApplyInput, stageVars, roundVars
<1>3. ASSUME NEW i \in 1..MaxStage, StartStage(i) PROVE StageMachine!StagesNext
  BY <1>3, StartStageStarts
<1>4. CASE StartReward
  BY <1>4, StartRewardOpens
<1>5. ASSUME NEW p \in Players, NEW item \in Items, ChooseReward(p, item)
      PROVE  StageMachine!StagesNext
  <2>1. StageMachine!Settle({p}) /\ {p} \in SUBSET Players
    BY <1>5, ChooseRewardSettles
  <2> QED
    BY <2>1
<1>6. CASE Step
  <2>1. ASSUME NEW fallen \in SUBSET Players, NEW rest \in 0..MaxMonsters, NEW shots \in BOOLEAN,
               StepCombat(fallen, rest, shots)
        PROVE  StageMachine!StagesNext \/ UNCHANGED StageMachine!stagesVars
    BY <2>1, StepCombatEnds
  <2>2. ASSUME StepReward
        PROVE  StageMachine!StagesNext \/ UNCHANGED StageMachine!stagesVars
    <3>1. Undecided \in SUBSET Players
      BY DEF Undecided, Offered
    <3> QED
      BY <2>2, <3>1, StepRewardSettles
  <2> QED
    BY <1>6, <2>1, <2>2 DEF Step
<1>7. CASE TakeEvents \/ TakeRewardUpdates
  BY <1>7, UnseenStep DEF TakeEvents, TakeRewardUpdates, stageVars, playerVars, roundVars
<1>8. CASE Close
  BY <1>8, CloseCloses
<1>9. CASE UNCHANGED worldVars
  BY <1>9, UnseenStep DEF worldVars, stageVars, playerVars, roundVars
<1> QED
  BY <1>1, <1>2, <1>3, <1>4, <1>5, <1>6, <1>7, <1>8, <1>9 DEF WorldNext

\* Every behaviour of the World is one of the stage machine: what StageFlow
\* takes for granted of a room's stages holds of them.
THEOREM WorldImplementsStages == WorldSpec => StagesImplemented
<1>1. WorldInit => StageMachine!StagesInit
  BY DEF WorldInit, StageMachine!StagesInit, Present, Undecided, Offered
<1>2. WorldInv /\ [WorldNext]_worldVars => [StageMachine!StagesNext]_(StageMachine!stagesVars)
  BY WorldStepMapped
<1> QED
  BY <1>1, <1>2, WorldInvariant, PTL DEF WorldSpec, StagesImplemented, StageMachine!StagesSpec
=============================================================================
