---------------------------- MODULE StageFlowProofs ----------------------------
(***************************************************************************)
(* Proofs about StageFlow, for every number of players, stages and         *)
(* scenarios: a client that keeps to the protocol is never refused and     *)
(* never errs, a stage is decided on once, the sessions follow the room    *)
(* and nobody is rushed into the next stage.                               *)
(*                                                                         *)
(* RoomInvariant and FollowsTheStages, about the room, hold however late a *)
(* goroutine is.  The theorems about the clients have the hypothesis       *)
(* ~Lagging: no goroutine is late by a whole round trip or fight.  The     *)
(* code relies on it without checking it: with Lagging a bot may err and   *)
(* a session be moved on by an observer of the stage before.               *)
(*                                                                         *)
(* FlowInv is the inductive invariant.  It gives a client its place in the *)
(* script of its scenario (Pos), counts what is on its way to it (Told)    *)
(* and from it (Load), and says what the goroutines at work may still add. *)
(***************************************************************************)
EXTENDS StageFlow, FiniteSetTheorems, FunctionTheorems, SequenceTheorems, TLAPS

\* The reward round, or the pause after it: from StartReward to StartStage.
InRound == stage \in {"Reward", "PreparingNextStage"}

FlowStates == {"Playing", "StageClear", "Failed", "Reward", "PreparingNextStage"}
StageNews  == [kind : {"started", "cleared", "defeated"}, index : AllStages]
Message    == StageNews \cup [kind : {"options"}, index : AllStages] \cup [kind : {"disconnect"}]
                  \cup [kind : {"applied"}, reason : {"ok", "refused"},
                        item : {"first", "chosen", "unoffered"}]
Requests   == {"choose", "chooseUnoffered", "ready"}
Choice     == [player : Players, item : {"chosen", "unoffered"}]
Refusal    == [player : Players, item : {"chosen", "unoffered"}, waits : BOOLEAN]
Advancer   == [pc : {"decide", "submit", "snapshot", "leave", "clear"}, plan : Nat,
               leave : SUBSET Players]

FlowTypeOK ==
    /\ stage \in FlowStates /\ number \in AllStages
    /\ members \in SUBSET Players /\ owed \in SUBSET Players
    /\ sess \in [Players -> {"in_room", "reward", "disconnected"}]
    /\ conn \in [Players -> {"open", "closing", "gone"}]
    /\ handler \in [Players -> {"idle", "try"}]
    /\ leaving \in SUBSET Players
    /\ rewardStage \in 0..MaxStage
    /\ rewarded \in SUBSET Players /\ delivered \in SUBSET Players /\ ready \in SUBSET Players
    /\ advancing \in BOOLEAN /\ completed \in BOOLEAN
    /\ events \in Seq(StageNews) /\ updates \in Seq(Update) /\ choices \in Seq(Choice)
    /\ notice \in Notice \cup {Nothing}
    /\ begins \in [AllStages -> {"none", "start", "reward", "snapshot", "enter", "done"}]
    /\ entering \in [AllStages -> SUBSET Players]
    /\ advances \in Seq(Advancer)
    /\ rejecting \in SUBSET Refusal
    /\ decisions \in Seq(Nat)
    /\ scenario \in [Players -> Scenarios]
    /\ inbox \in [Players -> Seq(Message)] /\ outbox \in [Players -> Seq(Requests)]
    /\ phase \in [Players -> {"match", "combat", "reward", "ready"} \cup Over]
    /\ cleared \in [Players -> Nat] /\ offered \in [Players -> BOOLEAN]
    /\ responses \in [Players -> Nat]

-----------------------------------------------------------------------------
(* The room and the goroutines, without the clients *)

\* The messages a stage sends to everybody: it has started, and how it ended.
News(k) ==
    IF k = 1 THEN StageMessage("started", number)
    ELSE StageMessage(IF stage = "Failed" THEN "defeated" ELSE "cleared", number)

Published == IF stage = "Playing" THEN 1 ELSE 2
Heard     == Published - Len(events)

\* The channel holds what the observer has not taken yet, in order.
EventsFit ==
    /\ Len(events) <= Published
    /\ \A k \in 1..Len(events) : events[k] = News(Heard + k)
    /\ InRound => events = <<>> /\ number < MaxStage

\* Who owes a choice is in the room; a round with players ends with the last choice.
OwedFits ==
    /\ owed \subseteq members
    /\ stage # "Reward" => owed = {}
    /\ stage = "Reward" /\ members # {} => owed # {}

\* A connected player is in the room, and a player that has gone leaves it.
MembersFit ==
    \A p \in Players : /\ conn[p] = "open" => p \in members
                       /\ p \in leaving => conn[p] = "gone"
                       /\ conn[p] = "gone" => p \notin members \/ p \in leaving

\* A beginRewardStage goroutine that has not opened its round belongs to the stage
\* that was won, and the last stage has no round.
BeginsFit ==
    \A n \in AllStages :
        /\ begins[n] \in {"start", "reward"} => n = number /\ stage = "StageClear" /\ events = <<>>
        /\ begins[n] = "reward" => n < MaxStage

\* There is one advanceStage goroutine at most, and its plan is the next one.
AdvancesFit ==
    /\ Len(advances) <= 1
    /\ advancing <=> advances # <<>>
    /\ \A k \in 1..Len(advances) : advances[k].pc = "submit" => advances[k].plan = number + 1

\* None of this needs a goroutine to be in time.
RoomFits == EventsFit /\ OwedFits /\ MembersFit /\ BeginsFit /\ AdvancesFit

\* This does: the sessions are moved to Reward during the round they are moved for.
BeginsInTime ==
    \A n \in AllStages : begins[n] \in {"snapshot", "enter"} => n = number /\ InRound

\* The team advances when every connected player is ready, and its goroutine is
\* over before the next fight is.
AdvancesInTime ==
    \A k \in 1..Len(advances) :
        /\ advances[k].pc \in {"decide", "submit"} => InRound /\ Connected \subseteq ready
        /\ advances[k].pc \in {"snapshot", "leave", "clear"} => stage = "Playing"

-----------------------------------------------------------------------------
(* What a connected client has seen, and what is on its way to it *)

\* How many of this stage's messages the client has taken in.
Pos(p) ==
    IF phase[p] = "combat" THEN 1
    ELSE IF phase[p] = "defeated" THEN 2
    ELSE IF cleared[p] < number THEN 0
    ELSE IF offered[p] THEN 3 + responses[p] ELSE 2

\* The same, with those on their way.
Told(p) == Pos(p) + Len(inbox[p])

\* The messages of a stage to a client, in order: the two everybody gets, the
\* options, and the answers its scenario waits for.
Due(p) == Len(Answers[scenario[p]])
Script(p, k) ==
    IF k <= 2 THEN News(k)
    ELSE IF k = 3 THEN StageMessage("options", number)
    ELSE Answers[scenario[p]][k - 3]

\* The place of the answer to the choice that is accepted.
AppliedAt(p) == IF scenario[p] = "invalid" THEN 5 ELSE 4

\* The client's own variables agree with its place in the script.
PhaseFits(p) ==
    /\ Pos(p) = 0 => phase[p] = (IF number = 1 THEN "match" ELSE "ready")
    /\ Pos(p) \in {0, 1} => cleared[p] = number - 1
    /\ Pos(p) \in {1, 2} => ~offered[p] /\ responses[p] = 0
    /\ Pos(p) = 2 => IF stage = "Failed" THEN phase[p] = "defeated"
                     ELSE cleared[p] = number
                          /\ phase[p] = (IF number = MaxStage THEN "complete" ELSE "reward")
    /\ Pos(p) >= 3 => /\ cleared[p] = number
                      /\ responses[p] <= Due(p)
                      /\ phase[p] = (IF responses[p] = Due(p) THEN "ready" ELSE "reward")

InboxFits(p) == \A k \in 1..Len(inbox[p]) : inbox[p][k] = Script(p, Pos(p) + k)

ToldFits(p) ==
    /\ ~InRound => Told(p) = Heard
    /\ InRound => /\ Told(p) >= 2 /\ Told(p) <= 3 + Due(p)
                  /\ Told(p) >= 4 /\ scenario[p] # "timeout" => Pos(p) >= 3

OwesFits(p) ==
    InRound => /\ p \in owed => Told(p) < AppliedAt(p)
               /\ p \notin owed /\ scenario[p] # "timeout" => Pos(p) >= AppliedAt(p) - 1

\* What a client asks for at its place in the script.
Request(p) == IF scenario[p] = "invalid" /\ Pos(p) = 3 THEN "chooseUnoffered" ELSE "choose"

\* Its choices that are not answered yet: sent, queued, or refused and not told.
Places(p)   == {k \in DOMAIN choices : choices[k].player = p}
Rejected(p) == \E r \in rejecting : r.player = p
Unread(p)   == IF outbox[p] = <<"ready">> THEN 0 ELSE Len(outbox[p])
Load(p)     == Unread(p) + Cardinality(Places(p)) + (IF Rejected(p) THEN 1 ELSE 0)

\* As many as may be on their way without an answer going wrong.
Allowance(p) ==
    IF ~InRound \/ Pos(p) < 3 \/ scenario[p] = "timeout" THEN 0
    ELSE IF scenario[p] = "normal" THEN (IF p \in owed THEN 1 ELSE 0)
    ELSE IF scenario[p] = "invalid" THEN (IF p \in owed /\ Told(p) = Pos(p) THEN 1 ELSE 0)
    ELSE IF p \in owed THEN 2 ELSE IF Told(p) = 5 THEN 0 ELSE 1

LoadFits(p) ==
    /\ Load(p) <= Allowance(p)
    /\ \/ \A k \in 1..Len(outbox[p]) : outbox[p][k] = Request(p)
       \/ outbox[p] = <<"ready">> /\ InRound /\ Pos(p) = 3 + Due(p)
    /\ \A k \in Places(p) : choices[k].item = ItemOf[Request(p)]
    /\ \A r \in rejecting : r.player = p =>
           \/ scenario[p] = "invalid" /\ Pos(p) = 3 /\ r.item = "unoffered" /\ ~r.waits
           \/ scenario[p] = "duplicate" /\ r.item = "chosen" /\ r.waits

\* The update in hand, until it is sent, and those behind it.
InHand == IF notice # Nothing /\ ~notice.sent THEN <<notice.update>> ELSE <<>>
Line   == InHand \o updates

IsOpen(p) == conn[p] = "open"

\* An update for a connected player is due.
Timely(u) ==
    IsOpen(u.to) =>
        /\ InRound /\ u.index = number
        /\ u.kind = "options" => Told(u.to) = 2
        /\ u.kind = "applied" => /\ u.to \notin owed /\ Told(u.to) < AppliedAt(u.to)
                                 /\ u.item = IF scenario[u.to] = "timeout" THEN "first" ELSE "chosen"

\* For connected players, no update is in a line twice, and the options come first.
Ordered(line) ==
    /\ \A j, k \in 1..Len(line) :
           IsOpen(line[j].to) /\ line[j].to = line[k].to /\ line[j].kind = line[k].kind => j = k
    /\ \A j, k \in 1..Len(line) :
           j < k /\ IsOpen(line[j].to) /\ IsOpen(line[k].to) /\ line[j].kind = "applied"
               => line[k].kind = "applied"

LineFits == Ordered(Line) /\ \A k \in 1..Len(Line) : Timely(Line[k])

\* A player without its options finds them in the line.
OptionsFit(p) ==
    InRound /\ Told(p) = 2 => \E k \in 1..Len(Line) : Line[k].kind = "options" /\ Line[k].to = p

\* Once a choice was applied, the options of every connected player are out.
RewardedFits(p) ==
    p \in rewarded =>
        /\ InRound => \A k \in 1..Len(Line) : IsOpen(Line[k].to) => Line[k].kind = "applied"
        /\ begins[number] # "reward"

\* The answer was sent, and the observer has not marked it delivered.
Unmarked(p) == notice # Nothing /\ notice.sent /\ notice.update.to = p

\* The refusal of a second choice can rely on the mark.
DeliveredFits(p) ==
    scenario[p] = "duplicate" =>
        /\ p \in delivered => (InRound => Told(p) >= 4) /\ begins[number] # "reward"
        /\ Unmarked(p) => InRound /\ Told(p) = 4 /\ p \notin delivered

ReadyFits(p) ==
    p \in ready => \/ InRound /\ Pos(p) = 3 + Due(p) /\ outbox[p] = <<>>
                   \/ ~InRound /\ advances # <<>>

SessionFits(p) ==
    /\ sess[p] \in {"in_room", "reward"}
    /\ InRound /\ Told(p) >= 3 => sess[p] = "reward"
    /\ ~InRound /\ (\A k \in 1..Len(advances) : advances[k].pc = "clear") => sess[p] = "in_room"
    /\ \A k \in 1..Len(advances) :
           advances[k].pc = "leave" /\ sess[p] = "reward" => p \in advances[k].leave

ClientFits(p) ==
    /\ PhaseFits(p) /\ InboxFits(p) /\ ToldFits(p) /\ OwesFits(p) /\ LoadFits(p)
    /\ OptionsFit(p) /\ RewardedFits(p) /\ DeliveredFits(p) /\ ReadyFits(p) /\ SessionFits(p)

\* What was decided has started, is about to, or nobody is left to play it.
DecisionsFit ==
    /\ IsInjective(decisions)
    /\ \A j \in 1..Len(decisions) :
           \/ decisions[j] <= number
           \/ /\ decisions[j] = number + 1
              /\ \/ \E k \in 1..Len(advances) : advances[k].pc = "submit"
                 \/ Connected = {} /\ advances = <<>>

\* The inductive invariant.
FlowInv ==
    /\ FlowTypeOK /\ RoomFits /\ BeginsInTime /\ AdvancesInTime /\ LineFits /\ DecisionsFit
    /\ \A p \in Players : conn[p] = "open" => ClientFits(p)
    /\ \A p \in Players : phase[p] # "error"

-----------------------------------------------------------------------------
(* Sequences *)

\* The first element of a sequence, and the rest.
LEMMA TailElements ==
    ASSUME NEW S, NEW q \in Seq(S), q # <<>>
    PROVE  /\ Head(q) \in S /\ Head(q) = q[1] /\ Len(q) \in Nat \ {0} /\ Tail(q) \in Seq(S)
           /\ Len(Tail(q)) = Len(q) - 1
           /\ \A k \in 1..Len(Tail(q)) : Tail(q)[k] = q[k + 1]
BY HeadTailProperties, EmptySeq, LenProperties

\* A sequence with one element more.
LEMMA AppendElements ==
    ASSUME NEW S, NEW q \in Seq(S), NEW e \in S
    PROVE  /\ Append(q, e) \in Seq(S) /\ Len(q) \in Nat /\ Len(Append(q, e)) = Len(q) + 1
           /\ \A k \in 1..Len(q) : Append(q, e)[k] = q[k]
           /\ Append(q, e)[Len(q) + 1] = e
BY AppendProperties, LenProperties

\* Two sequences, one after the other.
LEMMA ConcatElements ==
    ASSUME NEW S, NEW s \in Seq(S), NEW t \in Seq(S)
    PROVE  /\ s \o t \in Seq(S) /\ Len(s) \in Nat /\ Len(t) \in Nat
           /\ Len(s \o t) = Len(s) + Len(t)
           /\ \A k \in 1..Len(s) : (s \o t)[k] = s[k]
           /\ \A k \in 1..Len(t) : (s \o t)[Len(s) + k] = t[k]
<1>1. Len(s) \in Nat /\ Len(t) \in Nat
  BY LenProperties
<1> QED
  BY <1>1, ConcatProperties

\* Removing from a sequence of one leaves nothing.
LEMMA RemoveOnly ==
    ASSUME NEW S, NEW s \in Seq(S), Len(s) <= 1, NEW k \in 1..Len(s)
    PROVE  k = 1 /\ RemoveAt(s, k) = <<>>
<1>1. \A n \in Nat : \A j \in 1..n : n <= 1 => n = 1 /\ j = 1
  OBVIOUS
<1>2. k = 1 /\ Len(s) = 1
  BY <1>1, LenProperties
<1>3. SubSeq(s, 1, k - 1) = <<>> /\ SubSeq(s, k + 1, Len(s)) = <<>>
  BY <1>2, SubSeqEmpty
<1> QED
  BY <1>2, <1>3, EmptySeq, ConcatEmptySeq DEF RemoveAt

\* A finite set as a sequence: every element is there, once.
LEMMA SetToSeqElements ==
    ASSUME NEW S, IsFiniteSet(S)
    PROVE  /\ SetToSeq(S) \in Seq(S)
           /\ \A j, k \in 1..Len(SetToSeq(S)) : SetToSeq(S)[j] = SetToSeq(S)[k] => j = k
           /\ \A x \in S : \E k \in 1..Len(SetToSeq(S)) : SetToSeq(S)[k] = x
<1> DEFINE n == Cardinality(S)
<1>1. n \in Nat /\ ExistsBijection(1..n, S)
  BY FS_CardinalityType
<1>2. Bijection(1..n, S) # {}
  BY <1>1, Fun_ExistsBij
<1>3. PICK g \in Bijection(1..n, S) : TRUE
  BY <1>2
<1>4. g \in [1..n -> S] /\ IsInjective(g)
  BY <1>3 DEF Bijection, Injection
<1>5. SetToSeq(S) \in [1..n -> S] /\ IsInjective(SetToSeq(S))
  BY <1>4 DEF SetToSeq
<1>6. SetToSeq(S) \in Seq(S) /\ Len(SetToSeq(S)) = n
  BY <1>1, <1>5
<1>7. SetToSeq(S) \in Injection(1..n, S)
  BY <1>5 DEF Injection
<1>8. IsFiniteSet(1..n) /\ Cardinality(1..n) = n
  BY <1>1, FS_Interval
<1>9. SetToSeq(S) \in Surjection(1..n, S)
  BY <1>7, <1>8, FS_Injection
<1>10. \A x \in S : \E k \in 1..n : SetToSeq(S)[k] = x
  BY <1>9 DEF Surjection
<1>11. \A j, k \in 1..n : SetToSeq(S)[j] = SetToSeq(S)[k] => j = k
  BY <1>5 DEF IsInjective
<1> QED
  BY <1>6, <1>10, <1>11

-----------------------------------------------------------------------------
(* Type correctness *)

\* The variables of the clients, and those of the room and the server.
ClientTypes ==
    /\ scenario \in [Players -> Scenarios]
    /\ inbox \in [Players -> Seq(Message)] /\ outbox \in [Players -> Seq(Requests)]
    /\ phase \in [Players -> {"match", "combat", "reward", "ready"} \cup Over]
    /\ cleared \in [Players -> Nat] /\ offered \in [Players -> BOOLEAN]
    /\ responses \in [Players -> Nat]

\* What the server sends are messages.
LEMMA MessageTypes ==
    /\ StageNews \subseteq Message
    /\ \A n \in AllStages : StageMessage("options", n) \in Message
    /\ \A it \in {"first", "chosen", "unoffered"}, why \in {"ok", "refused"} :
           RewardApplied(why, it) \in Message
    /\ [kind |-> "disconnect"] \in Message
    /\ \A n \in AllStages, kind \in {"started", "cleared", "defeated"} :
           StageMessage(kind, n) \in StageNews
BY DEF Message, StageNews, StageMessage, RewardApplied

\* The fields of a reward update, and its wording.
LEMMA UpdateTypes ==
    ASSUME NEW u \in Update
    PROVE  /\ u.to \in Players /\ u.index \in AllStages /\ u.kind \in {"options", "applied"}
           /\ Wording(u) \in Message
           /\ u.kind = "applied" => u.item \in {"first", "chosen"}
BY MessageTypes DEF Update, Wording

\* What the room tells the observer of the rewards.
LEMMA NewUpdateTypes ==
    ASSUME number \in AllStages, NEW p \in Players
    PROVE  /\ Options(p) \in Update
           /\ \A it \in {"first", "chosen"} : Applied(p, it) \in Update
BY DEF Update, Options, Applied

\* The observer has an update in hand, or nothing.
LEMMA NoticeTypes ==
    /\ \A u \in Update, b \in BOOLEAN : [update |-> u, sent |-> b] \in Notice
    /\ \A x \in Notice : x # Nothing /\ x.update \in Update /\ x.sent \in BOOLEAN
BY StageFlowAssumption DEF Notice

\* What a delivery leaves in the queues.
LEMMA DeliverEffect ==
    ASSUME FlowTypeOK, NEW who, NEW m \in Message, Deliver(who, m)
    PROVE  /\ inbox' \in [Players -> Seq(Message)]
           /\ \A p \in Players :
                  inbox'[p] = IF p \in who /\ conn[p] = "open" THEN Append(inbox[p], m)
                              ELSE inbox[p]
<1>1. inbox \in [Players -> Seq(Message)]
  BY DEF FlowTypeOK
<1>2. \A p \in Players : Append(inbox[p], m) \in Seq(Message)
  BY <1>1, AppendElements
<1> QED
  BY <1>1, <1>2 DEF Deliver

\* A set of updates put in line.
LEMMA BatchTypes ==
    ASSUME FlowTypeOK, NEW U, U \subseteq Update, IsFiniteSet(U)
    PROVE  SetToSeq(U) \in Seq(Update) /\ updates \o SetToSeq(U) \in Seq(Update)
<1>1. SetToSeq(U) \in Seq(U)
  BY SetToSeqElements
<1>2. SetToSeq(U) \in Seq(Update)
  BY <1>1, SeqMonotonic
<1> QED
  BY <1>2, ConcatElements DEF FlowTypeOK

\* The updates of a whole round.
LEMMA RoundUpdates ==
    ASSUME FlowTypeOK, NEW W \in SUBSET Players
    PROVE  /\ {Options(p) : p \in W} \subseteq Update /\ IsFiniteSet({Options(p) : p \in W})
           /\ {Applied(p, "first") : p \in W} \subseteq Update
           /\ IsFiniteSet({Applied(p, "first") : p \in W})
<1>1. number \in AllStages
  BY DEF FlowTypeOK
<1>2. IsFiniteSet(W)
  BY FS_Subset, StageFlowAssumption
<1>3. [p \in W |-> Options(p)] \in Surjection(W, {Options(p) : p \in W})
  BY DEF Surjection
<1>4. [p \in W |-> Applied(p, "first")] \in Surjection(W, {Applied(p, "first") : p \in W})
  BY DEF Surjection
<1>5. IsFiniteSet({Options(p) : p \in W}) /\ IsFiniteSet({Applied(p, "first") : p \in W})
  BY <1>2, <1>3, <1>4, FS_Surjection
<1> QED
  BY <1>1, <1>5, NewUpdateTypes

\* A step leaves the client's own variables alone, or is the client's.
LEMMA ObserveTypes ==
    ASSUME FlowTypeOK, NEW p \in Players, Observe(p)
    PROVE  ClientTypes'
<1>1. /\ inbox \in [Players -> Seq(Message)] /\ outbox \in [Players -> Seq(Requests)]
      /\ phase \in [Players -> {"match", "combat", "reward", "ready"} \cup Over]
      /\ scenario \in [Players -> Scenarios]
      /\ cleared \in [Players -> Nat] /\ offered \in [Players -> BOOLEAN]
      /\ responses \in [Players -> Nat]
  BY DEF FlowTypeOK
<1> DEFINE m == Head(inbox[p])
<1>2. /\ inbox[p] # <<>> /\ m \in Message
      /\ inbox' = [inbox EXCEPT ![p] = Tail(@)] /\ scenario' = scenario
  BY <1>1, TailElements DEF Observe
<1>3. inbox' \in [Players -> Seq(Message)] /\ scenario' \in [Players -> Scenarios]
  BY <1>1, <1>2, TailElements
<1>4. \A s \in Seq(Requests) : Send(p, s) => outbox' \in [Players -> Seq(Requests)]
  BY <1>1, ConcatElements DEF Send
<1>5. <<>> \in Seq(Requests) /\ <<"choose">> \in Seq(Requests) /\ <<"ready">> \in Seq(Requests)
      /\ \A s \in Scenarios : FirstChoices[s] \in Seq(Requests)
  BY DEF Requests, FirstChoices, Scenarios
<1>6. \A n \in Nat : m.kind \in {"started", "cleared"} => m.index \in Nat
  BY <1>2 DEF Message, StageNews, AllStages
<1>7. CASE ObserveStageStarted(p, m)
  BY <1>1, <1>3, <1>7 DEF ObserveStageStarted, Enters, ClientTypes, Over
<1>8. CASE ObserveStageCleared(p, m)
  BY <1>1, <1>3, <1>6, <1>8 DEF ObserveStageCleared, Enters, ClientTypes, Over
<1>9. CASE ObserveTeamDefeated(p, m)
  BY <1>1, <1>3, <1>9 DEF ObserveTeamDefeated, Enters, ClientTypes, Over
<1>10. CASE ObserveRewardOptions(p, m)
  BY <1>1, <1>3, <1>4, <1>5, <1>10 DEF ObserveRewardOptions, Enters, ClientTypes, Over
<1>11. CASE ObserveRewardApplied(p, m)
  <2>1. responses' = [responses EXCEPT ![p] = responses[p] + 1] /\ UNCHANGED <<cleared, offered>>
    BY <1>11 DEF ObserveRewardApplied
  <2>2. \/ UNCHANGED outbox
        \/ Send(p, IF scenario[p] = "invalid" THEN <<"choose">> ELSE <<>>) \/ Send(p, <<"ready">>)
    BY <1>11 DEF ObserveRewardApplied
  <2>3. UNCHANGED phase \/ Enters(p, "error") \/ Enters(p, "ready")
    BY <1>11 DEF ObserveRewardApplied
  <2>4. outbox' \in [Players -> Seq(Requests)]
    BY <1>1, <1>4, <1>5, <2>2
  <2>5. phase' \in [Players -> {"match", "combat", "reward", "ready"} \cup Over]
    BY <1>1, <2>3 DEF Enters, Over
  <2>6. responses' \in [Players -> Nat] /\ cleared' = cleared /\ offered' = offered
    BY <1>1, <2>1
  <2> QED
    BY <1>1, <1>3, <2>4, <2>5, <2>6 DEF ClientTypes
<1>12. CASE ObserveDisconnect(p, m)
  BY <1>1, <1>3, <1>12 DEF ObserveDisconnect, Enters, ClientTypes, Over
<1> QED
  BY <1>7, <1>8, <1>9, <1>10, <1>11, <1>12 DEF Observe

\* The room answers.
LEMMA RoomStepTypes ==
    ASSUME FlowTypeOK, EventsFit,
           \/ FightEnds("StageClear", "cleared") \/ FightEnds("Failed", "defeated")
           \/ Deadline \/ ApplyChoice
    PROVE  FlowTypeOK'
<1>1. CASE FightEnds("StageClear", "cleared") \/ FightEnds("Failed", "defeated")
  <2>1. /\ events \in Seq(StageNews) /\ number \in AllStages
        /\ StageMessage("cleared", number) \in StageNews
        /\ StageMessage("defeated", number) \in StageNews
    BY MessageTypes DEF FlowTypeOK
  <2>2. events' \in Seq(StageNews)
    BY <1>1, <2>1, AppendElements DEF FightEnds
  <2>3. stage' \in FlowStates /\ UNCHANGED <<number, members, owed>>
    BY <1>1 DEF FightEnds, CombatEnds, FlowStates
  <2> QED
    BY <1>1, <2>2, <2>3 DEF FightEnds, FlowTypeOK, sessionVars, activeVars, workVars, botVars
<1>2. CASE Deadline
  <2>1. /\ owed' = {} /\ stage' \in FlowStates /\ UNCHANGED <<number, members>>
        /\ updates' = updates \o SetToSeq({Applied(p, "first") : p \in owed})
    BY <1>2 DEF Deadline, Settle, After, FlowStates, FlowTypeOK
  <2>2. owed \in SUBSET Players
    BY DEF FlowTypeOK
  <2>3. updates' \in Seq(Update)
    BY <2>1, <2>2, BatchTypes, RoundUpdates
  <2> QED
    BY <1>2, <2>1, <2>3 DEF Deadline, FlowTypeOK, sessionVars, activeVars, workVars, botVars
<1>3. CASE ApplyChoice
  <2> DEFINE c == Head(choices)
             refused == [player |-> c.player, item |-> c.item,
                         waits |-> ~(stage = "Reward" /\ c.player \in owed)]
  <2>1. c \in Choice /\ choices' \in Seq(Choice)
    BY <1>3, TailElements DEF ApplyChoice, FlowTypeOK
  <2>2. /\ c.player \in Players /\ c.item \in {"chosen", "unoffered"}
        /\ refused \in Refusal
    BY <2>1 DEF Choice, Refusal
  <2>3. CASE Settle({c.player}) /\ UNCHANGED rejecting
             /\ updates' = Append(updates, Applied(c.player, "chosen"))
    <3>1. updates' \in Seq(Update)
      BY <2>2, <2>3, NewUpdateTypes, AppendElements DEF FlowTypeOK
    <3>2. owed' \in SUBSET Players /\ stage' \in FlowStates /\ UNCHANGED <<number, members>>
      BY <2>3 DEF Settle, After, FlowStates, FlowTypeOK
    <3> QED
      BY <1>3, <2>1, <2>3, <3>1, <3>2 DEF ApplyChoice, FlowTypeOK, sessionVars, activeVars, botVars
  <2>4. CASE rejecting' = rejecting \cup {refused} /\ UNCHANGED <<stagesVars, updates>>
    <3>1. rejecting' \in SUBSET Refusal
      BY <2>2, <2>4 DEF FlowTypeOK
    <3> QED
      BY <1>3, <2>1, <2>4, <3>1
         DEF ApplyChoice, FlowTypeOK, sessionVars, activeVars, stagesVars, botVars
  <2> QED
    BY <1>3, <2>3, <2>4 DEF ApplyChoice
<1> QED
  BY <1>1, <1>2, <1>3

\* observeEvents, observeRewards and the answer to a refused choice keep the types.
LEMMA ObserverStepTypes ==
    ASSUME FlowTypeOK, EventsFit, ObserveEvent \/ ObserveRewards \/ Reject
    PROVE  FlowTypeOK'
<1> USE DEF ServerOnly
<1>1. CASE ObserveEvent
  <2>1. Head(events) \in StageNews /\ events' \in Seq(StageNews)
    BY <1>1, TailElements DEF ObserveEvent, FlowTypeOK
  <2>2. inbox' \in [Players -> Seq(Message)]
    BY <1>1, <2>1, MessageTypes, DeliverEffect DEF ObserveEvent
  <2>3. begins' \in [AllStages -> {"none", "start", "reward", "snapshot", "enter", "done"}]
    BY <1>1, <2>1 DEF ObserveEvent, StartsBegin, StageNews, FlowTypeOK
  <2> QED
    BY <1>1, <2>1, <2>2, <2>3 DEF ObserveEvent, FlowTypeOK, sessionVars, activeVars, stagesVars
<1>2. CASE TakeUpdate
  <2>1. /\ Head(updates) \in Update /\ updates' \in Seq(Update)
        /\ rewarded' \in {rewarded, rewarded \cup {Head(updates).to}}
        /\ notice' \in {[update |-> Head(updates), sent |-> FALSE], Nothing}
    BY <1>2, TailElements DEF TakeUpdate, FlowTypeOK
  <2>2. rewarded' \in SUBSET Players /\ notice' \in Notice \cup {Nothing}
    BY <2>1, UpdateTypes, NoticeTypes DEF FlowTypeOK
  <2> QED
    BY <1>2, <2>1, <2>2 DEF TakeUpdate, FlowTypeOK, sessionVars, stagesVars, botVars
<1>3. CASE SendNotice
  <2>1. notice \in Notice /\ notice.update \in Update
    BY <1>3, NoticeTypes DEF SendNotice, FlowTypeOK
  <2>2. inbox' \in [Players -> Seq(Message)]
    BY <1>3, <2>1, UpdateTypes, DeliverEffect DEF SendNotice
  <2>3. notice' \in {Nothing, [notice EXCEPT !.sent = TRUE]}
    BY <1>3 DEF SendNotice
  <2>4. [notice EXCEPT !.sent = TRUE] \in Notice
    BY <2>1 DEF Notice
  <2>5. sess' \in [Players -> {"in_room", "reward", "disconnected"}]
    BY <1>3, <2>1 DEF SendNotice, Transition, FlowTypeOK
  <2> QED
    BY <1>3, <2>2, <2>3, <2>4, <2>5
       DEF SendNotice, FlowTypeOK, activeVars, roomVars, stagesVars
<1>4. CASE MarkDelivered
  <2>1. notice.update.to \in Players
    BY <1>4, NoticeTypes, UpdateTypes DEF MarkDelivered, FlowTypeOK
  <2> QED
    BY <1>4, <2>1 DEF MarkDelivered, FlowTypeOK, sessionVars, roomVars, stagesVars, botVars
<1>5. CASE Reject
  <2>1. PICK r \in rejecting : /\ rejecting' = rejecting \ {r}
                               /\ Deliver({r.player}, RewardApplied("refused", r.item))
    BY <1>5 DEF Reject
  <2>2. r.item \in {"chosen", "unoffered"}
    BY <2>1 DEF FlowTypeOK, Refusal
  <2>3. inbox' \in [Players -> Seq(Message)]
    BY <2>1, <2>2, MessageTypes, DeliverEffect
  <2> QED
    BY <1>5, <2>1, <2>3 DEF Reject, FlowTypeOK, sessionVars, activeVars, roomVars, stagesVars
<1> QED
  BY <1>1, <1>2, <1>3, <1>4, <1>5 DEF ObserveRewards

\* beginRewardStage keeps the types.
LEMMA BeginStepTypes ==
    ASSUME FlowTypeOK, NEW n \in AllStages, Begin(n)
    PROVE  FlowTypeOK'
<1> DEFINE Steps == {"none", "start", "reward", "snapshot", "enter", "done"}
<1>1. \A next \in Steps : BeginGoto(n, next) => begins' \in [AllStages -> Steps]
  BY DEF BeginGoto, FlowTypeOK
<1>2. CASE BeginRewardStage(n)
  <2>1. begins' \in [AllStages -> Steps]
    BY <1>1, <1>2 DEF BeginRewardStage
  <2>2. /\ rewardStage' \in {rewardStage, n} /\ completed' \in {completed, TRUE}
        /\ rewarded' \in {rewarded, {}} /\ delivered' \in {delivered, {}}
        /\ ready' \in {ready, {}} /\ advancing' = advancing
    BY <1>2 DEF BeginRewardStage, activeVars
  <2>3. n \in 0..MaxStage
    BY StageFlowAssumption, MatchBotAssumption DEF AllStages
  <2> QED
    BY <1>2, <2>1, <2>2, <2>3
       DEF BeginRewardStage, FlowTypeOK, sessionVars, roomVars, stagesVars, botVars
<1>3. CASE StartReward(n)
  <2>1. begins' \in [AllStages -> Steps]
    BY <1>1, <1>3 DEF StartReward
  <2>2. CASE OpenRound /\ updates' = updates \o SetToSeq({Options(p) : p \in members})
             /\ UNCHANGED rewardStage
    <3>1. updates' \in Seq(Update)
      BY <2>2, BatchTypes, RoundUpdates DEF FlowTypeOK
    <3> QED
      BY <1>3, <2>1, <2>2, <3>1
         DEF StartReward, OpenRound, FlowTypeOK, FlowStates, sessionVars, botVars
  <2>3. CASE UNCHANGED <<stagesVars, updates>>
             /\ rewardStage' = IF rewardStage = n THEN 0 ELSE rewardStage
    <3>1. rewardStage' \in 0..MaxStage
      BY <2>3, StageFlowAssumption, MatchBotAssumption DEF FlowTypeOK
    <3> QED
      BY <1>3, <2>1, <2>3, <3>1 DEF StartReward, FlowTypeOK, stagesVars, sessionVars, botVars
  <2> QED
    BY <1>3, <2>2, <2>3 DEF StartReward
<1>4. CASE EnterSnapshot(n)
  BY <1>1, <1>4 DEF EnterSnapshot, SessionsIn, Connected, FlowTypeOK, sessionVars, activeVars,
                    roomVars, stagesVars, botVars
<1>5. CASE EnterReward(n)
  <2>1. begins' \in [AllStages -> Steps]
    BY <1>1, <1>5 DEF EnterReward, FlowTypeOK
  <2>2. sess' \in [Players -> {"in_room", "reward", "disconnected"}]
        /\ entering' \in [AllStages -> SUBSET Players]
    BY <1>5 DEF EnterReward, Transition, FlowTypeOK
  <2> QED
    BY <1>5, <2>1, <2>2 DEF EnterReward, FlowTypeOK, activeVars, roomVars, stagesVars, botVars
<1> QED
  BY <1>2, <1>3, <1>4, <1>5 DEF Begin

\* The handlers of a client's messages keep the types.
LEMMA HandlerStepTypes ==
    ASSUME FlowTypeOK, NEW p \in Players, Handle(p)
    PROVE  FlowTypeOK'
<1>1. outbox[p] # <<>> => /\ Head(outbox[p]) \in Requests
                          /\ [outbox EXCEPT ![p] = Tail(@)] \in [Players -> Seq(Requests)]
  BY TailElements DEF FlowTypeOK
<1>2. Refuse(p) => /\ inbox' \in [Players -> Seq(Message)]
                   /\ conn' \in [Players -> {"open", "closing", "gone"}]
  BY MessageTypes, DeliverEffect DEF Refuse, FlowTypeOK
<1>3. CASE HandleRewardChoice(p)
  <2>1. outbox' \in [Players -> Seq(Requests)]
    BY <1>1, <1>3 DEF HandleRewardChoice, Reads
  <2>2. inbox' \in [Players -> Seq(Message)] /\ conn' \in [Players -> {"open", "closing", "gone"}]
    BY <1>2, <1>3 DEF HandleRewardChoice, FlowTypeOK
  <2>3. choices' \in Seq(Choice)
    <3>1. Head(outbox[p]) \in {"choose", "chooseUnoffered"}
      BY <1>3 DEF HandleRewardChoice, ItemOf
    <3>2. [player |-> p, item |-> ItemOf[Head(outbox[p])]] \in Choice
      BY <3>1 DEF ItemOf, Choice
    <3>3. choices' \in {choices, Append(choices, [player |-> p, item |-> ItemOf[Head(outbox[p])]])}
      BY <1>3 DEF HandleRewardChoice
    <3>4. choices \in Seq(Choice)
      BY DEF FlowTypeOK
    <3> QED
      BY <3>2, <3>3, <3>4, AppendElements
  <2> QED
    BY <1>3, <2>1, <2>2, <2>3 DEF HandleRewardChoice, FlowTypeOK, activeVars, stagesVars, workVars
<1>4. CASE HandleNextStageRequest(p)
  <2>1. outbox' \in [Players -> Seq(Requests)]
    BY <1>1, <1>4 DEF HandleNextStageRequest, Reads
  <2>2. inbox' \in [Players -> Seq(Message)] /\ conn' \in [Players -> {"open", "closing", "gone"}]
    BY <1>2, <1>4 DEF HandleNextStageRequest, FlowTypeOK
  <2>3. ready' \in SUBSET Players /\ handler' \in [Players -> {"idle", "try"}]
    BY <1>4 DEF HandleNextStageRequest, FlowTypeOK
  <2> QED
    BY <1>4, <2>1, <2>2, <2>3
       DEF HandleNextStageRequest, FlowTypeOK, roomVars, stagesVars, workVars
<1>5. CASE TryAdvanceStage(p)
  <2>1. [pc |-> "decide", plan |-> 0, leave |-> {}] \in Advancer
    BY DEF Advancer
  <2>2. advances' \in Seq(Advancer) /\ advancing' \in BOOLEAN
    <3>1. /\ advances' \in {advances, Append(advances, [pc |-> "decide", plan |-> 0, leave |-> {}])}
          /\ advancing' \in {advancing, TRUE}
      BY <1>5 DEF TryAdvanceStage
    <3>2. advances \in Seq(Advancer) /\ advancing \in BOOLEAN
      BY DEF FlowTypeOK
    <3>3. Append(advances, [pc |-> "decide", plan |-> 0, leave |-> {}]) \in Seq(Advancer)
      BY <2>1, <3>2, AppendElements
    <3> QED
      BY <3>1, <3>2, <3>3
  <2>3. handler' \in [Players -> {"idle", "try"}]
    BY <1>5 DEF TryAdvanceStage, FlowTypeOK
  <2> QED
    BY <1>5, <2>2, <2>3 DEF TryAdvanceStage, FlowTypeOK, roomVars, stagesVars, botVars
<1> QED
  BY <1>3, <1>4, <1>5 DEF Handle

\* What the steps of the advanceStage goroutine k make of the list.
LEMMA AdvancerEffect ==
    ASSUME FlowTypeOK, AdvancesFit, NEW k \in DOMAIN advances
    PROVE  /\ k = 1 /\ Len(advances) = 1 /\ advances[k] \in Advancer
           /\ RemoveAt(advances, k) = <<>>
           /\ \A a \in Advancer : /\ [advances EXCEPT ![k] = a] \in Seq(Advancer)
                                  /\ Len([advances EXCEPT ![k] = a]) = 1
                                  /\ [advances EXCEPT ![k] = a][1] = a
<1>1. advances \in Seq(Advancer) /\ Len(advances) <= 1
  BY DEF FlowTypeOK, AdvancesFit
<1>2. k \in 1..Len(advances)
  BY <1>1, LenProperties
<1>3. k = 1 /\ RemoveAt(advances, k) = <<>>
  BY <1>1, <1>2, RemoveOnly
<1>4. Len(advances) = 1
  <2>1. \A n \in Nat : \A j \in 1..n : n <= 1 => n = 1
    OBVIOUS
  <2> QED
    BY <1>1, <1>2, <2>1, LenProperties
<1>5. advances[k] \in Advancer
  BY <1>1, <1>2, ElementOfSeq
<1> QED
  BY <1>1, <1>2, <1>3, <1>4, <1>5, ExceptSeq

\* The four updates of a goroutine's record.
LEMMA AdvancerFields ==
    ASSUME NEW a \in Advancer
    PROVE  /\ \A pc \in {"snapshot", "clear"} : [a EXCEPT !.pc = pc] \in Advancer
           /\ \A n \in Nat : [a EXCEPT !.pc = "submit", !.plan = n] \in Advancer
           /\ \A S \in SUBSET Players : [a EXCEPT !.pc = "leave", !.leave = S] \in Advancer
           /\ \A S \in SUBSET Players : [a EXCEPT !.leave = S] \in Advancer
BY DEF Advancer

\* advanceStage keeps the types.
LEMMA AdvanceStepTypes ==
    ASSUME FlowTypeOK, EventsFit, AdvancesFit, Advance
    PROVE  FlowTypeOK'
<1>1. PICK k \in DOMAIN advances :
          Decide(k) \/ StartStage(k) \/ LeaveSnapshot(k) \/ LeaveReward(k) \/ EndAdvance(k)
  BY DEF Advance
<1> DEFINE a == advances[k]
<1>2. /\ a \in Advancer /\ RemoveAt(advances, k) \in Seq(Advancer)
      /\ \A b \in Advancer : [advances EXCEPT ![k] = b] \in Seq(Advancer)
  BY AdvancerEffect, EmptySeq
<1>3. number + 1 \in Nat
  BY DEF FlowTypeOK, AllStages
<1>4. CASE Decide(k)
  <2>1. CASE /\ advances' = [advances EXCEPT ![k].pc = "submit", ![k].plan = number + 1]
             /\ decisions' = Append(decisions, number + 1) /\ UNCHANGED advancing
    <3>1. advances' = [advances EXCEPT ![k] = [a EXCEPT !.pc = "submit", !.plan = number + 1]]
      BY <1>2, <2>1
    <3>2. advances' \in Seq(Advancer)
      BY <1>2, <1>3, <3>1, AdvancerFields
    <3>3. decisions' \in Seq(Nat)
      BY <1>3, <2>1, AppendElements DEF FlowTypeOK
    <3> QED
      BY <1>4, <2>1, <3>2, <3>3 DEF Decide, FlowTypeOK, sessionVars, roomVars, stagesVars, botVars
  <2>2. CASE AdvanceFails(k) /\ UNCHANGED decisions
    BY <1>2, <1>4, <2>2
       DEF AdvanceFails, Decide, FlowTypeOK, sessionVars, roomVars, stagesVars, botVars
  <2> QED
    BY <1>4, <2>1, <2>2 DEF Decide
<1>5. CASE StartStage(k)
  <2>1. CASE /\ Start(a.plan) /\ events' = Append(events, StageMessage("started", a.plan))
             /\ AdvanceGoto(k, "snapshot") /\ UNCHANGED advancing
    <3>1. advances' = [advances EXCEPT ![k] = [a EXCEPT !.pc = "snapshot"]]
      BY <1>2, <2>1 DEF AdvanceGoto
    <3>2. advances' \in Seq(Advancer)
      BY <1>2, <3>1, AdvancerFields
    <3>3. a.plan \in AllStages
      <4>1. stage = "PreparingNextStage" /\ a.plan = number + 1
        BY <2>1 DEF Start, CanStart, FlowTypeOK, FlowStates
      <4>2. number < MaxStage /\ number \in 1..MaxStage /\ MaxStage \in Nat
        BY <4>1, StageFlowAssumption, MatchBotAssumption
           DEF EventsFit, InRound, FlowTypeOK, AllStages
      <4> QED
        BY <4>1, <4>2 DEF AllStages
    <3>4. events' \in Seq(StageNews)
      BY <2>1, <3>3, MessageTypes, AppendElements DEF FlowTypeOK
    <3>5. stage' \in FlowStates /\ number' \in AllStages /\ UNCHANGED <<members, owed>>
      BY <2>1, <3>3 DEF Start, FlowStates
    <3> QED
      BY <1>5, <2>1, <3>2, <3>4, <3>5 DEF StartStage, FlowTypeOK, sessionVars, botVars
  <2>2. CASE AdvanceFails(k) /\ UNCHANGED <<stagesVars, events>>
    BY <1>2, <1>5, <2>2 DEF AdvanceFails, StartStage, FlowTypeOK, sessionVars, stagesVars, botVars
  <2> QED
    BY <1>5, <2>1, <2>2 DEF StartStage
<1>6. CASE LeaveSnapshot(k)
  <2>1. advances' = [advances EXCEPT ![k] = [a EXCEPT !.pc = "leave", !.leave = SessionsIn("reward")]]
    BY <1>2, <1>6 DEF LeaveSnapshot
  <2>2. advances' \in Seq(Advancer)
    BY <1>2, <2>1, AdvancerFields DEF SessionsIn, Connected
  <2> QED
    BY <1>6, <2>2
       DEF LeaveSnapshot, FlowTypeOK, sessionVars, activeVars, roomVars, stagesVars, botVars
<1>7. CASE LeaveReward(k)
  <2>1. CASE AdvanceGoto(k, "clear") /\ UNCHANGED sess
    <3>1. advances' = [advances EXCEPT ![k] = [a EXCEPT !.pc = "clear"]]
      BY <1>2, <2>1 DEF AdvanceGoto
    <3>2. advances' \in Seq(Advancer)
      BY <1>2, <3>1, AdvancerFields
    <3> QED
      BY <1>7, <2>1, <3>2 DEF LeaveReward, FlowTypeOK, activeVars, roomVars, stagesVars, botVars
  <2>2. CASE \E p \in a.leave : /\ LeavesReward(p)
                                /\ advances' = [advances EXCEPT ![k].leave = @ \ {p}]
    <3>1. PICK p \in a.leave : /\ LeavesReward(p)
                               /\ advances' = [advances EXCEPT ![k].leave = @ \ {p}]
      BY <2>2
    <3>2. a.leave \ {p} \in SUBSET Players
      BY <1>2 DEF Advancer
    <3>3. advances' = [advances EXCEPT ![k] = [a EXCEPT !.leave = a.leave \ {p}]]
      BY <1>2, <3>1
    <3>4. advances' \in Seq(Advancer)
      BY <1>2, <3>2, <3>3, AdvancerFields
    <3>5. sess' \in [Players -> {"in_room", "reward", "disconnected"}]
      BY <3>1 DEF LeavesReward, Transition, FlowTypeOK
    <3> QED
      BY <1>7, <3>4, <3>5 DEF LeaveReward, FlowTypeOK, activeVars, roomVars, stagesVars, botVars
  <2> QED
    BY <1>7, <2>1, <2>2 DEF LeaveReward
<1>8. CASE EndAdvance(k)
  BY <1>2, <1>8
     DEF EndAdvance, AfterAdvance, FlowTypeOK, sessionVars, roomVars, stagesVars, botVars
<1> QED
  BY <1>1, <1>4, <1>5, <1>6, <1>7, <1>8

\* The client, and the end of its connection, keep the types.
LEMMA ConnectionStepTypes ==
    ASSUME FlowTypeOK, NEW p \in Players,
           Client(p) \/ Hangup(p) \/ Disconnected(p) \/ LeaveRoom(p)
    PROVE  FlowTypeOK'
<1>1. CASE Client(p)
  <2>1. ClientTypes'
    BY <1>1, ObserveTypes DEF Client
  <2> QED
    BY <1>1, <2>1
       DEF Client, ClientTypes, FlowTypeOK, sessionVars, activeVars, roomVars, stagesVars, workVars
<1>2. CASE Hangup(p)
  <2>1. inbox' \in [Players -> Seq(Message)] /\ conn' \in [Players -> {"open", "closing", "gone"}]
    BY <1>2, EmptySeq DEF Hangup, FlowTypeOK
  <2> QED
    BY <1>2, <2>1 DEF Hangup, FlowTypeOK, activeVars, roomVars, stagesVars, workVars
<1>3. CASE Disconnected(p)
  <2>1. /\ outbox' \in [Players -> Seq(Requests)] /\ leaving' \in SUBSET Players
        /\ conn' \in [Players -> {"open", "closing", "gone"}]
        /\ sess' \in [Players -> {"in_room", "reward", "disconnected"}]
    BY <1>3, EmptySeq DEF Disconnected, FlowTypeOK
  <2> QED
    BY <1>3, <2>1 DEF Disconnected, FlowTypeOK, activeVars, roomVars, stagesVars, workVars
<1>4. CASE LeaveRoom(p)
  <2>1. /\ members' \in SUBSET Players /\ owed' \in SUBSET Players /\ leaving' \in SUBSET Players
        /\ stage' \in FlowStates /\ number' = number
    BY <1>4 DEF LeaveRoom, Leave, After, FlowStates, FlowTypeOK
  <2> QED
    BY <1>4, <2>1 DEF LeaveRoom, FlowTypeOK, activeVars, workVars, botVars
<1> QED
  BY <1>1, <1>2, <1>3, <1>4

\* Every step keeps the types.
LEMMA StepsKeepTypes == FlowTypeOK /\ EventsFit /\ AdvancesFit /\ [Next]_vars => FlowTypeOK'
<1>1. ASSUME FlowTypeOK, UNCHANGED vars PROVE FlowTypeOK'
  BY <1>1 DEF vars, sessionVars, activeVars, roomVars, stagesVars, workVars, botVars, FlowTypeOK
<1> QED
  BY <1>1, RoomStepTypes, ObserverStepTypes, BeginStepTypes, HandlerStepTypes, AdvanceStepTypes,
     ConnectionStepTypes DEF Next

-----------------------------------------------------------------------------
(* The room and its goroutines *)

\* A step that neither ends a fight nor opens a round nor starts a stage.
SameStage == /\ number' = number
             /\ stage' = stage \/ (stage = "Reward" /\ stage' = "PreparingNextStage")

Fights == FightEnds("StageClear", "cleared") \/ FightEnds("Failed", "defeated")
Opens(n) == StartReward(n) /\ OpenRound
Starts(k) == StartStage(k) /\ Start(advances[k].plan)

\* The four ways a step can leave or change the stage.
LEMMA StageSteps ==
    ASSUME FlowTypeOK, [Next]_vars
    PROVE  \/ SameStage \/ Fights \/ (\E n \in AllStages : Opens(n))
           \/ \E k \in DOMAIN advances : Starts(k)
<1>1. UNCHANGED stagesVars => SameStage
  BY DEF stagesVars, SameStage
<1>2. CASE UNCHANGED vars
  BY <1>1, <1>2 DEF vars, roomVars
<1>3. CASE Deadline
  BY <1>3 DEF Deadline, Settle, After, SameStage
<1>4. CASE ApplyChoice
  <2>1. UNCHANGED stagesVars \/ Settle({Head(choices).player})
    BY <1>4 DEF ApplyChoice
  <2>2. ASSUME NEW who, Settle(who) PROVE SameStage
    BY <2>2 DEF Settle, After, SameStage
  <2> QED
    BY <1>1, <2>1, <2>2
<1>5. CASE ObserveEvent \/ ObserveRewards \/ Reject
  BY <1>1, <1>5
     DEF ObserveEvent, ObserveRewards, TakeUpdate, SendNotice, MarkDelivered, Reject, roomVars
<1>6. ASSUME NEW n \in AllStages, Begin(n) PROVE SameStage \/ Opens(n)
  BY <1>1, <1>6
     DEF Begin, BeginRewardStage, StartReward, EnterSnapshot, EnterReward, Opens, roomVars
<1>7. CASE Advance
  <2>1. PICK k \in DOMAIN advances :
            Decide(k) \/ StartStage(k) \/ LeaveSnapshot(k) \/ LeaveReward(k) \/ EndAdvance(k)
    BY <1>7 DEF Advance
  <2>2. CASE StartStage(k)
    BY <1>1, <2>2 DEF StartStage, Starts
  <2>3. CASE Decide(k) \/ LeaveSnapshot(k) \/ LeaveReward(k) \/ EndAdvance(k)
    BY <1>1, <2>3 DEF Decide, LeaveSnapshot, LeaveReward, EndAdvance, roomVars
  <2> QED
    BY <2>1, <2>2, <2>3
<1>8. ASSUME NEW p \in Players, Handle(p) \/ Client(p) \/ Hangup(p) \/ Disconnected(p)
      PROVE  SameStage
  BY <1>1, <1>8
     DEF Handle, HandleRewardChoice, HandleNextStageRequest, TryAdvanceStage, Client, Hangup,
         Disconnected, roomVars
<1>9. ASSUME NEW p \in Players, LeaveRoom(p) PROVE SameStage
  BY <1>9 DEF LeaveRoom, Leave, After, SameStage
<1> QED
  BY <1>2, <1>3, <1>4, <1>5, <1>6, <1>7, <1>8, <1>9 DEF Next, Fights

\* The three other steps, as far as the room and its channels are concerned.
LEMMA FightsEffect ==
    ASSUME FlowTypeOK, Fights
    PROVE  /\ stage = "Playing" /\ stage' \in {"StageClear", "Failed"}
           /\ UNCHANGED <<number, members, owed>>
           /\ events' = Append(events, StageMessage(IF stage' = "Failed" THEN "defeated"
                                                    ELSE "cleared", number))
BY DEF Fights, FightEnds, CombatEnds

\* A reward round opens after the fight that was won, for all members.
LEMMA OpensEffect ==
    ASSUME FlowTypeOK, EventsFit, BeginsFit, NEW n \in AllStages, Opens(n)
    PROVE  /\ n = number /\ n < MaxStage /\ begins[n] = "reward" /\ stage = "StageClear"
           /\ stage' = "Reward" /\ events = <<>> /\ UNCHANGED <<number, members, events>>
           /\ owed' = members /\ members # {} /\ begins' = [begins EXCEPT ![n] = "snapshot"]
BY DEF Opens, StartReward, OpenRound, CanOpenRound, BeginsFit, BeginGoto

\* The next stage starts after the round.
LEMMA StartsEffect ==
    ASSUME FlowTypeOK, EventsFit, AdvancesFit, NEW k \in DOMAIN advances, Starts(k)
    PROVE  /\ stage = "PreparingNextStage" /\ stage' = "Playing" /\ number' = number + 1
           /\ UNCHANGED <<members, owed>> /\ events = <<>> /\ choices = <<>>
           /\ events' = Append(events, StageMessage("started", number + 1))
           /\ k = 1 /\ Len(advances) = 1 /\ advances[1].pc = "submit"
           /\ advances' = [advances EXCEPT ![1].pc = "snapshot"]
<1>1. k = 1 /\ Len(advances) = 1
  BY AdvancerEffect
<1>2. stage = "PreparingNextStage" /\ stage' = "Playing"
  BY DEF Starts, Start, CanStart, FlowTypeOK, FlowStates
<1>3. advances[1].pc = "submit" /\ choices = <<>>
  BY <1>1 DEF Starts, StartStage, QueueReached
<1>4. advances[1].plan = number + 1
  BY <1>1, <1>3 DEF AdvancesFit
<1>5. /\ number' = number + 1 /\ UNCHANGED <<members, owed>>
  BY <1>1, <1>4 DEF Starts, Start
<1>6. /\ events' = Append(events, StageMessage("started", number + 1))
      /\ advances' = [advances EXCEPT ![1].pc = "snapshot"]
  BY <1>1, <1>4 DEF Starts, StartStage, Start, AdvanceGoto
<1>7. events = <<>>
  BY <1>2 DEF EventsFit, InRound
<1> QED
  BY <1>1, <1>2, <1>3, <1>4, <1>5, <1>6, <1>7

\* When every goroutine is in time, it starts for a team that is ready.
LEMMA StartsByAll ==
    ASSUME FlowTypeOK, AdvancesFit, AdvancesInTime, NEW k \in DOMAIN advances, Starts(k)
    PROVE  Connected \subseteq ready
<1>1. k \in 1..Len(advances)
  BY AdvancerEffect
<1>2. advances[k].pc = "submit"
  BY DEF Starts, StartStage
<1> QED
  BY <1>1, <1>2 DEF AdvancesInTime

\* The messages of a stage stay what they are until the next stage.
LEMMA SameNews ==
    ASSUME FlowTypeOK, SameStage
    PROVE  /\ \A k : News(k)' = News(k)
           /\ Published' = Published /\ InRound' = InRound
BY DEF SameStage, News, Published, InRound, StageMessage

\* A step that neither publishes nor takes an event.
LEMMA EventsKept ==
    ASSUME FlowTypeOK, EventsFit, SameStage, UNCHANGED events
    PROVE  EventsFit'
<1>1. /\ \A k : News(k)' = News(k)
      /\ Published' = Published /\ InRound' = InRound
  BY SameNews
<1>2. Heard' = Heard /\ number' = number
  BY <1>1 DEF Heard, SameStage
<1> QED
  BY <1>1, <1>2 DEF EventsFit

\* What the observer takes is the next of the stage's messages.
LEMMA EventsTaken ==
    ASSUME FlowTypeOK, EventsFit, ObserveEvent
    PROVE  /\ EventsFit' /\ ~InRound /\ Heard \in {0, 1} /\ Heard' = Heard + 1
           /\ Head(events) = News(Heard + 1) /\ SameStage
           /\ Heard + 1 <= Published
           /\ Len(events') = Published - (Heard + 1)
<1>1. events # <<>> /\ events' = Tail(events) /\ UNCHANGED stagesVars
  BY DEF ObserveEvent
<1>2. events \in Seq(StageNews)
  BY DEF FlowTypeOK
<1>3. SameStage
  BY <1>1 DEF SameStage, stagesVars
<1>4. /\ \A k : News(k)' = News(k)
      /\ Published' = Published /\ InRound' = InRound /\ number' = number
  BY <1>1, <1>3, SameNews DEF stagesVars
<1>5. /\ Head(events) = events[1] /\ Len(events) \in Nat \ {0}
      /\ Len(events') = Len(events) - 1
      /\ \A k \in 1..Len(events') : events'[k] = events[k + 1]
  BY <1>1, <1>2, TailElements
<1>6. Heard' = Heard + 1 /\ Heard \in {0, 1} /\ Published \in {1, 2}
      /\ Heard + 1 <= Published /\ Len(events') = Published - (Heard + 1)
  <2>1. Published \in {1, 2} /\ Len(events) <= Published
    BY DEF Published, EventsFit
  <2> QED
    BY <1>4, <1>5, <2>1 DEF Heard
<1>7. ASSUME NEW k \in 1..Len(events') PROVE events'[k] = News(Heard + k)'
  <2>1. k + 1 \in 1..Len(events) /\ events'[k] = events[k + 1]
    BY <1>5
  <2>2. events[k + 1] = News(Heard + (k + 1))
    BY <2>1 DEF EventsFit
  <2>3. Heard' + k = Heard + (k + 1)
    BY <1>6
  <2>4. News(Heard + k)' = News(Heard + (k + 1))
    BY <1>1, <2>3 DEF News, StageMessage, stagesVars
  <2> QED
    BY <2>1, <2>2, <2>4
<1>8. Head(events) = News(Heard + 1)
  BY <1>5 DEF EventsFit
<1>9. ~InRound
  BY <1>1 DEF EventsFit
<1>10. EventsFit'
  BY <1>4, <1>5, <1>6, <1>7, <1>9 DEF EventsFit
<1> QED
  BY <1>3, <1>6, <1>8, <1>9, <1>10

\* When a fight ends, the channel takes the news of its end.
LEMMA EventsOfFights ==
    ASSUME FlowTypeOK, EventsFit, Fights
    PROVE  EventsFit' /\ ~InRound /\ ~InRound' /\ Heard' = Heard
<1>1. /\ stage = "Playing" /\ stage' \in {"StageClear", "Failed"}
      /\ number' = number
      /\ events' = Append(events, StageMessage(IF stage' = "Failed" THEN "defeated"
                                               ELSE "cleared", number))
  BY FightsEffect
<1>2. events \in Seq(StageNews) /\ Len(events) \in Nat /\ Len(events) <= 1
      /\ number \in AllStages
  BY <1>1, LenProperties DEF FlowTypeOK, EventsFit, Published
<1>3. StageMessage(IF stage' = "Failed" THEN "defeated" ELSE "cleared", number) \in StageNews
  BY <1>2, MessageTypes
<1>4. /\ Len(events') = Len(events) + 1
      /\ \A k \in 1..Len(events) : events'[k] = events[k]
      /\ events'[Len(events) + 1] = News(2)'
  BY <1>1, <1>2, <1>3, AppendElements DEF News
<1>5. ~InRound /\ ~InRound' /\ Published = 1 /\ Published' = 2
  BY <1>1 DEF InRound, Published
<1>6. Heard = 1 - Len(events) /\ Heard' = Heard
  BY <1>2, <1>4, <1>5 DEF Heard
<1>9. \/ Len(events) = 0 /\ Heard = 1 /\ Heard' = 1
      \/ Len(events) = 1 /\ Heard = 0 /\ Heard' = 0
  <2>1. \A n \in Nat : n <= 1 => n = 0 \/ n = 1
    OBVIOUS
  <2>2. Len(events) = 0 \/ Len(events) = 1
    BY <1>2, <2>1
  <2> QED
    BY <1>6, <2>2
<1>7. ASSUME NEW k \in 1..Len(events') PROVE events'[k] = News(Heard + k)'
  <2>1. CASE k = Len(events) + 1
    <3>1. Heard' + k = 2
      <4>1. CASE Len(events) = 0 /\ Heard' = 1
        BY <2>1, <4>1
      <4>2. CASE Len(events) = 1 /\ Heard' = 0
        BY <2>1, <4>2
      <4> QED
        BY <1>9, <4>1, <4>2
    <3> QED
      BY <1>4, <2>1, <3>1 DEF News
  <2>2. CASE k # Len(events) + 1
    <3>1. Len(events) = 1 /\ k = 1 /\ Heard = 0 /\ Heard' + k = 1
      BY <1>4, <1>9, <2>2
    <3>2. events'[1] = events[1] /\ events[1] = News(Heard + 1)
      BY <1>4, <3>1 DEF EventsFit
    <3>3. News(Heard + k)' = StageMessage("started", number)
      BY <1>1, <3>1 DEF News
    <3>4. News(Heard + 1) = StageMessage("started", number)
      BY <3>1 DEF News
    <3> QED
      BY <3>1, <3>2, <3>3, <3>4
  <2> QED
    BY <2>1, <2>2
<1>8. Len(events') <= Published'
  BY <1>2, <1>4, <1>5
<1> QED
  BY <1>1, <1>5, <1>6, <1>7, <1>8 DEF EventsFit

\* When a stage starts, the channel takes the news of its start.
LEMMA EventsOfStarts ==
    ASSUME FlowTypeOK, EventsFit, AdvancesFit, NEW k \in DOMAIN advances, Starts(k)
    PROVE  EventsFit' /\ Heard' = 0
<1>1. /\ stage' = "Playing" /\ number' = number + 1 /\ events = <<>>
      /\ events' = Append(events, StageMessage("started", number + 1))
  BY StartsEffect
<1>2. events' = <<StageMessage("started", number + 1)>>
  BY <1>1
<1>3. Published' = 1 /\ ~InRound'
  BY <1>1 DEF Published, InRound
<1>4. Len(events') = 1 /\ events'[1] = News(1)'
  BY <1>1, <1>2 DEF News
<1>5. Heard' = 0
  BY <1>3, <1>4 DEF Heard
<1> QED
  BY <1>3, <1>4, <1>5 DEF EventsFit

\* What a step does to the channel of stage events.
LEMMA EventSteps ==
    ASSUME FlowTypeOK, [Next]_vars
    PROVE  UNCHANGED events \/ ObserveEvent \/ Fights \/ \E k \in DOMAIN advances : Starts(k)
<1>1. CASE UNCHANGED vars
  BY <1>1 DEF vars, roomVars
<1>2. CASE Deadline \/ ApplyChoice \/ ObserveRewards \/ Reject
  BY <1>2 DEF Deadline, ApplyChoice, ObserveRewards, TakeUpdate, SendNotice, MarkDelivered,
              Reject, roomVars
<1>3. CASE \E n \in AllStages : Begin(n)
  BY <1>3 DEF Begin, BeginRewardStage, StartReward, EnterSnapshot, EnterReward, roomVars
<1>4. CASE Advance
  BY <1>4 DEF Advance, Decide, StartStage, Starts, LeaveSnapshot, LeaveReward, EndAdvance, roomVars
<1>5. CASE \E p \in Players : Handle(p) \/ Client(p) \/ Hangup(p) \/ Disconnected(p) \/ LeaveRoom(p)
  BY <1>5 DEF Handle, HandleRewardChoice, HandleNextStageRequest, TryAdvanceStage, Client, Hangup,
              Disconnected, LeaveRoom, roomVars
<1> QED
  BY <1>1, <1>2, <1>3, <1>4, <1>5 DEF Next, Fights

\* The channel holds what the observer has not taken yet, after every step.
LEMMA StepsKeepEvents ==
    ASSUME FlowTypeOK, EventsFit, BeginsFit, AdvancesFit, [Next]_vars
    PROVE  EventsFit'
<1>1. CASE Fights
  BY <1>1, EventsOfFights
<1>2. CASE \E n \in AllStages : Opens(n)
  <2>1. PICK n \in AllStages : Opens(n)
    BY <1>2
  <2>2. /\ stage = "StageClear" /\ stage' = "Reward" /\ n = number /\ n < MaxStage
        /\ events = <<>> /\ events' = <<>> /\ number' = number
    BY <2>1, OpensEffect
  <2>3. Len(events') = 0 /\ Published' = 2
    BY <2>2 DEF Published
  <2> QED
    BY <2>2, <2>3 DEF EventsFit
<1>3. CASE \E k \in DOMAIN advances : Starts(k)
  BY <1>3, EventsOfStarts
<1>4. CASE ObserveEvent
  BY <1>4, EventsTaken
<1>5. CASE SameStage /\ UNCHANGED events
  BY <1>5, EventsKept
<1> QED
  BY <1>1, <1>2, <1>3, <1>4, <1>5, StageSteps, EventSteps

\* How a step changes the stage machine of the room: by one of its actions.
LEMMA RoomSteps ==
    ASSUME FlowTypeOK, [Next]_vars
    PROVE  \/ UNCHANGED stagesVars
           \/ \E who \in SUBSET Players : Settle(who)
           \/ \E p \in Players : LeaveRoom(p)
           \/ Fights \/ (\E n \in AllStages : Opens(n)) \/ (\E k \in DOMAIN advances : Starts(k))
<1>1. CASE UNCHANGED vars
  BY <1>1 DEF vars, roomVars
<1>2. CASE Deadline
  BY <1>2 DEF Deadline, FlowTypeOK
<1>3. CASE ApplyChoice
  <2>1. UNCHANGED stagesVars \/ Settle({Head(choices).player})
    BY <1>3 DEF ApplyChoice
  <2>2. Head(choices) \in Choice
    BY <1>3, TailElements DEF ApplyChoice, FlowTypeOK
  <2>3. {Head(choices).player} \in SUBSET Players
    BY <2>2 DEF Choice
  <2> QED
    BY <2>1, <2>3
<1>4. CASE ObserveEvent \/ ObserveRewards \/ Reject
  BY <1>4
     DEF ObserveEvent, ObserveRewards, TakeUpdate, SendNotice, MarkDelivered, Reject, roomVars
<1>5. ASSUME NEW n \in AllStages, Begin(n) PROVE UNCHANGED stagesVars \/ Opens(n)
  BY <1>5
     DEF Begin, BeginRewardStage, StartReward, EnterSnapshot, EnterReward, Opens, roomVars
<1>6. CASE Advance
  BY <1>6 DEF Advance, Decide, StartStage, Starts, LeaveSnapshot, LeaveReward, EndAdvance, roomVars
<1>7. ASSUME NEW p \in Players, Handle(p) \/ Client(p) \/ Hangup(p) \/ Disconnected(p)
      PROVE  UNCHANGED stagesVars
  BY <1>7
     DEF Handle, HandleRewardChoice, HandleNextStageRequest, TryAdvanceStage, Client, Hangup,
         Disconnected, roomVars
<1> QED
  BY <1>1, <1>2, <1>3, <1>4, <1>5, <1>6, <1>7 DEF Next, Fights

\* Who owes a choice stays in the room, and the round with the last of them.
LEMMA StepsKeepOwed ==
    ASSUME FlowTypeOK, EventsFit, OwedFits, BeginsFit, AdvancesFit, [Next]_vars
    PROVE  OwedFits'
<1>1. CASE UNCHANGED stagesVars
  BY <1>1 DEF stagesVars, OwedFits
<1>2. CASE \E who \in SUBSET Players : Settle(who)
  BY <1>2 DEF Settle, After, OwedFits
<1>3. CASE \E p \in Players : LeaveRoom(p)
  BY <1>3 DEF LeaveRoom, Leave, After, OwedFits
<1>4. CASE Fights
  BY <1>4, FightsEffect DEF OwedFits
<1>5. CASE \E n \in AllStages : Opens(n)
  BY <1>5, OpensEffect DEF OwedFits
<1>6. CASE \E k \in DOMAIN advances : Starts(k)
  BY <1>6, StartsEffect DEF OwedFits
<1> QED
  BY <1>1, <1>2, <1>3, <1>4, <1>5, <1>6, RoomSteps

\* Who leaves: a connection only ever moves on to its end.
LEMMA ConnectionSteps ==
    ASSUME FlowTypeOK, [Next]_vars
    PROVE  \/ UNCHANGED <<conn, leaving>>
           \/ \E p \in Players : /\ conn' = [conn EXCEPT ![p] = "closing"] /\ UNCHANGED leaving
                                  /\ conn[p] # "gone"
           \/ \E p \in Players : Disconnected(p) \/ LeaveRoom(p)
<1>1. CASE UNCHANGED vars
  BY <1>1 DEF vars, sessionVars
<1>2. CASE Fights \/ Deadline \/ ApplyChoice
  BY <1>2 DEF Fights, FightEnds, Deadline, ApplyChoice, sessionVars
<1>3. CASE ObserveEvent \/ ObserveRewards \/ Reject
  BY <1>3
     DEF ObserveEvent, ObserveRewards, TakeUpdate, SendNotice, MarkDelivered, Reject, sessionVars
<1>4. ASSUME NEW n \in AllStages, Begin(n) PROVE UNCHANGED <<conn, leaving>>
  BY <1>4 DEF Begin, BeginRewardStage, StartReward, EnterSnapshot, EnterReward, sessionVars
<1>5. CASE Advance
  BY <1>5 DEF Advance, Decide, StartStage, LeaveSnapshot, LeaveReward, EndAdvance, sessionVars
<1>6. ASSUME NEW p \in Players, Handle(p) \/ Hangup(p)
      PROVE  /\ UNCHANGED leaving
             /\ conn' = conn \/ (conn[p] # "gone" /\ conn' = [conn EXCEPT ![p] = "closing"])
  BY <1>6
     DEF Handle, HandleRewardChoice, HandleNextStageRequest, TryAdvanceStage, Reads, Refuse, Hangup
<1>7. ASSUME NEW p \in Players, LeaveRoom(p) PROVE UNCHANGED conn
  BY <1>7 DEF LeaveRoom
<1>8. ASSUME NEW p \in Players, Client(p) PROVE UNCHANGED <<conn, leaving>>
  BY <1>8 DEF Client, sessionVars
<1> QED
  BY <1>1, <1>2, <1>3, <1>4, <1>5, <1>6, <1>8 DEF Next, Fights

\* Nobody who has left a connection comes back to it.
LEMMA ConnectedShrinks ==
    ASSUME FlowTypeOK, [Next]_vars
    PROVE  /\ Connected' \subseteq Connected
           /\ \A p \in Players : IsOpen(p)' => IsOpen(p)
<1>1. \A p \in Players : conn'[p] = "open" => conn[p] = "open"
  BY ConnectionSteps DEF FlowTypeOK, Disconnected, LeaveRoom
<1> QED
  BY <1>1 DEF Connected, IsOpen

\* A connected player stays in the room until disconnected() has run.
LEMMA StepsKeepMembers ==
    ASSUME FlowTypeOK, EventsFit, MembersFit, BeginsFit, AdvancesFit, [Next]_vars
    PROVE  MembersFit'
<1>1. CASE \E p \in Players : LeaveRoom(p)
  BY <1>1 DEF LeaveRoom, Leave, MembersFit
<1>2. CASE ~\E p \in Players : LeaveRoom(p)
  <2>1. members' = members
    BY <1>2, RoomSteps, FightsEffect, OpensEffect, StartsEffect DEF stagesVars, Settle
  <2>2. CASE UNCHANGED <<conn, leaving>>
    BY <2>1, <2>2 DEF MembersFit
  <2>3. CASE \E p \in Players : /\ conn' = [conn EXCEPT ![p] = "closing"] /\ UNCHANGED leaving
                                /\ conn[p] # "gone"
    BY <2>1, <2>3 DEF MembersFit, FlowTypeOK
  <2>4. CASE \E p \in Players : Disconnected(p)
    BY <2>1, <2>4 DEF Disconnected, MembersFit, FlowTypeOK
  <2> QED
    BY <1>2, <2>2, <2>3, <2>4, ConnectionSteps
<1> QED
  BY <1>1, <1>2

\* What a step does to the beginRewardStage goroutines.
LEMMA BeginSteps ==
    ASSUME FlowTypeOK, [Next]_vars
    PROVE  \/ UNCHANGED begins
           \/ ObserveEvent
           \/ \E n \in AllStages : Begin(n)
<1>1. CASE UNCHANGED vars
  BY <1>1 DEF vars, workVars
<1>2. CASE Fights \/ Deadline \/ ApplyChoice
  BY <1>2 DEF Fights, FightEnds, Deadline, ApplyChoice, workVars
<1>3. CASE ObserveRewards \/ Reject
  BY <1>3 DEF ObserveRewards, TakeUpdate, SendNotice, MarkDelivered, Reject
<1>4. CASE Advance
  BY <1>4 DEF Advance, Decide, StartStage, LeaveSnapshot, LeaveReward, EndAdvance
<1>5. ASSUME NEW p \in Players,
             Handle(p) \/ Client(p) \/ Hangup(p) \/ Disconnected(p) \/ LeaveRoom(p)
      PROVE  UNCHANGED begins
  BY <1>5
     DEF Handle, HandleRewardChoice, HandleNextStageRequest, TryAdvanceStage, Client, Hangup,
         Disconnected, LeaveRoom, workVars
<1> QED
  BY <1>1, <1>2, <1>3, <1>4, <1>5 DEF Next, Fights

\* A round is opened by the goroutine of the stage that was won, once.
LEMMA StepsKeepBegins ==
    ASSUME FlowTypeOK, EventsFit, BeginsFit, AdvancesFit, [Next]_vars
    PROVE  BeginsFit'
<1>1. CASE ObserveEvent
  <2> DEFINE e == Head(events)
  <2>1. /\ ~InRound /\ Heard \in {0, 1} /\ e = News(Heard + 1) /\ SameStage /\ InRound' = InRound
        /\ Heard + 1 <= Published /\ Len(events') = Published - (Heard + 1)
    BY <1>1, EventsTaken, SameNews
  <2>2. UNCHANGED <<stage, number>> /\ begins' = StartsBegin(e)
    BY <1>1 DEF ObserveEvent, stagesVars
  <2>3. CASE e.kind = "cleared"
    <3>1. Heard = 1 /\ e.index = number /\ stage # "Failed"
      BY <2>1, <2>3 DEF News, StageMessage
    <3>2. Published = 2 /\ Len(events') = 0 /\ stage = "StageClear"
      BY <2>1, <3>1 DEF Published, FlowTypeOK, FlowStates, InRound
    <3>3. events' = <<>>
      BY <1>1, <3>2, TailElements, EmptySeq DEF ObserveEvent, FlowTypeOK
    <3>4. begins' = [begins EXCEPT ![number] = "start"]
      BY <2>2, <2>3, <3>1 DEF StartsBegin
    <3> QED
      BY <2>1, <2>2, <3>2, <3>3, <3>4 DEF BeginsFit, FlowTypeOK
  <2>4. CASE e.kind # "cleared"
    <3>1. begins' = begins /\ events # <<>>
      BY <1>1, <2>2, <2>4 DEF StartsBegin, ObserveEvent
    <3> QED
      BY <2>1, <2>2, <3>1 DEF BeginsFit
  <2> QED
    BY <2>3, <2>4
<1>2. CASE \E n \in AllStages : Opens(n)
  <2>1. PICK n \in AllStages : Opens(n)
    BY <1>2
  <2>2. /\ n = number /\ stage' = "Reward" /\ stage = "StageClear" /\ UNCHANGED <<number, events>>
        /\ begins' = [begins EXCEPT ![n] = "snapshot"]
    BY <2>1, OpensEffect
  <2> QED
    BY <2>2 DEF BeginsFit, InRound, FlowTypeOK
<1>3. ASSUME NEW n \in AllStages, Begin(n), ~Opens(n) PROVE BeginsFit'
  <2>1. SameStage /\ UNCHANGED <<stage, number, events>> /\ InRound' = InRound
    BY <1>3
       DEF Begin, BeginRewardStage, StartReward, EnterSnapshot, EnterReward, Opens, roomVars,
           stagesVars, SameStage, InRound
  <2>2. \/ UNCHANGED begins
        \/ begins' = [begins EXCEPT ![n] = "done"]
        \/ begins[n] = "start" /\ begins' = [begins EXCEPT ![n] = "reward"] /\ n < MaxStage
        \/ begins[n] = "snapshot" /\ begins' = [begins EXCEPT ![n] = "enter"]
    BY <1>3
       DEF Begin, BeginRewardStage, StartReward, EnterSnapshot, EnterReward, Opens, BeginGoto
  <2> QED
    BY <2>1, <2>2 DEF BeginsFit, FlowTypeOK
<1>4. CASE UNCHANGED begins /\ Fights
  <2>1. stage = "Playing" /\ ~InRound
    BY <1>4, FightsEffect DEF InRound
  <2> QED
    BY <1>4, <2>1 DEF BeginsFit
<1>5. CASE UNCHANGED begins /\ \E k \in DOMAIN advances : Starts(k)
  <2>1. stage = "PreparingNextStage"
    BY <1>5, StartsEffect
  <2> QED
    BY <1>5, <2>1 DEF BeginsFit
<1>6. CASE UNCHANGED begins /\ SameStage /\ ~ObserveEvent /\ ~Fights
           /\ ~\E k \in DOMAIN advances : Starts(k)
  <2>1. InRound' = InRound /\ number' = number
    BY <1>6, SameNews DEF SameStage
  <2>2. stage = "StageClear" => stage' = "StageClear"
    BY <1>6 DEF SameStage
  <2>3. events = <<>> => events' = <<>>
    BY <1>6, EventSteps
  <2> QED
    BY <1>6, <2>1, <2>2, <2>3 DEF BeginsFit
<1> QED
  BY <1>1, <1>2, <1>3, <1>4, <1>5, <1>6, BeginSteps, StageSteps

\* A beginRewardStage goroutine is over before its stage is.
LEMMA StepsKeepBeginsInTime ==
    ASSUME FlowTypeOK, EventsFit, BeginsFit, BeginsInTime, AdvancesFit, ~Lagging, [Next]_vars
    PROVE  BeginsInTime'
<1>1. CASE ObserveEvent
  <2>1. ~InRound
    BY <1>1, EventsTaken
  <2>2. \A n \in AllStages : begins'[n] = begins[n] \/ begins'[n] = "start"
    BY <1>1 DEF ObserveEvent, StartsBegin, FlowTypeOK
  <2>3. \A n \in AllStages : begins[n] \notin {"snapshot", "enter"}
    BY <2>1 DEF BeginsInTime
  <2> QED
    BY <2>2, <2>3 DEF BeginsInTime
<1>2. CASE \E n \in AllStages : Opens(n)
  <2>1. PICK n \in AllStages : Opens(n)
    BY <1>2
  <2>2. /\ n = number /\ stage' = "Reward" /\ stage = "StageClear" /\ UNCHANGED <<number, events>>
        /\ begins' = [begins EXCEPT ![n] = "snapshot"]
    BY <2>1, OpensEffect
  <2> QED
    BY <2>2 DEF BeginsInTime, InRound, FlowTypeOK
<1>3. ASSUME NEW n \in AllStages, Begin(n), ~Opens(n) PROVE BeginsInTime'
  <2>1. SameStage /\ UNCHANGED <<stage, number, events>> /\ InRound' = InRound
    BY <1>3
       DEF Begin, BeginRewardStage, StartReward, EnterSnapshot, EnterReward, Opens, roomVars,
           stagesVars, SameStage, InRound
  <2>2. \/ UNCHANGED begins
        \/ begins' = [begins EXCEPT ![n] = "done"]
        \/ begins[n] = "start" /\ begins' = [begins EXCEPT ![n] = "reward"] /\ n < MaxStage
        \/ begins[n] = "snapshot" /\ begins' = [begins EXCEPT ![n] = "enter"]
    BY <1>3
       DEF Begin, BeginRewardStage, StartReward, EnterSnapshot, EnterReward, Opens, BeginGoto
  <2> QED
    BY <2>1, <2>2 DEF BeginsInTime, FlowTypeOK
<1>4. CASE UNCHANGED begins /\ Fights
  <2>1. stage = "Playing" /\ ~InRound
    BY <1>4, FightsEffect DEF InRound
  <2> QED
    BY <1>4, <2>1 DEF BeginsInTime
<1>5. CASE UNCHANGED begins /\ \E k \in DOMAIN advances : Starts(k)
  <2>1. stage = "PreparingNextStage" /\ \A n \in AllStages : begins[n] \notin {"snapshot", "enter"}
    BY <1>5, StartsEffect DEF Starts, StartStage
  <2> QED
    BY <1>5, <2>1 DEF BeginsInTime
<1>6. CASE UNCHANGED begins /\ SameStage /\ ~ObserveEvent /\ ~Fights
           /\ ~\E k \in DOMAIN advances : Starts(k)
  <2>1. InRound' = InRound /\ number' = number
    BY <1>6, SameNews DEF SameStage
  <2> QED
    BY <1>6, <2>1 DEF BeginsInTime
<1> QED
  BY <1>1, <1>2, <1>3, <1>4, <1>5, <1>6, BeginSteps, StageSteps


\* What a step does to the advanceStage goroutines.
LEMMA AdvanceSteps ==
    ASSUME FlowTypeOK, [Next]_vars
    PROVE  \/ UNCHANGED <<advances, advancing>>
           \/ Advance
           \/ \E p \in Players : /\ TryAdvanceStage(p) /\ MayAdvance
                                 /\ EveryoneReady(SessionsIn("reward"))
<1>1. CASE UNCHANGED vars
  BY <1>1 DEF vars, workVars, activeVars
<1>2. CASE Fights \/ Deadline \/ ApplyChoice
  BY <1>2 DEF Fights, FightEnds, Deadline, ApplyChoice, workVars, activeVars
<1>3. CASE ObserveEvent \/ ObserveRewards \/ Reject
  BY <1>3
     DEF ObserveEvent, ObserveRewards, TakeUpdate, SendNotice, MarkDelivered, Reject, activeVars
<1>4. ASSUME NEW n \in AllStages, Begin(n) PROVE UNCHANGED <<advances, advancing>>
  BY <1>4 DEF Begin, BeginRewardStage, StartReward, EnterSnapshot, EnterReward, activeVars
<1>5. ASSUME NEW p \in Players, HandleRewardChoice(p) \/ HandleNextStageRequest(p)
      PROVE  UNCHANGED <<advances, advancing>>
  BY <1>5 DEF HandleRewardChoice, HandleNextStageRequest, workVars, activeVars
<1>6. ASSUME NEW p \in Players, TryAdvanceStage(p)
      PROVE  \/ UNCHANGED <<advances, advancing>>
             \/ MayAdvance /\ EveryoneReady(SessionsIn("reward"))
  BY <1>6 DEF TryAdvanceStage
<1>7. ASSUME NEW p \in Players, Client(p) \/ Hangup(p) \/ Disconnected(p) \/ LeaveRoom(p)
      PROVE  UNCHANGED <<advances, advancing>>
  BY <1>7 DEF Client, Hangup, Disconnected, LeaveRoom, workVars, activeVars
<1> QED
  BY <1>1, <1>2, <1>3, <1>4, <1>5, <1>6, <1>7 DEF Next, Fights, Handle

\* What a step does to the players that are ready.
LEMMA ReadySteps ==
    ASSUME FlowTypeOK, [Next]_vars
    PROVE  \/ UNCHANGED ready
           \/ \E p \in Players : /\ HandleNextStageRequest(p) /\ ready' = ready \cup {p}
                                 /\ Accepts(p, "ready") /\ p \in rewarded
           \/ ready' = {} /\ \E n \in AllStages : BeginRewardStage(n) /\ begins[n] = "start"
           \/ ready' = {} /\ \E k \in DOMAIN advances : EndAdvance(k)
<1>1. CASE UNCHANGED vars
  BY <1>1 DEF vars, activeVars
<1>2. CASE Fights \/ Deadline \/ ApplyChoice
  BY <1>2 DEF Fights, FightEnds, Deadline, ApplyChoice, activeVars
<1>3. CASE ObserveEvent \/ ObserveRewards \/ Reject
  BY <1>3
     DEF ObserveEvent, ObserveRewards, TakeUpdate, SendNotice, MarkDelivered, Reject, activeVars
<1>4. ASSUME NEW n \in AllStages, Begin(n)
      PROVE  UNCHANGED ready \/ (ready' = {} /\ BeginRewardStage(n) /\ begins[n] = "start")
  BY <1>4 DEF Begin, BeginRewardStage, StartReward, EnterSnapshot, EnterReward, activeVars
<1>5. ASSUME NEW k \in DOMAIN advances,
             Decide(k) \/ StartStage(k) \/ LeaveSnapshot(k) \/ LeaveReward(k)
      PROVE  UNCHANGED ready
  BY <1>5 DEF Decide, StartStage, LeaveSnapshot, LeaveReward, activeVars
<1>6. ASSUME NEW k \in DOMAIN advances, EndAdvance(k) PROVE ready' = {}
  BY <1>6 DEF EndAdvance
<1>7. ASSUME NEW p \in Players, HandleNextStageRequest(p)
      PROVE  \/ UNCHANGED ready
             \/ ready' = ready \cup {p} /\ Accepts(p, "ready") /\ p \in rewarded
  BY <1>7 DEF HandleNextStageRequest
<1>8. ASSUME NEW p \in Players, \/ HandleRewardChoice(p) \/ TryAdvanceStage(p) \/ Client(p)
                                \/ Hangup(p) \/ Disconnected(p) \/ LeaveRoom(p)
      PROVE  UNCHANGED ready
  BY <1>8
     DEF HandleRewardChoice, TryAdvanceStage, Client, Hangup, Disconnected, LeaveRoom, activeVars
<1> QED
  BY <1>1, <1>2, <1>3, <1>4, <1>5, <1>6, <1>7, <1>8 DEF Next, Fights, Handle, Advance

\* The goroutine starts when everybody is ready: what StepsKeepAdvances needs
\* of the clients.
StartsReady ==
    \A p \in Players :
        TryAdvanceStage(p) /\ MayAdvance /\ EveryoneReady(SessionsIn("reward"))
            => InRound /\ Connected \subseteq ready

\* advancing keeps a second advanceStage goroutine away.
LEMMA StepsKeepAdvances ==
    ASSUME FlowTypeOK, EventsFit, BeginsFit, AdvancesFit, [Next]_vars
    PROVE  AdvancesFit'
<1> DEFINE a == advances[1]
<1>1. CASE \E p \in Players : TryAdvanceStage(p) /\ MayAdvance /\ EveryoneReady(SessionsIn("reward"))
  <2>1. PICK p \in Players : TryAdvanceStage(p) /\ MayAdvance /\ EveryoneReady(SessionsIn("reward"))
    BY <1>1
  <2>3. /\ advances = <<>> /\ advancing' = TRUE
        /\ advances' = Append(advances, [pc |-> "decide", plan |-> 0, leave |-> {}])
    BY <2>1 DEF TryAdvanceStage, MayAdvance, AdvancesFit, roomVars, stagesVars
  <2>4. advances' = <<[pc |-> "decide", plan |-> 0, leave |-> {}]>>
    BY <2>3
  <2>5. Len(advances') = 1 /\ advances'[1].pc = "decide" /\ advances' # <<>>
    BY <2>4
  <2> QED
    BY <2>3, <2>5 DEF AdvancesFit
<1>2. CASE Advance
  <2>1. PICK k \in DOMAIN advances :
            Decide(k) \/ StartStage(k) \/ LeaveSnapshot(k) \/ LeaveReward(k) \/ EndAdvance(k)
    BY <1>2 DEF Advance
  <2>2. /\ k = 1 /\ Len(advances) = 1 /\ a \in Advancer /\ RemoveAt(advances, 1) = <<>>
        /\ \A b \in Advancer : /\ [advances EXCEPT ![1] = b] \in Seq(Advancer)
                               /\ Len([advances EXCEPT ![1] = b]) = 1
                               /\ [advances EXCEPT ![1] = b][1] = b
    BY <2>1, AdvancerEffect
  <2>3. /\ a.pc = "submit" => a.plan = number + 1
        /\ advancing /\ advances # <<>>
    BY <2>2, EmptySeq DEF AdvancesFit
  <2>4. ASSUME advances' = <<>>, advancing' = FALSE PROVE AdvancesFit'
    BY <2>4 DEF AdvancesFit
  <2>5. ASSUME NEW b \in Advancer, advances' = [advances EXCEPT ![1] = b], UNCHANGED advancing,
               b.pc = "submit" => b.plan = number' + 1
        PROVE  AdvancesFit'
    <3>1. Len(advances') = 1 /\ advances'[1] = b
      BY <2>2, <2>5
    <3>2. advances' # <<>>
      BY <3>1, EmptySeq
    <3> QED
      BY <2>3, <2>5, <3>1, <3>2 DEF AdvancesFit
  <2>6. CASE Decide(k)
    <3>1. CASE advances' = [advances EXCEPT ![1].pc = "submit", ![1].plan = number + 1]
               /\ UNCHANGED advancing
      <4> DEFINE b == [a EXCEPT !.pc = "submit", !.plan = number + 1]
      <4>0. number + 1 \in Nat
        BY DEF FlowTypeOK, AllStages
      <4>1. b \in Advancer /\ b.pc = "submit" /\ b.plan = number + 1
        BY <2>2, <4>0 DEF Advancer
      <4>2. advances' = [advances EXCEPT ![1] = b]
        BY <2>2, <3>1
      <4>3. number' = number
        BY <2>6 DEF Decide, roomVars, stagesVars
      <4> QED
        BY <2>5, <3>1, <4>1, <4>2, <4>3
    <3>2. CASE AdvanceFails(1)
      BY <2>2, <2>4, <3>2 DEF AdvanceFails
    <3> QED
      BY <2>2, <2>6, <3>1, <3>2 DEF Decide
  <2>7. CASE StartStage(k)
    <3>1. CASE Starts(1)
      <4> DEFINE b == [a EXCEPT !.pc = "snapshot"]
      <4>1. b \in Advancer /\ b.pc = "snapshot"
        BY <2>2, AdvancerFields DEF Advancer
      <4>2. advances' = [advances EXCEPT ![1] = b] /\ stage' = "Playing"
        BY <2>2, <3>1, StartsEffect
      <4>3. UNCHANGED advancing
        BY <2>2, <3>1 DEF Starts, StartStage, Start
      <4> QED
        BY <2>5, <4>1, <4>2, <4>3
    <3>2. CASE AdvanceFails(1)
      BY <2>2, <2>4, <3>2 DEF AdvanceFails
    <3> QED
      BY <2>2, <2>7, <3>1, <3>2 DEF StartStage, Starts
  <2>8. CASE LeaveSnapshot(k)
    <3> DEFINE b == [a EXCEPT !.pc = "leave", !.leave = SessionsIn("reward")]
    <3>1. b \in Advancer /\ b.pc = "leave"
      BY <2>2, AdvancerFields DEF Advancer, SessionsIn, Connected
    <3>2. advances' = [advances EXCEPT ![1] = b] /\ UNCHANGED advancing
      BY <2>2, <2>8 DEF LeaveSnapshot, activeVars
    <3> QED
      BY <2>2, <2>3, <2>5, <2>8, <3>1, <3>2 DEF LeaveSnapshot
  <2>9. CASE LeaveReward(k)
    <3>1. UNCHANGED advancing /\ a.pc = "leave"
      BY <2>2, <2>9 DEF LeaveReward, activeVars
    <3>2. CASE advances' = [advances EXCEPT ![1].pc = "clear"]
      <4> DEFINE b == [a EXCEPT !.pc = "clear"]
      <4>1. b \in Advancer /\ b.pc = "clear" /\ advances' = [advances EXCEPT ![1] = b]
        BY <2>2, <3>2, AdvancerFields DEF Advancer
      <4> QED
        BY <2>5, <3>1, <4>1
    <3>3. ASSUME NEW p \in Players, advances' = [advances EXCEPT ![1].leave = @ \ {p}]
          PROVE  AdvancesFit'
      <4> DEFINE b == [a EXCEPT !.leave = a.leave \ {p}]
      <4>1. a.leave \ {p} \in SUBSET Players
        BY <2>2 DEF Advancer
      <4>2. b \in Advancer /\ b.pc = "leave" /\ advances' = [advances EXCEPT ![1] = b]
        BY <2>2, <3>1, <3>3, <4>1, AdvancerFields DEF Advancer
      <4> QED
        BY <2>5, <3>1, <4>2
    <3>4. a.leave \subseteq Players
      BY <2>2 DEF Advancer
    <3> QED
      BY <2>2, <2>9, <3>2, <3>3, <3>4 DEF LeaveReward, AdvanceGoto
  <2>10. CASE EndAdvance(k)
    BY <2>2, <2>4, <2>10 DEF EndAdvance, AfterAdvance
  <2> QED
    BY <2>1, <2>6, <2>7, <2>8, <2>9, <2>10
<1>3. CASE UNCHANGED <<advances, advancing>> /\ ~Advance
  <2>1. ~\E k \in DOMAIN advances : Starts(k)
    BY <1>3 DEF Advance, Starts
  <2>2. number' = number
    BY <2>1, StageSteps, FightsEffect, OpensEffect DEF SameStage
  <2> QED
    BY <1>3, <2>2 DEF AdvancesFit
<1> QED
  BY <1>1, <1>2, <1>3, AdvanceSteps

\* The team is ready until the next stage has started.
LEMMA StepsKeepAdvancesInTime ==
    ASSUME FlowTypeOK, EventsFit, BeginsFit, AdvancesFit, AdvancesInTime, ~Lagging, StartsReady,
           [Next]_vars
    PROVE  AdvancesInTime'
<1> DEFINE a == advances[1]
<1>0. Connected' \subseteq Connected
  BY ConnectedShrinks
<1>1. CASE \E p \in Players : TryAdvanceStage(p) /\ MayAdvance /\ EveryoneReady(SessionsIn("reward"))
  <2>1. PICK p \in Players : TryAdvanceStage(p) /\ MayAdvance /\ EveryoneReady(SessionsIn("reward"))
    BY <1>1
  <2>2. InRound /\ Connected \subseteq ready
    BY <2>1 DEF StartsReady
  <2>3. /\ advances = <<>> /\ advancing' = TRUE
        /\ advances' = Append(advances, [pc |-> "decide", plan |-> 0, leave |-> {}])
        /\ UNCHANGED <<stage, number, ready>>
    BY <2>1 DEF TryAdvanceStage, MayAdvance, AdvancesFit, roomVars, stagesVars
  <2>4. advances' = <<[pc |-> "decide", plan |-> 0, leave |-> {}]>>
    BY <2>3
  <2>5. Len(advances') = 1 /\ advances'[1].pc = "decide" /\ advances' # <<>>
    BY <2>4
  <2>6. InRound' /\ Connected' \subseteq ready'
    BY <1>0, <2>2, <2>3 DEF InRound
  <2> QED
    BY <2>3, <2>5, <2>6 DEF AdvancesFit, AdvancesInTime
<1>2. CASE Advance
  <2>1. PICK k \in DOMAIN advances :
            Decide(k) \/ StartStage(k) \/ LeaveSnapshot(k) \/ LeaveReward(k) \/ EndAdvance(k)
    BY <1>2 DEF Advance
  <2>2. /\ k = 1 /\ Len(advances) = 1 /\ a \in Advancer /\ RemoveAt(advances, 1) = <<>>
        /\ \A b \in Advancer : /\ [advances EXCEPT ![1] = b] \in Seq(Advancer)
                               /\ Len([advances EXCEPT ![1] = b]) = 1
                               /\ [advances EXCEPT ![1] = b][1] = b
    BY <2>1, AdvancerEffect
  <2>3. /\ a.pc \in {"decide", "submit"} => InRound /\ Connected \subseteq ready
        /\ a.pc \in {"snapshot", "leave", "clear"} => stage = "Playing"
        /\ advancing /\ advances # <<>>
    BY <2>2, EmptySeq DEF AdvancesFit, AdvancesInTime
  <2>4. ASSUME advances' = <<>>, advancing' = FALSE PROVE AdvancesInTime'
    BY <2>4 DEF AdvancesFit, AdvancesInTime
  <2>5. ASSUME NEW b \in Advancer, advances' = [advances EXCEPT ![1] = b], UNCHANGED advancing,
               b.pc \in {"decide", "submit"} => InRound' /\ Connected' \subseteq ready',
               b.pc \in {"snapshot", "leave", "clear"} => stage' = "Playing"
        PROVE  AdvancesInTime'
    <3>1. Len(advances') = 1 /\ advances'[1] = b
      BY <2>2, <2>5
    <3>2. advances' # <<>>
      BY <3>1, EmptySeq
    <3> QED
      BY <2>3, <2>5, <3>1, <3>2 DEF AdvancesFit, AdvancesInTime
  <2>6. CASE Decide(k)
    <3>1. CASE advances' = [advances EXCEPT ![1].pc = "submit", ![1].plan = number + 1]
               /\ UNCHANGED advancing
      <4> DEFINE b == [a EXCEPT !.pc = "submit", !.plan = number + 1]
      <4>0. number + 1 \in Nat
        BY DEF FlowTypeOK, AllStages
      <4>1. b \in Advancer /\ b.pc = "submit" /\ b.plan = number + 1
        BY <2>2, <4>0 DEF Advancer
      <4>2. advances' = [advances EXCEPT ![1] = b]
        BY <2>2, <3>1
      <4>3. UNCHANGED <<stage, number, ready>> /\ InRound' /\ Connected' \subseteq ready'
        BY <1>0, <2>2, <2>3, <2>6 DEF Decide, roomVars, stagesVars, InRound
      <4> QED
        BY <2>5, <3>1, <4>1, <4>2, <4>3
    <3>2. CASE AdvanceFails(1)
      BY <2>2, <2>4, <3>2 DEF AdvanceFails
    <3> QED
      BY <2>2, <2>6, <3>1, <3>2 DEF Decide
  <2>7. CASE StartStage(k)
    <3>1. CASE Starts(1)
      <4> DEFINE b == [a EXCEPT !.pc = "snapshot"]
      <4>1. b \in Advancer /\ b.pc = "snapshot"
        BY <2>2, AdvancerFields DEF Advancer
      <4>2. advances' = [advances EXCEPT ![1] = b] /\ stage' = "Playing"
        BY <2>2, <3>1, StartsEffect
      <4>3. UNCHANGED advancing
        BY <2>2, <3>1 DEF Starts, StartStage, Start
      <4> QED
        BY <2>5, <4>1, <4>2, <4>3
    <3>2. CASE AdvanceFails(1)
      BY <2>2, <2>4, <3>2 DEF AdvanceFails
    <3> QED
      BY <2>2, <2>7, <3>1, <3>2 DEF StartStage, Starts
  <2>8. CASE LeaveSnapshot(k)
    <3> DEFINE b == [a EXCEPT !.pc = "leave", !.leave = SessionsIn("reward")]
    <3>1. b \in Advancer /\ b.pc = "leave"
      BY <2>2, AdvancerFields DEF Advancer, SessionsIn, Connected
    <3>2. advances' = [advances EXCEPT ![1] = b] /\ stage' = stage /\ UNCHANGED advancing
      BY <2>2, <2>8 DEF LeaveSnapshot, roomVars, stagesVars, activeVars
    <3> QED
      BY <2>2, <2>3, <2>5, <2>8, <3>1, <3>2 DEF LeaveSnapshot
  <2>9. CASE LeaveReward(k)
    <3>1. stage' = stage /\ UNCHANGED advancing /\ a.pc = "leave" /\ stage = "Playing"
      BY <2>2, <2>3, <2>9 DEF LeaveReward, roomVars, stagesVars, activeVars
    <3>2. CASE advances' = [advances EXCEPT ![1].pc = "clear"]
      <4> DEFINE b == [a EXCEPT !.pc = "clear"]
      <4>1. b \in Advancer /\ b.pc = "clear" /\ advances' = [advances EXCEPT ![1] = b]
        BY <2>2, <3>2, AdvancerFields DEF Advancer
      <4> QED
        BY <2>5, <3>1, <4>1
    <3>3. ASSUME NEW p \in Players, advances' = [advances EXCEPT ![1].leave = @ \ {p}]
          PROVE  AdvancesInTime'
      <4> DEFINE b == [a EXCEPT !.leave = a.leave \ {p}]
      <4>1. a.leave \ {p} \in SUBSET Players
        BY <2>2 DEF Advancer
      <4>2. b \in Advancer /\ b.pc = "leave" /\ advances' = [advances EXCEPT ![1] = b]
        BY <2>2, <3>1, <3>3, <4>1, AdvancerFields DEF Advancer
      <4> QED
        BY <2>5, <3>1, <4>2
    <3>4. a.leave \subseteq Players
      BY <2>2 DEF Advancer
    <3> QED
      BY <2>2, <2>9, <3>2, <3>3, <3>4 DEF LeaveReward, AdvanceGoto
  <2>10. CASE EndAdvance(k)
    BY <2>2, <2>4, <2>10 DEF EndAdvance, AfterAdvance
  <2> QED
    BY <2>1, <2>6, <2>7, <2>8, <2>9, <2>10
<1>3. CASE UNCHANGED <<advances, advancing>> /\ ~Advance
  <2>1. ASSUME NEW k \in 1..Len(advances), advances[k].pc \in {"decide", "submit"}
        PROVE  InRound' /\ Connected' \subseteq ready'
    <3>1. InRound /\ Connected \subseteq ready
      BY <2>1 DEF AdvancesFit, AdvancesInTime
    <3>2. SameStage
      <4>1. ~Fights /\ ~\E n \in AllStages : Opens(n)
        BY <3>1, FightsEffect, OpensEffect DEF InRound
      <4>2. ~\E i \in DOMAIN advances : Starts(i)
        BY <1>3 DEF Advance, Starts
      <4> QED
        BY <4>1, <4>2, StageSteps
    <3>3. ready \subseteq ready'
      <4>1. ~\E n \in AllStages : BeginRewardStage(n) /\ begins[n] = "start"
        BY <3>1 DEF BeginsFit, InRound
      <4>2. ~\E i \in DOMAIN advances : EndAdvance(i)
        BY <1>3 DEF Advance
      <4> QED
        BY <4>1, <4>2, ReadySteps
    <3> QED
      BY <1>0, <3>1, <3>2, <3>3, SameNews DEF SameStage
  <2>2. ASSUME NEW k \in 1..Len(advances), advances[k].pc \in {"snapshot", "leave", "clear"}
        PROVE  stage' = "Playing"
    <3>1. stage = "Playing"
      BY <2>2 DEF AdvancesFit, AdvancesInTime
    <3>2. ~Fights
      <4>1. k \in DOMAIN advances
        BY <2>2, LenProperties DEF FlowTypeOK
      <4> QED
        BY <2>2, <4>1 DEF Fights, FightEnds, Settled
    <3> QED
      BY <3>1, <3>2, StageSteps, OpensEffect, StartsEffect DEF SameStage
  <2> QED
    BY <1>3, <2>1, <2>2 DEF AdvancesFit, AdvancesInTime
<1> QED
  BY <1>1, <1>2, <1>3, AdvanceSteps

-----------------------------------------------------------------------------
(* The clients *)

\* A step that neither the client of p takes nor sends it anything.
Untouched(p) ==
    /\ scenario'[p] = scenario[p] /\ inbox'[p] = inbox[p]
    /\ phase'[p] = phase[p] /\ cleared'[p] = cleared[p]
    /\ offered'[p] = offered[p] /\ responses'[p] = responses[p]

\* A step that sends the client of p a message.
Told1(p, m) ==
    /\ scenario'[p] = scenario[p] /\ inbox'[p] = Append(inbox[p], m)
    /\ phase'[p] = phase[p] /\ cleared'[p] = cleared[p]
    /\ offered'[p] = offered[p] /\ responses'[p] = responses[p]

RejectOf(r) ==
    /\ r \in rejecting /\ MayReject(r) /\ rejecting' = rejecting \ {r}
    /\ Deliver({r.player}, RewardApplied("refused", r.item))

\* Whom a step sends a message, and which.
Hears(p) ==
    \/ ObserveEvent /\ Told1(p, Head(events))
    \/ SendNotice /\ notice.update.to = p /\ Told1(p, Wording(notice.update))
    \/ \E r \in rejecting : /\ Reject /\ RejectOf(r) /\ r.player = p
                            /\ Told1(p, RewardApplied("refused", r.item))

\* A step of one client, or one that tells it something, or neither.
LEMMA ClientSteps ==
    ASSUME FlowTypeOK, [Next]_vars, NEW p \in Players, IsOpen(p)'
    PROVE  Untouched(p) \/ Hears(p) \/ Client(p)
<1>0. IsOpen(p)
  BY ConnectedShrinks
<1>1. UNCHANGED botVars => Untouched(p)
  BY DEF botVars, Untouched
<1>2. CASE UNCHANGED vars
  BY <1>1, <1>2 DEF vars
<1>3. CASE Fights \/ Deadline \/ ApplyChoice
  BY <1>1, <1>3 DEF Fights, FightEnds, Deadline, ApplyChoice
<1>4. ASSUME NEW who, NEW m \in Message, Deliver(who, m), ServerOnly
      PROVE  IF p \in who THEN Told1(p, m) ELSE Untouched(p)
  BY <1>0, <1>4, DeliverEffect DEF ServerOnly, Told1, Untouched, IsOpen
<1>5. CASE ObserveEvent
  <2>1. Head(events) \in Message
    BY <1>5, TailElements, MessageTypes DEF ObserveEvent, FlowTypeOK
  <2> QED
    BY <1>4, <1>5, <2>1 DEF ObserveEvent, Hears
<1>6. CASE ObserveRewards
  <2>1. CASE SendNotice
    <3>1. Wording(notice.update) \in Message
      BY <2>1, NoticeTypes, UpdateTypes DEF SendNotice, FlowTypeOK
    <3> QED
      BY <1>4, <2>1, <3>1 DEF SendNotice, Hears
  <2> QED
    BY <1>1, <1>6, <2>1 DEF ObserveRewards, TakeUpdate, MarkDelivered
<1>7. CASE Reject
  <2>1. PICK r \in rejecting : RejectOf(r)
    BY <1>7 DEF Reject, RejectOf
  <2>2. RewardApplied("refused", r.item) \in Message
    BY <2>1, MessageTypes DEF FlowTypeOK, Refusal
  <2>3. IF p = r.player THEN Told1(p, RewardApplied("refused", r.item)) ELSE Untouched(p)
    BY <1>4, <1>7, <2>1, <2>2 DEF Reject, RejectOf
  <2> QED
    BY <1>7, <2>1, <2>3 DEF Hears
<1>8. ASSUME NEW n \in AllStages, Begin(n) PROVE Untouched(p)
  BY <1>1, <1>8 DEF Begin, BeginRewardStage, StartReward, EnterSnapshot, EnterReward
<1>9. CASE Advance
  BY <1>1, <1>9 DEF Advance, Decide, StartStage, LeaveSnapshot, LeaveReward, EndAdvance
<1>10. ASSUME NEW q \in Players, Handle(q) PROVE Untouched(p)
  <2>1. ASSUME Refuse(q), UNCHANGED <<scenario, phase, cleared, offered, responses>>
        PROVE  Untouched(p)
    <3>1. conn'[p] = "open" /\ conn' = [conn EXCEPT ![q] = "closing"] /\ q \in DOMAIN conn
      BY <2>1 DEF Refuse, FlowTypeOK, IsOpen
    <3>2. p \notin {q}
      BY <3>1
    <3>3. inbox'[p] = inbox[p]
      BY <2>1, <3>2 DEF Refuse, Deliver
    <3> QED
      BY <2>1, <3>3 DEF Untouched
  <2> QED
    BY <1>1, <1>10, <2>1
       DEF Handle, HandleRewardChoice, HandleNextStageRequest, TryAdvanceStage, Untouched
<1>11. ASSUME NEW q \in Players, Client(q), q # p PROVE Untouched(p)
  BY <1>11
     DEF Client, Observe, ObserveStageStarted, ObserveStageCleared, ObserveTeamDefeated,
         ObserveRewardOptions, ObserveRewardApplied, ObserveDisconnect, Enters, Untouched, FlowTypeOK
<1>12. ASSUME NEW q \in Players, Hangup(q) PROVE Untouched(p)
  BY <1>12 DEF Hangup, Untouched, FlowTypeOK, IsOpen
<1>13. ASSUME NEW q \in Players, Disconnected(q) \/ LeaveRoom(q) PROVE Untouched(p)
  BY <1>1, <1>13 DEF Disconnected, LeaveRoom, Untouched
<1> QED
  BY <1>2, <1>3, <1>5, <1>6, <1>7, <1>8, <1>9, <1>10, <1>11, <1>12, <1>13 DEF Next, Fights

\* The four scenarios, case by case.
LEMMA ScenarioFacts ==
    ASSUME FlowTypeOK, NEW p \in Players
    PROVE  /\ scenario[p] \in {"normal", "invalid", "duplicate", "timeout"}
           /\ Due(p) = IF scenario[p] \in {"invalid", "duplicate"} THEN 2 ELSE 1
           /\ scenario[p] = "normal" => Answers[scenario[p]][1] = RewardApplied("ok", "chosen")
           /\ scenario[p] = "timeout" => Answers[scenario[p]][1] = RewardApplied("ok", "first")
           /\ scenario[p] = "invalid" =>
                  /\ Answers[scenario[p]][1] = RewardApplied("refused", "unoffered")
                  /\ Answers[scenario[p]][2] = RewardApplied("ok", "chosen")
           /\ scenario[p] = "duplicate" =>
                  /\ Answers[scenario[p]][1] = RewardApplied("ok", "chosen")
                  /\ Answers[scenario[p]][2] = RewardApplied("refused", "chosen")
<1>1. scenario[p] \in {"normal", "invalid", "duplicate", "timeout"}
  BY DEF FlowTypeOK, Scenarios
<1>2. CASE scenario[p] = "normal"
  BY <1>2 DEF Due, Answers
<1>3. CASE scenario[p] = "invalid"
  BY <1>3 DEF Due, Answers
<1>4. CASE scenario[p] = "duplicate"
  BY <1>4 DEF Due, Answers
<1>5. CASE scenario[p] = "timeout"
  BY <1>5 DEF Due, Answers
<1> QED
  BY <1>1, <1>2, <1>3, <1>4, <1>5

\* The types of a client's own variables.
LEMMA ClientTyped ==
    ASSUME FlowTypeOK, NEW p \in Players
    PROVE  /\ phase[p] \in {"match", "combat", "reward", "ready", "complete", "defeated", "error"}
           /\ cleared[p] \in Nat /\ offered[p] \in BOOLEAN /\ responses[p] \in Nat
           /\ inbox[p] \in Seq(Message) /\ Len(inbox[p]) \in Nat /\ outbox[p] \in Seq(Requests)
           /\ number \in Nat \ {0} /\ number <= MaxStage /\ MaxStage \in Nat
           /\ Pos(p) \in Nat /\ Told(p) \in Nat /\ Pos(p) <= Told(p) /\ Due(p) \in {1, 2}
<1>1. /\ phase[p] \in {"match", "combat", "reward", "ready", "complete", "defeated", "error"}
      /\ cleared[p] \in Nat /\ offered[p] \in BOOLEAN /\ responses[p] \in Nat
      /\ inbox[p] \in Seq(Message) /\ outbox[p] \in Seq(Requests)
  BY DEF FlowTypeOK, Over
<1>2. Len(inbox[p]) \in Nat
  BY <1>1, LenProperties
<1>3. number \in Nat \ {0} /\ number <= MaxStage /\ MaxStage \in Nat
  BY StageFlowAssumption, MatchBotAssumption DEF FlowTypeOK, AllStages
<1>4. Pos(p) \in Nat
  BY <1>1 DEF Pos
<1>5. Told(p) \in Nat /\ Pos(p) <= Told(p)
  BY <1>2, <1>4 DEF Told
<1>6. Due(p) \in {1, 2}
  BY ScenarioFacts
<1> QED
  BY <1>1, <1>2, <1>3, <1>4, <1>5, <1>6

\* What an untouched client has seen.
LEMMA UntouchedView ==
    ASSUME NEW p, Untouched(p), number' = number
    PROVE  /\ Pos(p)' = Pos(p) /\ Told(p)' = Told(p) /\ Due(p)' = Due(p)
           /\ AppliedAt(p)' = AppliedAt(p)
BY DEF Untouched, Pos, Told, Due, AppliedAt

\* What a client that is sent a message has seen.
LEMMA ToldView ==
    ASSUME FlowTypeOK, NEW p \in Players, NEW m \in Message, Told1(p, m), number' = number
    PROVE  /\ Pos(p)' = Pos(p) /\ Told(p)' = Told(p) + 1 /\ Due(p)' = Due(p)
           /\ AppliedAt(p)' = AppliedAt(p)
           /\ Len(inbox'[p]) = Len(inbox[p]) + 1
           /\ \A k \in 1..Len(inbox[p]) : inbox'[p][k] = inbox[p][k]
           /\ inbox'[p][Len(inbox[p]) + 1] = m
<1>1. /\ Len(inbox'[p]) = Len(inbox[p]) + 1 /\ Len(inbox[p]) \in Nat
      /\ \A k \in 1..Len(inbox[p]) : inbox'[p][k] = inbox[p][k]
      /\ inbox'[p][Len(inbox[p]) + 1] = m
  BY AppendElements DEF Told1, FlowTypeOK
<1>2. Pos(p)' = Pos(p) /\ Due(p)' = Due(p) /\ AppliedAt(p)' = AppliedAt(p)
  BY DEF Told1, Pos, Due, AppliedAt
<1>3. Told(p)' = Told(p) + 1
  BY <1>1, <1>2, ClientTyped DEF Told
<1> QED
  BY <1>1, <1>2, <1>3

\* The script of a client stays the same until the next stage.
LEMMA SameScript ==
    ASSUME FlowTypeOK, SameStage, NEW p \in Players, scenario'[p] = scenario[p]
    PROVE  \A k : Script(p, k)' = Script(p, k)
<1>1. ASSUME NEW k PROVE News(k)' = News(k)
  BY SameNews
<1> QED
  BY <1>1 DEF Script, SameStage

\* A client stays where it is in the script.
LEMMA PhaseKept ==
    ASSUME FlowTypeOK, SameStage, NEW p \in Players, PhaseFits(p),
           UNCHANGED <<Pos(p), Due(p)>>, phase'[p] = phase[p], cleared'[p] = cleared[p],
           offered'[p] = offered[p], responses'[p] = responses[p]
    PROVE  PhaseFits(p)'
<1>1. number' = number /\ (stage' = "Failed" <=> stage = "Failed")
  BY DEF SameStage
<1> QED
  BY <1>1 DEF PhaseFits

\* An untouched client in a stage that goes on.
LEMMA UntouchedFits ==
    ASSUME FlowTypeOK, SameStage, NEW p \in Players, Untouched(p), PhaseFits(p), InboxFits(p),
           ToldFits(p), Heard' = Heard
    PROVE  PhaseFits(p)' /\ InboxFits(p)' /\ ToldFits(p)'
<1>1. number' = number
  BY DEF SameStage
<1>2. Pos(p)' = Pos(p) /\ Told(p)' = Told(p) /\ Due(p)' = Due(p)
  BY <1>1, UntouchedView
<1>3. PhaseFits(p)'
  BY <1>2, PhaseKept DEF Untouched
<1>4. \A k : Script(p, k)' = Script(p, k)
  BY SameScript DEF Untouched
<1>5. InboxFits(p)'
  <2>1. SUFFICES ASSUME NEW k \in 1..Len(inbox[p]) PROVE inbox[p][k] = Script(p, Pos(p) + k)'
    BY DEF InboxFits, Untouched
  <2>2. inbox[p][k] = Script(p, Pos(p) + k)
    BY DEF InboxFits
  <2> QED
    BY <1>2, <1>4, <2>2 DEF Script, News, StageMessage
<1>6. ToldFits(p)'
  BY <1>2, SameNews DEF ToldFits, Untouched
<1> QED
  BY <1>3, <1>5, <1>6

\* A client that is sent the next message of its script.
LEMMA ToldFitsScript ==
    ASSUME FlowTypeOK, SameStage, NEW p \in Players, PhaseFits(p), InboxFits(p),
           NEW m \in Message, Told1(p, m), m = Script(p, Told(p) + 1)
    PROVE  PhaseFits(p)' /\ InboxFits(p)'
<1>1. number' = number
  BY DEF SameStage
<1>2. Pos(p)' = Pos(p) /\ Due(p)' = Due(p)
  BY <1>1, ToldView
<1>3. PhaseFits(p)'
  BY <1>2, PhaseKept DEF Told1
<1> DEFINE n == Len(inbox[p])
<1>4. /\ n \in Nat /\ Pos(p) \in Nat /\ Told(p) = Pos(p) + n /\ Len(inbox'[p]) = n + 1
      /\ \A k \in 1..n : inbox'[p][k] = inbox[p][k]
      /\ inbox'[p][n + 1] = m
  BY <1>1, ToldView, ClientTyped DEF Told
<1>5. InboxFits(p)'
  <2>1. SUFFICES ASSUME NEW k \in 1..(n + 1) PROVE inbox'[p][k] = Script(p, Pos(p) + k)'
    BY <1>4 DEF InboxFits
  <2>2. PICK h : h = Pos(p) + k
    OBVIOUS
  <2>3. Script(p, Pos(p) + k)' = Script(p, h)'
    BY <1>2, <2>2 DEF Script, News
  <2>4. Script(p, h)' = Script(p, h)
    BY SameScript DEF Told1
  <2>5. inbox'[p][k] = Script(p, h)
    <3>1. CASE k = n + 1
      <4>1. h = Told(p) + 1
        BY <1>4, <2>2, <3>1
      <4> QED
        BY <1>4, <3>1, <4>1
    <3>2. CASE k # n + 1
      <4>1. k \in 1..n
        BY <1>4, <3>2
      <4> QED
        BY <1>4, <2>2, <4>1 DEF InboxFits
    <3> QED
      BY <3>1, <3>2
  <2> QED
    BY <2>3, <2>4, <2>5
<1> QED
  BY <1>3, <1>5

\* The end of a fight is news that no client has been told.
LEMMA FightsFit ==
    ASSUME FlowTypeOK, EventsFit, Fights, NEW p \in Players, Untouched(p), PhaseFits(p),
           InboxFits(p), ToldFits(p)
    PROVE  PhaseFits(p)' /\ InboxFits(p)' /\ ToldFits(p)'
<1>1. stage = "Playing" /\ number' = number /\ stage' \in {"StageClear", "Failed"}
  BY FightsEffect
<1>2. ~InRound /\ ~InRound' /\ Heard' = Heard
  BY EventsOfFights
<1>3. Pos(p)' = Pos(p) /\ Told(p)' = Told(p) /\ Due(p)' = Due(p)
  BY <1>1, UntouchedView
<1>4. Told(p) = Heard /\ Told(p) <= 1
  <2>1. Len(events) \in Nat /\ Published = 1
    BY <1>1, LenProperties DEF FlowTypeOK, Published
  <2>2. Heard <= 1
    BY <2>1 DEF Heard
  <2> QED
    BY <1>2, <2>2 DEF ToldFits
<1>5. Pos(p) \in {0, 1}
  BY <1>4, ClientTyped
<1>6. PhaseFits(p)'
  BY <1>1, <1>3, <1>5 DEF PhaseFits, Untouched
<1>7. ToldFits(p)'
  BY <1>2, <1>3, <1>4 DEF ToldFits
<1>8. InboxFits(p)'
  <2>1. SUFFICES ASSUME NEW k \in 1..Len(inbox[p]) PROVE inbox[p][k] = Script(p, Pos(p) + k)'
    BY DEF InboxFits, Untouched
  <2>2. Pos(p) + k = 1
    BY <1>4, <1>5, ClientTyped DEF Told
  <2>3. inbox[p][k] = Script(p, Pos(p) + k)
    BY DEF InboxFits
  <2> QED
    BY <1>1, <1>3, <2>2, <2>3 DEF Script, News
<1> QED
  BY <1>6, <1>7, <1>8

\* A round opens when every client has been told, or will be, that the stage
\* was cleared, and nothing more.
LEMMA OpensFit ==
    ASSUME FlowTypeOK, EventsFit, BeginsFit, NEW n \in AllStages, Opens(n), NEW p \in Players,
           Untouched(p), PhaseFits(p), InboxFits(p), ToldFits(p)
    PROVE  PhaseFits(p)' /\ InboxFits(p)' /\ ToldFits(p)' /\ Told(p) = 2 /\ Told(p)' = 2
<1>1. /\ stage = "StageClear" /\ stage' = "Reward" /\ number' = number /\ events = <<>>
      /\ events' = events
  BY OpensEffect
<1>2. ~InRound /\ InRound' /\ Heard = 2
  BY <1>1 DEF InRound, Heard, Published
<1>3. Pos(p)' = Pos(p) /\ Told(p)' = Told(p) /\ Due(p)' = Due(p)
  BY <1>1, UntouchedView
<1>4. Told(p) = 2
  BY <1>2 DEF ToldFits
<1>5. PhaseFits(p)'
  BY <1>1, <1>3 DEF PhaseFits, Untouched
<1>6. ToldFits(p)'
  BY <1>2, <1>3, <1>4, ClientTyped DEF ToldFits
<1>7. InboxFits(p)'
  <2>1. SUFFICES ASSUME NEW k \in 1..Len(inbox[p]) PROVE inbox[p][k] = Script(p, Pos(p) + k)'
    BY DEF InboxFits, Untouched
  <2>2. inbox[p][k] = Script(p, Pos(p) + k)
    BY DEF InboxFits
  <2>3. Script(p, Pos(p) + k)' = Script(p, Pos(p) + k)
    BY <1>1, <1>3 DEF Script, News, StageMessage, Untouched
  <2> QED
    BY <2>2, <2>3
<1> QED
  BY <1>3, <1>4, <1>5, <1>6, <1>7

\* A stage starts when every client is at the end of its script.
LEMMA StartsFit ==
    ASSUME FlowTypeOK, EventsFit, AdvancesFit, AdvancesInTime, NEW k \in DOMAIN advances,
           Starts(k), NEW p \in Players, IsOpen(p), Untouched(p), PhaseFits(p), ToldFits(p),
           ReadyFits(p)
    PROVE  /\ PhaseFits(p)' /\ InboxFits(p)' /\ ToldFits(p)'
           /\ Pos(p) = 3 + Due(p) /\ Told(p) = Pos(p) /\ phase[p] = "ready" /\ outbox[p] = <<>>
           /\ Pos(p)' = 0 /\ Told(p)' = 0
<1>1. /\ stage = "PreparingNextStage" /\ stage' = "Playing" /\ number' = number + 1
      /\ Connected \subseteq ready
  BY StartsEffect, StartsByAll
<1>2. Heard' = 0
  BY EventsOfStarts
<1>3. InRound /\ ~InRound' /\ p \in ready
  BY <1>1 DEF InRound, Connected, IsOpen
<1>4. Pos(p) = 3 + Due(p) /\ outbox[p] = <<>>
  BY <1>3 DEF ReadyFits
<1>5. Told(p) = Pos(p) /\ Len(inbox[p]) = 0
  BY <1>3, <1>4, ClientTyped DEF ToldFits, Told
<1>6. cleared[p] = number /\ phase[p] = "ready"
  <2>1. Pos(p) >= 3
    BY <1>4, ClientTyped
  <2>2. cleared[p] = number /\ responses[p] <= Due(p)
        /\ phase[p] = (IF responses[p] = Due(p) THEN "ready" ELSE "reward")
    BY <2>1 DEF PhaseFits
  <2>3. Pos(p) = 3 + responses[p]
    BY <2>1, <2>2, ClientTyped DEF Pos
  <2> QED
    BY <1>4, <2>2, <2>3, ClientTyped
<1>7. cleared'[p] = number /\ phase'[p] = "ready" /\ Len(inbox'[p]) = 0
  BY <1>5, <1>6 DEF Untouched
<1>8. number \in Nat \ {0}
  BY ClientTyped
<1>9. Pos(p)' = 0 /\ Told(p)' = 0
  BY <1>1, <1>7, <1>8 DEF Pos, Told
<1>10. PhaseFits(p)'
  BY <1>1, <1>7, <1>8, <1>9 DEF PhaseFits
<1>11. InboxFits(p)'
  BY <1>7 DEF InboxFits
<1>12. ToldFits(p)'
  BY <1>2, <1>3, <1>9 DEF ToldFits
<1> QED
  BY <1>4, <1>5, <1>6, <1>9, <1>10, <1>11, <1>12

\* A client takes in the next message of its script.
LEMMA ClientView ==
    ASSUME FlowTypeOK, NEW p \in Players, Client(p), InboxFits(p)
    PROVE  /\ SameStage /\ number' = number /\ stage' = stage /\ Heard' = Heard
           /\ InRound' = InRound /\ scenario' = scenario /\ Due(p)' = Due(p)
           /\ Head(inbox[p]) = Script(p, Pos(p) + 1)
           /\ Len(inbox[p]) \in Nat \ {0} /\ Len(inbox'[p]) = Len(inbox[p]) - 1
           /\ \A k \in 1..Len(inbox'[p]) : inbox'[p][k] = inbox[p][k + 1]
           /\ Told(p) >= Pos(p) + 1
<1>1. /\ inbox[p] # <<>> /\ inbox' = [inbox EXCEPT ![p] = Tail(@)] /\ scenario' = scenario
      /\ UNCHANGED <<stage, number, events>>
  BY DEF Client, Observe, roomVars, stagesVars
<1>2. inbox[p] \in Seq(Message) /\ inbox'[p] = Tail(inbox[p])
  BY <1>1 DEF FlowTypeOK
<1>3. /\ Head(inbox[p]) = inbox[p][1] /\ Len(inbox[p]) \in Nat \ {0}
      /\ Len(inbox'[p]) = Len(inbox[p]) - 1
      /\ \A k \in 1..Len(inbox'[p]) : inbox'[p][k] = inbox[p][k + 1]
  BY <1>1, <1>2, TailElements
<1>4. Head(inbox[p]) = Script(p, Pos(p) + 1)
  BY <1>3 DEF InboxFits
<1>5. Told(p) >= Pos(p) + 1
  BY <1>3, ClientTyped DEF Told
<1>6. SameStage /\ Heard' = Heard /\ InRound' = InRound /\ Due(p)' = Due(p)
  BY <1>1 DEF SameStage, Heard, Published, InRound, Due
<1> QED
  BY <1>1, <1>3, <1>4, <1>5, <1>6

\* Position by position: the stage starts.
LEMMA ClientStarts ==
    ASSUME FlowTypeOK, NEW p \in Players, Client(p), PhaseFits(p), InboxFits(p), Pos(p) = 0
    PROVE  /\ phase'[p] = "combat" /\ cleared'[p] = number - 1 /\ ~offered'[p]
           /\ responses'[p] = 0 /\ outbox' = outbox
<1>1. Head(inbox[p]) = StageMessage("started", number)
  BY ClientView DEF Script, News
<1>2. ObserveStageStarted(p, StageMessage("started", number))
  BY <1>1
     DEF Client, Observe, StageMessage, ObserveStageStarted, ObserveStageCleared,
         ObserveTeamDefeated, ObserveRewardOptions, ObserveRewardApplied, ObserveDisconnect
<1>3. cleared[p] = number - 1 /\ number <= TargetStages /\ number \in Nat \ {0}
  BY ClientTyped, StageFlowAssumption DEF PhaseFits
<1> QED
  BY <1>2, <1>3 DEF ObserveStageStarted, StageMessage, Enters, FlowTypeOK

\* The stage ends.
LEMMA ClientEnds ==
    ASSUME FlowTypeOK, NEW p \in Players, Client(p), PhaseFits(p), InboxFits(p), Pos(p) = 1
    PROVE  /\ ~offered'[p] /\ responses'[p] = 0 /\ outbox' = outbox
           /\ IF stage = "Failed" THEN phase'[p] = "defeated"
              ELSE /\ cleared'[p] = number
                   /\ phase'[p] = (IF number = MaxStage THEN "complete" ELSE "reward")
<1>1. /\ cleared[p] = number - 1 /\ ~offered[p] /\ responses[p] = 0
      /\ number <= TargetStages /\ number \in Nat \ {0} /\ MaxStage = TargetStages
      /\ TargetStages \in Nat
  BY ClientTyped, StageFlowAssumption DEF PhaseFits
<1>2. phase[p] = "combat"
  BY <1>1 DEF Pos
<1>3. CASE stage = "Failed"
  <2>1. Head(inbox[p]) = StageMessage("defeated", number)
    BY <1>3, ClientView DEF Script, News
  <2>2. ObserveTeamDefeated(p, StageMessage("defeated", number))
    BY <2>1
       DEF Client, Observe, StageMessage, ObserveStageStarted, ObserveStageCleared,
           ObserveTeamDefeated, ObserveRewardOptions, ObserveRewardApplied, ObserveDisconnect
  <2> QED
    BY <1>1, <1>3, <2>2 DEF ObserveTeamDefeated, Enters, FlowTypeOK
<1>4. CASE stage # "Failed"
  <2>1. Head(inbox[p]) = StageMessage("cleared", number)
    BY <1>4, ClientView DEF Script, News
  <2>2. ObserveStageCleared(p, StageMessage("cleared", number))
    BY <2>1
       DEF Client, Observe, StageMessage, ObserveStageStarted, ObserveStageCleared,
           ObserveTeamDefeated, ObserveRewardOptions, ObserveRewardApplied, ObserveDisconnect
  <2>3. /\ cleared' = [cleared EXCEPT ![p] = number]
        /\ Enters(p, IF number >= TargetStages THEN "complete" ELSE "reward")
        /\ UNCHANGED <<outbox, offered, responses>>
    BY <1>1, <1>2, <2>2 DEF ObserveStageCleared, StageMessage
  <2>4. number >= TargetStages <=> number = MaxStage
    BY <1>1
  <2> QED
    BY <1>1, <1>4, <2>3, <2>4 DEF Enters, FlowTypeOK
<1> QED
  BY <1>3, <1>4

\* The options come, in a round.
LEMMA ClientChooses ==
    ASSUME FlowTypeOK, EventsFit, NEW p \in Players, Client(p), PhaseFits(p), InboxFits(p),
           ToldFits(p), Pos(p) = 2
    PROVE  /\ InRound /\ phase'[p] = "reward" /\ cleared'[p] = number /\ offered'[p]
           /\ responses'[p] = 0
           /\ outbox' = [outbox EXCEPT ![p] = @ \o FirstChoices[scenario[p]]]
<1>1. InRound
  <2>1. Told(p) >= 3
    BY ClientView, ClientTyped
  <2>2. Heard <= 2
    BY LenProperties DEF Heard, Published, FlowTypeOK
  <2>3. Heard \in Int
    BY LenProperties DEF Heard, Published, FlowTypeOK
  <2> QED
    BY <2>1, <2>2, <2>3 DEF ToldFits
<1>2. number < MaxStage /\ stage # "Failed"
  BY <1>1 DEF EventsFit, InRound
<1>3. /\ cleared[p] = number /\ phase[p] = "reward" /\ ~offered[p] /\ responses[p] = 0
      /\ number \in Nat
  BY <1>2, ClientTyped DEF PhaseFits
<1>4. Head(inbox[p]) = StageMessage("options", number)
  BY ClientView DEF Script
<1>5. ObserveRewardOptions(p, StageMessage("options", number))
  BY <1>4
     DEF Client, Observe, StageMessage, ObserveStageStarted, ObserveStageCleared,
         ObserveTeamDefeated, ObserveRewardOptions, ObserveRewardApplied, ObserveDisconnect
<1>6. /\ offered' = [offered EXCEPT ![p] = TRUE] /\ Send(p, FirstChoices[scenario[p]])
      /\ UNCHANGED <<phase, cleared, responses>>
  BY <1>3, <1>5 DEF ObserveRewardOptions, StageMessage
<1> QED
  BY <1>1, <1>3, <1>6 DEF Send, FlowTypeOK

\* An answer comes.
LEMMA ClientHears ==
    ASSUME FlowTypeOK, EventsFit, NEW p \in Players, Client(p), PhaseFits(p), InboxFits(p),
           ToldFits(p), Pos(p) >= 3
    PROVE  /\ InRound /\ cleared'[p] = number /\ offered'[p] /\ Pos(p) = 3 + responses[p]
           /\ responses'[p] = responses[p] + 1 /\ responses[p] + 1 <= Due(p)
           /\ phase'[p] = (IF responses[p] + 1 = Due(p) THEN "ready" ELSE "reward")
           /\ outbox' = [outbox EXCEPT ![p] = @ \o
                            (IF responses[p] + 1 = Due(p) THEN <<"ready">>
                             ELSE IF scenario[p] = "invalid" THEN <<"choose">> ELSE <<>>)]
<1>1. InRound
  <2>1. Told(p) >= 3
    BY ClientView, ClientTyped
  <2>2. Heard \in Int /\ Heard <= 2
    BY LenProperties DEF Heard, Published, FlowTypeOK
  <2> QED
    BY <2>1, <2>2 DEF ToldFits
<1>2. Pos(p) = 3 + responses[p] /\ offered[p] /\ responses[p] \in Nat /\ Due(p) \in {1, 2}
  BY ClientTyped DEF Pos
<1>3. responses[p] + 1 <= Due(p)
  <2>1. Pos(p) + 1 <= Told(p) /\ Told(p) <= 3 + Due(p)
    BY <1>1, ClientView DEF ToldFits
  <2> QED
    BY <1>2, <2>1, ClientTyped
<1>4. cleared[p] = number /\ phase[p] = "reward"
  BY <1>2, <1>3 DEF PhaseFits
<1> DEFINE n == responses[p] + 1
           m == Answers[scenario[p]][n]
<1>5. Head(inbox[p]) = m
  <2>1. Head(inbox[p]) = Script(p, Pos(p) + 1)
    BY ClientView
  <2>2. ~(Pos(p) + 1 <= 2) /\ Pos(p) + 1 # 3 /\ (Pos(p) + 1) - 3 = n
    BY <1>2
  <2> QED
    BY <2>1, <2>2 DEF Script
<1>6. m.kind = "applied"
  <2>1. n = 1 \/ (n = 2 /\ Due(p) = 2)
    BY <1>2, <1>3
  <2> QED
    BY <2>1, ScenarioFacts DEF RewardApplied
<1>7. ObserveRewardApplied(p, m)
  BY <1>5, <1>6
     DEF Client, Observe, ObserveStageStarted, ObserveStageCleared,
         ObserveTeamDefeated, ObserveRewardOptions, ObserveRewardApplied, ObserveDisconnect
<1>8. /\ responses' = [responses EXCEPT ![p] = n] /\ UNCHANGED <<cleared, offered>>
      /\ IF n = Due(p) THEN Enters(p, "ready") /\ Send(p, <<"ready">>)
         ELSE /\ UNCHANGED phase
              /\ Send(p, IF scenario[p] = "invalid" THEN <<"choose">> ELSE <<>>)
  BY <1>2, <1>3, <1>4, <1>7 DEF ObserveRewardApplied, Due
<1> QED
  BY <1>1, <1>2, <1>3, <1>4, <1>8 DEF Send, Enters, FlowTypeOK

\* A client never errs: it is one message further in its script.
LEMMA ClientFollows ==
    ASSUME FlowTypeOK, EventsFit, NEW p \in Players, Client(p), PhaseFits(p), InboxFits(p),
           ToldFits(p)
    PROVE  /\ Pos(p)' = Pos(p) + 1 /\ PhaseFits(p)' /\ phase'[p] # "error"
<1>1. /\ number' = number /\ stage' = stage /\ Due(p)' = Due(p) /\ Due(p) \in {1, 2}
      /\ Pos(p) \in Nat /\ number \in Nat \ {0} /\ responses[p] \in Nat
  BY ClientView, ClientTyped
<1>2. CASE Pos(p) = 0
  <2>1. /\ phase'[p] = "combat" /\ cleared'[p] = number - 1 /\ ~offered'[p]
        /\ responses'[p] = 0
    BY <1>2, ClientStarts
  <2>2. Pos(p)' = 1
    BY <2>1 DEF Pos
  <2> QED
    BY <1>1, <1>2, <2>1, <2>2 DEF PhaseFits
<1>3. CASE Pos(p) = 1
  <2>1. /\ ~offered'[p] /\ responses'[p] = 0
        /\ IF stage = "Failed" THEN phase'[p] = "defeated"
           ELSE /\ cleared'[p] = number
                /\ phase'[p] = (IF number = MaxStage THEN "complete" ELSE "reward")
    BY <1>3, ClientEnds
  <2>2. Pos(p)' = 2
    BY <1>1, <2>1 DEF Pos
  <2> QED
    BY <1>1, <1>3, <2>1, <2>2 DEF PhaseFits
<1>4. CASE Pos(p) = 2
  <2>1. /\ phase'[p] = "reward" /\ cleared'[p] = number /\ offered'[p] /\ responses'[p] = 0
    BY <1>4, ClientChooses
  <2>2. Pos(p)' = 3
    BY <1>1, <2>1 DEF Pos
  <2> QED
    BY <1>1, <1>4, <2>1, <2>2 DEF PhaseFits
<1>5. CASE Pos(p) >= 3
  <2>1. /\ cleared'[p] = number /\ offered'[p] /\ Pos(p) = 3 + responses[p]
        /\ responses'[p] = responses[p] + 1 /\ responses[p] + 1 <= Due(p)
        /\ phase'[p] = (IF responses[p] + 1 = Due(p) THEN "ready" ELSE "reward")
    BY <1>5, ClientHears
  <2>2. Pos(p)' = 3 + (responses[p] + 1)
    BY <1>1, <2>1 DEF Pos
  <2> QED
    BY <1>1, <1>5, <2>1, <2>2 DEF PhaseFits
<1> QED
  BY <1>1, <1>2, <1>3, <1>4, <1>5

\* So what it has seen, what is on its way and what it was told still fit.
LEMMA ClientTakes ==
    ASSUME FlowTypeOK, EventsFit, NEW p \in Players, Client(p), PhaseFits(p), InboxFits(p),
           ToldFits(p)
    PROVE  /\ PhaseFits(p)' /\ InboxFits(p)' /\ ToldFits(p)' /\ phase'[p] # "error"
           /\ Pos(p)' = Pos(p) + 1 /\ Told(p)' = Told(p)
<1>1. Pos(p)' = Pos(p) + 1 /\ PhaseFits(p)' /\ phase'[p] # "error"
  BY ClientFollows
<1>2. /\ Len(inbox[p]) \in Nat \ {0} /\ Len(inbox'[p]) = Len(inbox[p]) - 1
      /\ \A k \in 1..Len(inbox'[p]) : inbox'[p][k] = inbox[p][k + 1]
      /\ SameStage /\ scenario' = scenario /\ Heard' = Heard /\ InRound' = InRound
      /\ Due(p)' = Due(p)
  BY ClientView
<1>3. Pos(p) \in Nat /\ Told(p) = Pos(p) + Len(inbox[p]) /\ Told(p) \in Nat
  BY ClientTyped DEF Told
<1>4. Told(p)' = Told(p)
  BY <1>1, <1>2, <1>3 DEF Told
<1>5. ToldFits(p)'
  BY <1>1, <1>2, <1>3, <1>4 DEF ToldFits
<1>6. InboxFits(p)'
  <2>1. SUFFICES ASSUME NEW k \in 1..Len(inbox'[p]) PROVE inbox'[p][k] = Script(p, Pos(p) + k)'
    BY DEF InboxFits
  <2>2. PICK h : h = Pos(p) + (k + 1)
    OBVIOUS
  <2>3. Pos(p)' + k = h
    BY <1>1, <1>3, <2>2
  <2>4. Script(p, Pos(p) + k)' = Script(p, h)'
    BY <2>3 DEF Script, News
  <2>5. Script(p, h)' = Script(p, h)
    BY <1>2, SameScript
  <2>6. inbox'[p][k] = inbox[p][k + 1] /\ k + 1 \in 1..Len(inbox[p])
    BY <1>2
  <2>7. inbox[p][k + 1] = Script(p, h)
    BY <2>2, <2>6 DEF InboxFits
  <2> QED
    BY <2>4, <2>5, <2>6, <2>7
<1> QED
  BY <1>1, <1>4, <1>5, <1>6

-----------------------------------------------------------------------------
(* The line of updates *)

\* The line, with an update in hand that has not been sent and without one.
LEMMA LineView ==
    ASSUME FlowTypeOK
    PROVE  /\ Line \in Seq(Update) /\ Len(Line) \in Nat
           /\ notice = Nothing \/ notice.sent => Line = updates
           /\ notice # Nothing /\ ~notice.sent =>
                  Line # <<>> /\ Head(Line) = notice.update /\ Tail(Line) = updates
<1>1. updates \in Seq(Update) /\ (notice # Nothing => notice \in Notice)
  BY DEF FlowTypeOK
<1>2. CASE notice = Nothing \/ notice.sent
  <2>1. InHand = <<>>
    BY <1>2 DEF InHand
  <2>2. Line = updates
    BY <1>1, <2>1, ConcatEmptySeq DEF Line
  <2> QED
    BY <1>1, <1>2, <2>2, LenProperties
<1>3. CASE notice # Nothing /\ ~notice.sent
  <2>1. InHand = <<notice.update>> /\ notice.update \in Update
    BY <1>1, <1>3, NoticeTypes DEF InHand
  <2>2. Line = <<notice.update>> \o updates /\ <<notice.update>> \in Seq(Update)
    BY <2>1 DEF Line
  <2>3. Line \in Seq(Update) /\ Line # <<>>
    BY <1>1, <2>1, <2>2, ConcatElements, ConcatEqualIffEmpty
  <2>4. Head(Line) = notice.update /\ Tail(Line) = updates
    BY <1>1, <2>1, <2>2
  <2> QED
    BY <1>3, <2>3, <2>4, LenProperties
<1> QED
  BY <1>2, <1>3

\* What an update put behind the others does to the line.
LEMMA LineGrows ==
    ASSUME FlowTypeOK, NEW b \in Seq(Update), updates' = updates \o b, UNCHANGED notice
    PROVE  Line' = Line \o b
<1>1. InHand \in Seq(Update) /\ updates \in Seq(Update) /\ InHand' = InHand
  BY NoticeTypes DEF FlowTypeOK, InHand
<1> QED
  BY <1>1, ConcatAssociative DEF Line

\* An update that is sent leaves the line.
LEMMA LineSends ==
    ASSUME FlowTypeOK, SendNotice
    PROVE  Line # <<>> /\ Line' = Tail(Line) /\ Head(Line) = notice.update
<1>1. /\ notice # Nothing /\ ~notice.sent /\ notice \in Notice /\ updates' = updates
      /\ Line # <<>> /\ Head(Line) = notice.update /\ Tail(Line) = updates
  BY LineView DEF SendNotice, FlowTypeOK, roomVars
<1>2. notice' \in {Nothing, [notice EXCEPT !.sent = TRUE]}
  BY DEF SendNotice
<1>3. notice' = Nothing \/ notice'.sent
  BY <1>1, <1>2 DEF Notice
<1>4. Line' = updates
  BY <1>1, <1>3, ConcatEmptySeq DEF Line, InHand, FlowTypeOK
<1> QED
  BY <1>1, <1>4

\* How a step changes the line.
LEMMA LineSteps ==
    ASSUME FlowTypeOK, [Next]_vars
    PROVE  \/ Line' = Line
           \/ SendNotice /\ Line # <<>> /\ Line' = Tail(Line) /\ Head(Line) = notice.update
           \/ TakeUpdate /\ Line # <<>> /\ Line' = Tail(Line) /\ ~IsOpen(Head(Line).to)
           \/ (\E n \in AllStages : Opens(n))
                  /\ Line' = Line \o SetToSeq({Options(p) : p \in members})
           \/ Deadline /\ Line' = Line \o SetToSeq({Applied(p, "first") : p \in owed})
           \/ ApplyChoice /\ Settle({Head(choices).player})
                  /\ Line' = Line \o <<Applied(Head(choices).player, "chosen")>>
<1>1. UNCHANGED <<notice, updates>> => Line' = Line
  BY DEF Line, InHand
<1>2. CASE UNCHANGED vars \/ Fights \/ ObserveEvent \/ Reject
  BY <1>1, <1>2 DEF vars, roomVars, workVars, Fights, FightEnds, ObserveEvent, Reject
<1>3. CASE Deadline
  <2>1. SetToSeq({Applied(p, "first") : p \in owed}) \in Seq(Update)
    BY BatchTypes, RoundUpdates DEF FlowTypeOK
  <2> QED
    BY <1>3, <2>1, LineGrows DEF Deadline, workVars
<1>4. CASE ApplyChoice
  <2>1. CASE UNCHANGED updates
    BY <1>1, <1>4, <2>1 DEF ApplyChoice
  <2>2. CASE Settle({Head(choices).player})
             /\ updates' = Append(updates, Applied(Head(choices).player, "chosen"))
    <3>0. Head(choices) \in Choice /\ UNCHANGED notice
      BY <1>4, TailElements DEF ApplyChoice, FlowTypeOK
    <3>1. Head(choices).player \in Players
      BY <3>0 DEF Choice
    <3>2. Applied(Head(choices).player, "chosen") \in Update
      BY <3>1, NewUpdateTypes DEF FlowTypeOK
    <3>3. /\ updates' = updates \o <<Applied(Head(choices).player, "chosen")>>
          /\ <<Applied(Head(choices).player, "chosen")>> \in Seq(Update)
      <4> DEFINE e == Applied(Head(choices).player, "chosen")
      <4>1. e \in Update
        BY <3>2
      <4>2. updates \in Seq(Update)
        BY DEF FlowTypeOK
      <4>3. updates' = Append(updates, e)
        BY <2>2
      <4> HIDE DEF e
      <4>4. Append(updates, e) = updates \o <<e>> /\ <<e>> \in Seq(Update)
        BY <4>1, <4>2, AppendIsConcat
      <4> QED
        BY <4>3, <4>4 DEF e
    <3>4. Line' = Line \o <<Applied(Head(choices).player, "chosen")>>
      BY <3>0, <3>3, LineGrows
    <3> QED
      BY <1>4, <2>2, <3>4
  <2> QED
    BY <1>4, <2>1, <2>2 DEF ApplyChoice
<1>5. CASE TakeUpdate
  <2>1. /\ notice = Nothing /\ updates # <<>> /\ updates' = Tail(updates) /\ Line = updates
        /\ Head(updates) \in Update
    BY <1>5, LineView, TailElements DEF TakeUpdate, FlowTypeOK
  <2>2. CASE IsOpen(Head(updates).to)
    <3>1. notice' = [update |-> Head(updates), sent |-> FALSE]
      BY <1>5, <2>2 DEF TakeUpdate, IsOpen
    <3>2. notice' # Nothing /\ ~notice'.sent /\ notice'.update = Head(updates)
      BY <2>1, <3>1, NoticeTypes
    <3>3. Line' = <<Head(updates)>> \o Tail(updates)
      BY <2>1, <3>2 DEF Line, InHand
    <3>4. <<Head(updates)>> \o Tail(updates) = updates
      BY <2>1 DEF FlowTypeOK
    <3> QED
      BY <2>1, <3>3, <3>4
  <2>3. CASE ~IsOpen(Head(updates).to)
    <3>1. notice' = Nothing
      BY <1>5, <2>3 DEF TakeUpdate, IsOpen
    <3>2. Line' = Tail(updates)
      BY <2>1, <3>1, TailElements, ConcatEmptySeq DEF Line, InHand, FlowTypeOK
    <3> QED
      BY <1>5, <2>1, <2>3, <3>2
  <2> QED
    BY <2>2, <2>3
<1>6. CASE SendNotice
  BY <1>6, LineSends
<1>7. CASE MarkDelivered
  <2>1. notice # Nothing /\ notice.sent /\ notice' = Nothing /\ updates' = updates
    BY <1>7 DEF MarkDelivered, roomVars
  <2> QED
    BY <2>1 DEF Line, InHand
<1>8. ASSUME NEW n \in AllStages, Begin(n)
      PROVE  \/ Line' = Line
             \/ Opens(n) /\ Line' = Line \o SetToSeq({Options(p) : p \in members})
  <2>1. CASE UNCHANGED updates
    BY <1>1, <1>8, <2>1
       DEF Begin, BeginRewardStage, StartReward, EnterSnapshot, EnterReward, Opens
  <2>2. CASE Opens(n)
    <3>1. SetToSeq({Options(p) : p \in members}) \in Seq(Update)
      BY BatchTypes, RoundUpdates DEF FlowTypeOK
    <3>2. updates' = updates \o SetToSeq({Options(p) : p \in members}) /\ UNCHANGED notice
      BY <2>2 DEF Opens, StartReward, OpenRound
    <3> QED
      BY <2>2, <3>1, <3>2, LineGrows
  <2> QED
    BY <1>8, <2>1, <2>2
       DEF Begin, BeginRewardStage, StartReward, EnterSnapshot, EnterReward, Opens, roomVars
<1>9. CASE Advance
  BY <1>1, <1>9
     DEF Advance, Decide, StartStage, LeaveSnapshot, LeaveReward, EndAdvance, roomVars
<1>10. CASE \E p \in Players : \/ Handle(p) \/ Client(p) \/ Hangup(p) \/ Disconnected(p)
                               \/ LeaveRoom(p)
  BY <1>1, <1>10 DEF Handle, HandleRewardChoice, HandleNextStageRequest, TryAdvanceStage, Client,
                     Hangup, Disconnected, LeaveRoom, roomVars, workVars
<1> QED
  BY <1>2, <1>3, <1>4, <1>5, <1>6, <1>7, <1>8, <1>9, <1>10 DEF Next, Fights, ObserveRewards

\* Connections that end leave the line in order.
LEMMA OrderedLater ==
    ASSUME NEW line, Ordered(line), \A p : IsOpen(p)' => IsOpen(p)
    PROVE  Ordered(line)'
BY DEF Ordered, IsOpen

\* The line is in order behind its head.
LEMMA OrderedTail ==
    ASSUME NEW line \in Seq(Update), line # <<>>, Ordered(line)
    PROVE  /\ Ordered(Tail(line))
           /\ \A k \in 1..Len(Tail(line)) :
                  /\ Tail(line)[k] = line[k + 1] /\ k + 1 \in 1..Len(line) /\ k + 1 # 1
                  /\ IsOpen(Head(line).to) /\ Tail(line)[k].to = Head(line).to
                         => Tail(line)[k].kind # Head(line).kind
                  /\ IsOpen(Head(line).to) /\ IsOpen(Tail(line)[k].to) /\ Head(line).kind = "applied"
                         => Tail(line)[k].kind = "applied"
<1>1. /\ Head(line) = line[1] /\ Len(line) \in Nat \ {0} /\ Len(Tail(line)) = Len(line) - 1
      /\ \A k \in 1..Len(Tail(line)) : Tail(line)[k] = line[k + 1]
  BY TailElements
<1>2. \A k \in 1..Len(Tail(line)) : k + 1 \in 1..Len(line) /\ k + 1 # 1 /\ 1 < k + 1
  BY <1>1
<1>3. \A j, k \in 1..Len(Tail(line)) : (j + 1 = k + 1 => j = k) /\ (j < k => j + 1 < k + 1)
  BY <1>1
<1>4. 1 \in 1..Len(line)
  BY <1>1
<1>5. Ordered(Tail(line))
  BY <1>1, <1>2, <1>3 DEF Ordered
<1>6. ASSUME NEW k \in 1..Len(Tail(line))
      PROVE  /\ IsOpen(Head(line).to) /\ Tail(line)[k].to = Head(line).to
                    => Tail(line)[k].kind # Head(line).kind
             /\ IsOpen(Head(line).to) /\ IsOpen(Tail(line)[k].to) /\ Head(line).kind = "applied"
                    => Tail(line)[k].kind = "applied"
  <2>1. Tail(line)[k] = line[k + 1] /\ k + 1 \in 1..Len(line) /\ k + 1 # 1 /\ 1 < k + 1
    BY <1>1, <1>2
  <2> QED
    BY <1>1, <1>4, <2>1 DEF Ordered
<1> QED
  BY <1>1, <1>2, <1>5, <1>6

\* Behind a line, a batch keeps the order if it is in order itself, repeats
\* nothing, and is of applied choices unless no connected player is before it.
LEMMA OrderedBatch ==
    ASSUME NEW line \in Seq(Update), NEW b \in Seq(Update), Ordered(line), Ordered(b),
           \A j \in 1..Len(line), k \in 1..Len(b) :
               IsOpen(line[j].to) => /\ ~(line[j].to = b[k].to /\ line[j].kind = b[k].kind)
                                     /\ b[k].kind = "applied"
    PROVE  /\ Ordered(line \o b)
           /\ \A k \in 1..Len(line \o b) :
                  \/ k \in 1..Len(line) /\ (line \o b)[k] = line[k]
                  \/ \E i \in 1..Len(b) : k = Len(line) + i /\ (line \o b)[k] = b[i]
<1> DEFINE l == line \o b
           n == Len(line)
<1>1. /\ n \in Nat /\ Len(b) \in Nat /\ Len(l) = n + Len(b)
      /\ \A k \in 1..n : l[k] = line[k]
      /\ \A i \in 1..Len(b) : l[n + i] = b[i]
  BY ConcatElements
<1>2. ASSUME NEW k \in 1..Len(l)
      PROVE  \/ k \in 1..n /\ l[k] = line[k]
             \/ \E i \in 1..Len(b) : k = n + i /\ l[k] = b[i]
  <2>1. CASE k <= n
    BY <1>1, <2>1
  <2>2. CASE ~(k <= n)
    <3>1. k - n \in 1..Len(b) /\ n + (k - n) = k
      BY <1>1, <2>2
    <3> QED
      BY <1>1, <3>1
  <2> QED
    BY <2>1, <2>2
<1>3. ASSUME NEW j \in 1..Len(l), NEW k \in 1..Len(l),
             IsOpen(l[j].to), l[j].to = l[k].to, l[j].kind = l[k].kind
      PROVE  j = k
  <2>1. CASE j \in 1..n /\ l[j] = line[j] /\ k \in 1..n /\ l[k] = line[k]
    BY <1>3, <2>1 DEF Ordered
  <2>2. ASSUME NEW i \in 1..Len(b), j \in 1..n, l[j] = line[j], l[k] = b[i] PROVE FALSE
    BY <1>3, <2>2
  <2>3. ASSUME NEW i \in 1..Len(b), k \in 1..n, l[k] = line[k], l[j] = b[i] PROVE FALSE
    BY <1>3, <2>3
  <2>4. ASSUME NEW h \in 1..Len(b), NEW i \in 1..Len(b), l[j] = b[h], l[k] = b[i],
               j = n + h, k = n + i
        PROVE  j = k
    BY <1>3, <2>4 DEF Ordered
  <2> QED
    BY <1>2, <2>1, <2>2, <2>3, <2>4
<1>4. ASSUME NEW j \in 1..Len(l), NEW k \in 1..Len(l), j < k, IsOpen(l[j].to), IsOpen(l[k].to),
             l[j].kind = "applied"
      PROVE  l[k].kind = "applied"
  <2>1. CASE j \in 1..n /\ l[j] = line[j] /\ k \in 1..n /\ l[k] = line[k]
    BY <1>4, <2>1 DEF Ordered
  <2>2. ASSUME NEW i \in 1..Len(b), j \in 1..n, l[j] = line[j], l[k] = b[i]
        PROVE  l[k].kind = "applied"
    BY <1>4, <2>2
  <2>3. ASSUME NEW h \in 1..Len(b), k \in 1..n, j = n + h PROVE FALSE
    BY <1>1, <1>4, <2>3
  <2>4. ASSUME NEW h \in 1..Len(b), NEW i \in 1..Len(b), l[j] = b[h], l[k] = b[i],
               j = n + h, k = n + i
        PROVE  l[k].kind = "applied"
    <3>1. h < i
      BY <1>1, <1>4, <2>4
    <3> QED
      BY <1>4, <2>4, <3>1 DEF Ordered
  <2> QED
    BY <1>2, <2>1, <2>2, <2>3, <2>4
<1>5. Ordered(l)
  BY <1>3, <1>4 DEF Ordered
<1> QED
  BY <1>2, <1>5

\* The updates of a whole round name every player once.
LEMMA RoundOrdered ==
    ASSUME FlowTypeOK, NEW W \in SUBSET Players, NEW U,
           U = {Options(p) : p \in W} \/ U = {Applied(p, "first") : p \in W}
    PROVE  /\ SetToSeq(U) \in Seq(Update) /\ Ordered(SetToSeq(U))
           /\ \A k \in 1..Len(SetToSeq(U)) : SetToSeq(U)[k] \in U
           /\ \A u \in U : \E k \in 1..Len(SetToSeq(U)) : SetToSeq(U)[k] = u
<1>1. U \subseteq Update /\ IsFiniteSet(U)
  BY RoundUpdates
<1>2. /\ SetToSeq(U) \in Seq(U) /\ SetToSeq(U) \in Seq(Update)
      /\ \A j, k \in 1..Len(SetToSeq(U)) : SetToSeq(U)[j] = SetToSeq(U)[k] => j = k
      /\ \A u \in U : \E k \in 1..Len(SetToSeq(U)) : SetToSeq(U)[k] = u
  BY <1>1, SetToSeqElements, BatchTypes
<1>3. \A k \in 1..Len(SetToSeq(U)) : SetToSeq(U)[k] \in U
  BY <1>2, ElementOfSeq
<1>4. \A u, v \in U : /\ u.to = v.to => u = v
                      /\ u.kind = "applied" => v.kind = "applied"
  BY DEF Options, Applied
<1>5. Ordered(SetToSeq(U))
  <2> DEFINE line == SetToSeq(U)
  <2>1. \A j, k \in 1..Len(line) : line[j] = line[k] => j = k
    BY <1>2
  <2>2. \A k \in 1..Len(line) : line[k] \in U
    BY <1>3
  <2> HIDE DEF line
  <2>3. ASSUME NEW j \in 1..Len(line), NEW k \in 1..Len(line), line[j].to = line[k].to
        PROVE  j = k
    <3>1. line[j] \in U /\ line[k] \in U
      BY <2>2
    <3>2. line[j] = line[k]
      BY <1>4, <2>3, <3>1
    <3> QED
      BY <2>1, <3>2
  <2>4. ASSUME NEW j \in 1..Len(line), NEW k \in 1..Len(line), line[j].kind = "applied"
        PROVE  line[k].kind = "applied"
    <3>1. line[j] \in U /\ line[k] \in U
      BY <2>2
    <3> QED
      BY <1>4, <2>4, <3>1
  <2>5. Ordered(line)
    BY <2>3, <2>4 DEF Ordered
  <2> QED
    BY <2>5 DEF line
<1> QED
  BY <1>2, <1>3, <1>5

-----------------------------------------------------------------------------
(* What the server tells a client *)

\* The choices of a player that are not answered are counted.
LEMMA LoadTyped ==
    ASSUME FlowTypeOK, NEW p \in Players
    PROVE  /\ IsFiniteSet(Places(p)) /\ Cardinality(Places(p)) \in Nat
           /\ Unread(p) \in Nat /\ Len(outbox[p]) \in Nat /\ Load(p) \in Nat
           /\ Unread(p) <= Load(p)
           /\ Places(p) # {} => Load(p) >= 1 + Unread(p) /\ Cardinality(Places(p)) >= 1
           /\ Rejected(p) => Load(p) >= 1
           /\ Places(p) # {} /\ Rejected(p) => Load(p) >= 2
           /\ Allowance(p) \in {0, 1, 2}
<1>1. choices \in Seq(Choice) /\ outbox[p] \in Seq(Requests)
  BY DEF FlowTypeOK
<1>2. Len(choices) \in Nat /\ DOMAIN choices = 1..Len(choices) /\ Len(outbox[p]) \in Nat
  BY <1>1, LenProperties
<1>3. IsFiniteSet(1..Len(choices)) /\ Places(p) \in SUBSET (1..Len(choices))
  BY <1>2, FS_Interval DEF Places
<1>4. IsFiniteSet(Places(p)) /\ Cardinality(Places(p)) \in Nat
  BY <1>3, FS_Subset, FS_CardinalityType
<1>5. Places(p) # {} => Cardinality(Places(p)) # 0
  BY <1>4, FS_EmptySet
<1>6. Unread(p) \in Nat
  BY <1>2 DEF Unread
<1>7. Allowance(p) \in {0, 1, 2}
  BY DEF Allowance
<1> DEFINE x == Unread(p)
           y == Cardinality(Places(p))
           z == IF Rejected(p) THEN 1 ELSE 0
<1>8. Load(p) = x + y + z /\ z \in Nat /\ (Rejected(p) => z = 1)
  BY DEF Load
<1> HIDE DEF x, y, z
<1>9. x \in Nat /\ y \in Nat /\ (Places(p) # {} => y # 0)
  BY <1>4, <1>5, <1>6 DEF x, y
<1>10. Load(p) \in Nat /\ x <= Load(p) /\ (y # 0 => Load(p) >= 1 + x /\ y >= 1)
       /\ (z = 1 => Load(p) >= 1) /\ (y # 0 /\ z = 1 => Load(p) >= 2)
  BY <1>8, <1>9
<1> QED
  BY <1>2, <1>4, <1>6, <1>7, <1>8, <1>9, <1>10 DEF x, y

\* When an answer may be on its way to a player.
LEMMA LoadAllowed ==
    ASSUME FlowTypeOK, NEW p \in Players, LoadFits(p), Load(p) >= 1
    PROVE  /\ InRound /\ Pos(p) >= 3 /\ scenario[p] # "timeout"
           /\ scenario[p] = "normal" => p \in owed
           /\ scenario[p] = "invalid" => p \in owed /\ Told(p) = Pos(p)
           /\ scenario[p] = "duplicate" => p \in owed \/ Told(p) # 5
<1>1. Load(p) <= Allowance(p) /\ Load(p) \in Nat /\ Allowance(p) \in {0, 1, 2}
  BY LoadTyped DEF LoadFits
<1>2. Allowance(p) # 0
  BY <1>1
<1> QED
  BY <1>2, ClientTyped DEF Allowance

\* The observer of the rewards tells a player the next of its messages.
LEMMA NoticeNext ==
    ASSUME FlowTypeOK, LineFits, NEW p \in Players, IsOpen(p), SendNotice, notice.update.to = p,
           ToldFits(p), OwesFits(p), OptionsFit(p)
    PROVE  /\ InRound /\ Wording(notice.update) = Script(p, Told(p) + 1)
           /\ \/ notice.update.kind = "options" /\ Told(p) = 2
              \/ notice.update.kind = "applied" /\ Told(p) = AppliedAt(p) - 1 /\ p \notin owed
<1> DEFINE u == notice.update
<1>1. /\ Line \in Seq(Update) /\ Line # <<>> /\ Head(Line) = u /\ u \in Update
  BY LineView, NoticeTypes DEF SendNotice, FlowTypeOK
<1>2. Line[1] = u /\ 1 \in 1..Len(Line)
  BY <1>1, TailElements
<1>3. Timely(u) /\ u.to = p
  BY <1>2 DEF LineFits
<1>4. /\ InRound /\ u.index = number
      /\ u.kind = "options" => Told(p) = 2
      /\ u.kind = "applied" => /\ p \notin owed /\ Told(p) < AppliedAt(p)
                               /\ u.item = IF scenario[p] = "timeout" THEN "first" ELSE "chosen"
  BY <1>3 DEF Timely
<1>5. CASE u.kind = "options"
  <2>1. Wording(u) = StageMessage("options", number)
    BY <1>4, <1>5 DEF Wording
  <2> QED
    BY <1>4, <1>5, <2>1 DEF Script
<1>6. CASE u.kind = "applied"
  <2>1. Told(p) # 2
    <3>1. SUFFICES ASSUME Told(p) = 2 PROVE FALSE
      OBVIOUS
    <3>2. PICK k \in 1..Len(Line) : Line[k].kind = "options" /\ Line[k].to = p
      BY <1>4, <3>1 DEF OptionsFit
    <3>3. k # 1 /\ 1 < k
      BY <1>2, <1>6, <3>2
    <3> QED
      BY <1>2, <1>3, <1>6, <3>2, <3>3 DEF LineFits, Ordered
  <2>2. /\ Told(p) \in Nat /\ Pos(p) \in Nat /\ Pos(p) <= Told(p) /\ Told(p) >= 3
        /\ AppliedAt(p) \in {4, 5}
    BY <1>4, <2>1, ClientTyped DEF ToldFits, AppliedAt
  <2>3. Told(p) >= AppliedAt(p) - 1
    <3>1. CASE scenario[p] = "timeout"
      BY <2>2, <3>1 DEF AppliedAt
    <3>2. CASE scenario[p] # "timeout"
      BY <1>4, <1>6, <2>2, <3>2 DEF OwesFits
    <3> QED
      BY <3>1, <3>2
  <2>4. Told(p) = AppliedAt(p) - 1
    BY <1>4, <1>6, <2>2, <2>3
  <2>5. Wording(u) = RewardApplied("ok", IF scenario[p] = "timeout" THEN "first" ELSE "chosen")
    BY <1>4, <1>6 DEF Wording
  <2>6. Script(p, Told(p) + 1) = Answers[scenario[p]][AppliedAt(p) - 3]
    BY <2>2, <2>4 DEF Script
  <2>7. Answers[scenario[p]][AppliedAt(p) - 3]
            = RewardApplied("ok", IF scenario[p] = "timeout" THEN "first" ELSE "chosen")
    BY ScenarioFacts DEF AppliedAt
  <2> QED
    BY <1>4, <1>6, <2>4, <2>5, <2>6, <2>7
<1> QED
  BY <1>1, <1>5, <1>6, UpdateTypes

\* A refusal is the next of a player's messages: without delay for the choice
\* that was never offered, after the answer to the first for the second.
LEMMA RefusalNext ==
    ASSUME FlowTypeOK, ~Lagging, NEW p \in Players, IsOpen(p), NEW r \in rejecting, RejectOf(r),
           r.player = p, ToldFits(p), OwesFits(p), LoadFits(p), DeliveredFits(p)
    PROVE  /\ InRound /\ RewardApplied("refused", r.item) = Script(p, Told(p) + 1) /\ Pos(p) >= 3
           /\ \/ scenario[p] = "invalid" /\ Told(p) = 3 /\ Pos(p) = 3 /\ p \in owed
              \/ scenario[p] = "duplicate" /\ Told(p) = 4 /\ p \notin owed /\ p \in delivered
<1>1. Load(p) >= 1
  BY LoadTyped DEF Rejected
<1>2. /\ InRound /\ Pos(p) >= 3
      /\ scenario[p] = "invalid" => p \in owed /\ Told(p) = Pos(p)
      /\ scenario[p] = "duplicate" => p \in owed \/ Told(p) # 5
  BY <1>1, LoadAllowed
<1>3. \/ scenario[p] = "invalid" /\ Pos(p) = 3 /\ r.item = "unoffered" /\ ~r.waits
      \/ scenario[p] = "duplicate" /\ r.item = "chosen" /\ r.waits
  BY DEF LoadFits
<1>4. CASE scenario[p] = "invalid"
  <2>1. Told(p) = 3 /\ Pos(p) = 3 /\ p \in owed /\ r.item = "unoffered"
    BY <1>2, <1>3, <1>4
  <2>2. Script(p, Told(p) + 1) = Answers[scenario[p]][1]
    BY <2>1 DEF Script
  <2> QED
    BY <1>2, <1>4, <2>1, <2>2, ScenarioFacts
<1>5. CASE scenario[p] = "duplicate"
  <2>1. r.item = "chosen" /\ r.waits
    BY <1>3, <1>5
  <2>2. p \in delivered
    BY <2>1 DEF RejectOf, MayReject, IsOpen
  <2>3. Told(p) >= 4 /\ Told(p) <= 5 /\ Told(p) \in Nat
    BY <1>2, <1>5, <2>2, ClientTyped, ScenarioFacts DEF DeliveredFits, ToldFits
  <2>4. p \notin owed
    BY <1>2, <1>5, <2>3 DEF OwesFits, AppliedAt
  <2>5. Told(p) = 4
    BY <1>2, <1>5, <2>3, <2>4
  <2>6. Script(p, Told(p) + 1) = Answers[scenario[p]][2]
    BY <2>5 DEF Script
  <2> QED
    BY <1>2, <1>5, <2>1, <2>2, <2>4, <2>5, <2>6, ScenarioFacts
<1> QED
  BY <1>3, <1>4, <1>5

\* The ways to tell an open player something, and what is told.
LEMMA HearsNext ==
    ASSUME FlowTypeOK, EventsFit, LineFits, ~Lagging, NEW p \in Players, IsOpen(p), Hears(p),
           ToldFits(p), OwesFits(p), LoadFits(p), OptionsFit(p), DeliveredFits(p)
    PROVE  /\ SameStage /\ number' = number /\ owed' = owed /\ stage' = stage
           /\ \E m \in Message : Told1(p, m) /\ m = Script(p, Told(p) + 1)
           /\ \/ ObserveEvent /\ ~InRound /\ Heard' = Heard + 1
              \/ /\ SendNotice /\ InRound /\ notice.update.to = p
                 /\ \/ notice.update.kind = "options" /\ Told(p) = 2
                    \/ notice.update.kind = "applied" /\ Told(p) = AppliedAt(p) - 1 /\ p \notin owed
              \/ /\ Reject /\ InRound /\ Pos(p) >= 3
                 /\ \E r \in rejecting : RejectOf(r) /\ r.player = p
                 /\ \/ scenario[p] = "invalid" /\ Told(p) = 3 /\ Pos(p) = 3 /\ p \in owed
                    \/ scenario[p] = "duplicate" /\ Told(p) = 4 /\ p \notin owed /\ p \in delivered
<1>1. UNCHANGED stagesVars
  BY DEF Hears, ObserveEvent, SendNotice, Reject, roomVars
<1>2. SameStage /\ number' = number /\ owed' = owed /\ stage' = stage
  BY <1>1 DEF SameStage, stagesVars
<1>3. CASE ObserveEvent /\ Told1(p, Head(events))
  <2>1. /\ ~InRound /\ Heard' = Heard + 1 /\ Head(events) = News(Heard + 1) /\ Heard \in {0, 1}
    BY <1>3, EventsTaken
  <2>2. Told(p) = Heard
    BY <2>1 DEF ToldFits
  <2>3. Head(events) = Script(p, Told(p) + 1)
    BY <2>1, <2>2 DEF Script
  <2>4. Head(events) \in Message
    BY <1>3, TailElements, MessageTypes DEF ObserveEvent, FlowTypeOK
  <2> QED
    BY <1>2, <1>3, <2>1, <2>3, <2>4
<1>4. CASE SendNotice /\ notice.update.to = p /\ Told1(p, Wording(notice.update))
  <2>1. Wording(notice.update) \in Message
    BY <1>4, NoticeTypes, UpdateTypes DEF SendNotice, FlowTypeOK
  <2> QED
    BY <1>2, <1>4, <2>1, NoticeNext
<1>5. ASSUME NEW r \in rejecting, Reject, RejectOf(r), r.player = p,
             Told1(p, RewardApplied("refused", r.item))
      PROVE  /\ \E m \in Message : Told1(p, m) /\ m = Script(p, Told(p) + 1)
             /\ Reject /\ InRound /\ Pos(p) >= 3
             /\ \/ scenario[p] = "invalid" /\ Told(p) = 3 /\ Pos(p) = 3 /\ p \in owed
                \/ scenario[p] = "duplicate" /\ Told(p) = 4 /\ p \notin owed /\ p \in delivered
  <2>1. RewardApplied("refused", r.item) \in Message
    BY <1>5, MessageTypes DEF FlowTypeOK, Refusal
  <2> QED
    BY <1>5, <2>1, RefusalNext
<1> QED
  BY <1>2, <1>3, <1>4, <1>5 DEF Hears

-----------------------------------------------------------------------------
(* The clients keep to the script *)

\* What the invariant says of a connected player.
LEMMA OpenInv ==
    ASSUME FlowInv, NEW p \in Players, IsOpen(p)
    PROVE  /\ FlowTypeOK /\ EventsFit /\ OwedFits /\ MembersFit /\ BeginsFit /\ AdvancesFit
           /\ BeginsInTime /\ AdvancesInTime /\ LineFits /\ PhaseFits(p) /\ InboxFits(p)
           /\ ToldFits(p) /\ OwesFits(p) /\ LoadFits(p) /\ OptionsFit(p)
           /\ RewardedFits(p) /\ DeliveredFits(p) /\ ReadyFits(p) /\ SessionFits(p)
BY DEF FlowInv, RoomFits, ClientFits, IsOpen

\* The steps, as far as a client that stays connected is concerned.
LEMMA StepViews ==
    ASSUME FlowInv, [Next]_vars, NEW p \in Players, IsOpen(p)'
    PROVE  /\ IsOpen(p)
           /\ \/ /\ Untouched(p) /\ SameStage /\ Heard' = Heard /\ number' = number
                 /\ InRound' = InRound /\ Pos(p)' = Pos(p) /\ Told(p)' = Told(p) /\ ~Client(p)
                 /\ Due(p)' = Due(p)
              \/ Hears(p)
              \/ Client(p)
              \/ Untouched(p) /\ Fights
              \/ Untouched(p) /\ \E n \in AllStages : Opens(n)
              \/ Untouched(p) /\ \E k \in DOMAIN advances : Starts(k)
<1>1. FlowTypeOK /\ EventsFit
  BY DEF FlowInv, RoomFits
<1>2. IsOpen(p)
  BY <1>1, ConnectedShrinks
<1>3. CASE Fights \/ (\E n \in AllStages : Opens(n)) \/ (\E k \in DOMAIN advances : Starts(k))
  <2>1. UNCHANGED botVars
    BY <1>3 DEF Fights, FightEnds, Opens, StartReward, Starts, StartStage
  <2>2. Untouched(p)
    BY <2>1 DEF botVars, Untouched
  <2> QED
    BY <1>2, <1>3, <2>2
<1>4. CASE SameStage /\ ~Fights /\ ~(\E k \in DOMAIN advances : Starts(k)) /\ Untouched(p) /\ ~Client(p)
  <2>1. ~ObserveEvent
    <3>1. SUFFICES ASSUME ObserveEvent PROVE FALSE
      OBVIOUS
    <3>2. Head(events) \in Message /\ Deliver(Players, Head(events))
      BY <1>1, <3>1, TailElements, MessageTypes DEF ObserveEvent, FlowTypeOK
    <3>3. inbox'[p] = Append(inbox[p], Head(events)) /\ inbox[p] \in Seq(Message)
      <4>1. conn[p] = "open"
        BY <1>2 DEF IsOpen
      <4>2. inbox[p] \in Seq(Message)
        BY <1>1 DEF FlowTypeOK
      <4>3. inbox'[p] = IF p \in Players /\ conn[p] = "open" THEN Append(inbox[p], Head(events))
                        ELSE inbox[p]
        BY <1>1, <3>2, DeliverEffect
      <4> QED
        BY <4>1, <4>2, <4>3
    <3>4. Len(inbox'[p]) = Len(inbox[p]) + 1 /\ Len(inbox[p]) \in Nat
      BY <3>2, <3>3, AppendElements
    <3> QED
      BY <1>4, <3>4 DEF Untouched
  <2>2. UNCHANGED events
    BY <1>1, <1>4, <2>1, EventSteps
  <2>3. Heard' = Heard /\ number' = number /\ InRound' = InRound
    BY <1>1, <1>4, <2>2, SameNews DEF Heard, SameStage
  <2> QED
    BY <1>2, <1>4, <2>3, UntouchedView
<1> QED
  BY <1>1, <1>2, <1>3, <1>4, StageSteps, ClientSteps

\* A client that is told something.
LEMMA HearsFit ==
    ASSUME FlowInv, ~Lagging, NEW p \in Players, IsOpen(p), Hears(p)
    PROVE  /\ PhaseFits(p)' /\ InboxFits(p)' /\ ToldFits(p)'
           /\ Pos(p)' = Pos(p) /\ Told(p)' = Told(p) + 1 /\ SameStage /\ number' = number
           /\ owed' = owed /\ InRound' = InRound
<1>1. /\ FlowTypeOK /\ EventsFit /\ LineFits /\ PhaseFits(p) /\ InboxFits(p) /\ ToldFits(p)
      /\ OwesFits(p) /\ LoadFits(p) /\ OptionsFit(p) /\ DeliveredFits(p)
  BY OpenInv
<1>2. SameStage /\ number' = number /\ owed' = owed /\ InRound' = InRound
  BY <1>1, HearsNext, SameNews
<1>3. PICK m \in Message : Told1(p, m) /\ m = Script(p, Told(p) + 1)
  BY <1>1, HearsNext
<1>4. PhaseFits(p)' /\ InboxFits(p)'
  BY <1>1, <1>2, <1>3, ToldFitsScript
<1>5. /\ Pos(p)' = Pos(p) /\ Told(p)' = Told(p) + 1 /\ Due(p)' = Due(p)
      /\ scenario'[p] = scenario[p]
  BY <1>1, <1>2, <1>3, ToldView DEF Told1
<1>6. /\ Pos(p) \in Nat /\ Told(p) \in Nat /\ Pos(p) <= Told(p) /\ Due(p) \in {1, 2}
      /\ scenario[p] \in {"invalid", "duplicate"} => Due(p) = 2
  BY <1>1, ClientTyped, ScenarioFacts
<1>7. ASSUME ~InRound, Heard' = Heard + 1 PROVE ToldFits(p)'
  BY <1>1, <1>2, <1>5, <1>7 DEF ToldFits
<1>8. ASSUME InRound, Told(p) = 2 PROVE ToldFits(p)'
  BY <1>1, <1>2, <1>5, <1>6, <1>8 DEF ToldFits
<1>9. ASSUME InRound, Told(p) = AppliedAt(p) - 1, p \notin owed PROVE ToldFits(p)'
  <2>1. scenario[p] # "timeout" => Pos(p) >= 3
    BY <1>1, <1>6, <1>9 DEF OwesFits, AppliedAt
  <2>2. Told(p) >= 3 /\ Told(p) + 1 <= 3 + Due(p)
    BY <1>6, <1>9 DEF AppliedAt
  <2> QED
    BY <1>2, <1>5, <1>6, <1>9, <2>1, <2>2 DEF ToldFits
<1>10. ASSUME InRound, Pos(p) >= 3, \/ scenario[p] = "invalid" /\ Told(p) = 3
                                    \/ scenario[p] = "duplicate" /\ Told(p) = 4
       PROVE  ToldFits(p)'
  BY <1>2, <1>5, <1>6, <1>10 DEF ToldFits
<1>11. ToldFits(p)'
  BY <1>1, <1>7, <1>8, <1>9, <1>10, HearsNext
<1> QED
  BY <1>2, <1>4, <1>5, <1>11

\* In every step, connected clients keep to the script.
LEMMA StepsFit ==
    ASSUME FlowInv, ~Lagging, [Next]_vars, NEW p \in Players, IsOpen(p)'
    PROVE  PhaseFits(p)' /\ InboxFits(p)' /\ ToldFits(p)'
<1>1. IsOpen(p)
  BY StepViews
<1>2. /\ FlowTypeOK /\ EventsFit /\ BeginsFit /\ AdvancesFit /\ AdvancesInTime
      /\ PhaseFits(p) /\ InboxFits(p) /\ ToldFits(p) /\ ReadyFits(p)
  BY <1>1, OpenInv
<1>3. CASE Untouched(p) /\ SameStage /\ Heard' = Heard
  BY <1>2, <1>3, UntouchedFits
<1>4. CASE Hears(p)
  BY <1>1, <1>4, HearsFit
<1>5. CASE Client(p)
  BY <1>2, <1>5, ClientTakes
<1>6. CASE Untouched(p) /\ Fights
  BY <1>2, <1>6, FightsFit
<1>7. CASE Untouched(p) /\ \E n \in AllStages : Opens(n)
  BY <1>2, <1>7, OpensFit
<1>8. CASE Untouched(p) /\ \E k \in DOMAIN advances : Starts(k)
  BY <1>1, <1>2, <1>8, StartsFit
<1> QED
  BY <1>3, <1>4, <1>5, <1>6, <1>7, <1>8, StepViews

\* A step moves a connected client along its script, or the room to another
\* part of the stage.
LEMMA ViewSteps ==
    ASSUME FlowInv, ~Lagging, [Next]_vars, NEW p \in Players, IsOpen(p)'
    PROVE  /\ scenario'[p] = scenario[p] /\ Due(p)' = Due(p) /\ AppliedAt(p)' = AppliedAt(p)
           /\ \/ /\ SameStage /\ number' = number /\ InRound' = InRound
                 /\ Pos(p)' = Pos(p) \/ (Client(p) /\ Pos(p)' = Pos(p) + 1 /\ Told(p)' = Told(p))
                 /\ Told(p)' = Told(p) \/ (Hears(p) /\ Told(p)' = Told(p) + 1 /\ Pos(p)' = Pos(p))
              \/ Fights /\ ~InRound /\ ~InRound' /\ Untouched(p) /\ number' = number
              \/ /\ \E n \in AllStages : Opens(n)
                 /\ ~InRound /\ InRound' /\ Untouched(p) /\ number' = number
                 /\ Told(p) = 2 /\ Told(p)' = 2 /\ Pos(p)' = Pos(p)
              \/ /\ \E k \in DOMAIN advances : Starts(k)
                 /\ InRound /\ ~InRound' /\ Untouched(p) /\ number' = number + 1
                 /\ Pos(p) = 3 + Due(p) /\ Told(p) = Pos(p) /\ outbox[p] = <<>>
                 /\ Pos(p)' = 0 /\ Told(p)' = 0
<1>1. IsOpen(p)
  BY StepViews
<1>2. /\ FlowTypeOK /\ EventsFit /\ BeginsFit /\ AdvancesFit
      /\ BeginsInTime /\ AdvancesInTime /\ LineFits /\ PhaseFits(p)
      /\ InboxFits(p) /\ ToldFits(p) /\ OwesFits(p) /\ LoadFits(p) /\ OptionsFit(p)
      /\ DeliveredFits(p) /\ ReadyFits(p)
  BY <1>1, OpenInv
<1>3. scenario'[p] = scenario[p]
  <2>1. CASE Untouched(p)
    BY <2>1 DEF Untouched
  <2>2. CASE Client(p)
    BY <2>2 DEF Client, Observe
  <2>3. CASE Hears(p)
    BY <2>3 DEF Hears, Told1
  <2> QED
    BY <2>1, <2>2, <2>3, StepViews
<1>4. Due(p)' = Due(p) /\ AppliedAt(p)' = AppliedAt(p)
  BY <1>3 DEF Due, AppliedAt
<1> DEFINE Goal ==
              \/ /\ SameStage /\ number' = number /\ InRound' = InRound
                 /\ Pos(p)' = Pos(p) \/ (Client(p) /\ Pos(p)' = Pos(p) + 1 /\ Told(p)' = Told(p))
                 /\ Told(p)' = Told(p) \/ (Hears(p) /\ Told(p)' = Told(p) + 1 /\ Pos(p)' = Pos(p))
              \/ Fights /\ ~InRound /\ ~InRound' /\ Untouched(p) /\ number' = number
              \/ /\ \E n \in AllStages : Opens(n)
                 /\ ~InRound /\ InRound' /\ Untouched(p) /\ number' = number
                 /\ Told(p) = 2 /\ Told(p)' = 2 /\ Pos(p)' = Pos(p)
              \/ /\ \E k \in DOMAIN advances : Starts(k)
                 /\ InRound /\ ~InRound' /\ Untouched(p) /\ number' = number + 1
                 /\ Pos(p) = 3 + Due(p) /\ Told(p) = Pos(p) /\ outbox[p] = <<>>
                 /\ Pos(p)' = 0 /\ Told(p)' = 0
<1>5. ASSUME Hears(p) PROVE Goal
  BY <1>1, <1>5, HearsFit
<1>6. ASSUME Client(p) PROVE Goal
  BY <1>2, <1>6, ClientTakes, ClientView
<1>7. ASSUME Untouched(p), Fights PROVE Goal
  BY <1>2, <1>7, EventsOfFights, FightsEffect
<1>8. ASSUME Untouched(p), NEW n \in AllStages, Opens(n) PROVE Goal
  <2>1. Told(p) = 2 /\ Told(p)' = 2
    BY <1>2, <1>8, OpensFit
  <2>2. ~InRound /\ InRound' /\ number' = number
    BY <1>2, <1>8, OpensEffect DEF InRound
  <2>3. Pos(p)' = Pos(p)
    BY <1>8, <2>2, UntouchedView
  <2> QED
    BY <1>8, <2>1, <2>2, <2>3
<1>9. ASSUME Untouched(p), NEW k \in DOMAIN advances, Starts(k) PROVE Goal
  <2>1. /\ Pos(p) = 3 + Due(p) /\ Told(p) = Pos(p) /\ outbox[p] = <<>>
        /\ Pos(p)' = 0 /\ Told(p)' = 0
    BY <1>1, <1>2, <1>9, StartsFit
  <2>2. InRound /\ ~InRound' /\ number' = number + 1
    BY <1>2, <1>9, StartsEffect DEF InRound
  <2> QED
    BY <1>9, <2>1, <2>2
<1>10. Goal
  BY <1>5, <1>6, <1>7, <1>8, <1>9, StepViews
<1> QED
  BY <1>3, <1>4, <1>10

\* What a step does to the players that owe a choice.
LEMMA OwedSteps ==
    ASSUME FlowTypeOK, [Next]_vars
    PROVE  \/ UNCHANGED owed
           \/ Deadline /\ owed' = {}
           \/ ApplyChoice /\ Settle({Head(choices).player}) /\ owed' = owed \ {Head(choices).player}
                  /\ Head(choices).item = "chosen" /\ Head(choices).player \in owed
           \/ \E p \in Players : LeaveRoom(p) /\ owed' = owed \ {p}
           \/ \E n \in AllStages : Opens(n) /\ owed' = members
<1>1. CASE UNCHANGED vars
  BY <1>1 DEF vars, roomVars, stagesVars
<1>2. CASE Fights
  BY <1>2, FightsEffect
<1>3. CASE Deadline
  BY <1>3 DEF Deadline, Settle
<1>4. CASE ApplyChoice
  BY <1>4 DEF ApplyChoice, Settle, stagesVars
<1>5. CASE ObserveEvent \/ ObserveRewards \/ Reject
  BY <1>5
     DEF ObserveEvent, ObserveRewards, TakeUpdate, SendNotice, MarkDelivered, Reject, roomVars,
         stagesVars
<1>6. ASSUME NEW n \in AllStages, Begin(n) PROVE UNCHANGED owed \/ (Opens(n) /\ owed' = members)
  BY <1>6
     DEF Begin, BeginRewardStage, StartReward, OpenRound, EnterSnapshot, EnterReward, Opens, roomVars,
         stagesVars
<1>7. CASE Advance
  BY <1>7 DEF Advance, Decide, StartStage, Start, LeaveSnapshot, LeaveReward, EndAdvance, roomVars,
              stagesVars
<1>8. ASSUME NEW p \in Players, Handle(p) \/ Client(p) \/ Hangup(p) \/ Disconnected(p)
      PROVE  UNCHANGED owed
  BY <1>8
     DEF Handle, HandleRewardChoice, HandleNextStageRequest, TryAdvanceStage, Client, Hangup,
         Disconnected, roomVars, stagesVars
<1>9. ASSUME NEW p \in Players, LeaveRoom(p) PROVE owed' = owed \ {p}
  BY <1>9 DEF LeaveRoom, Leave
<1> QED
  BY <1>1, <1>2, <1>3, <1>4, <1>5, <1>6, <1>7, <1>8, <1>9 DEF Next, Fights

\* A choice that the room takes from the queue.
LEMMA ChoiceTaken ==
    ASSUME FlowInv, ApplyChoice, NEW p \in Players, IsOpen(p), Head(choices).player = p
    PROVE  /\ InRound /\ Pos(p) >= 3 /\ scenario[p] # "timeout"
           /\ Head(choices).item = ItemOf[Request(p)] /\ Load(p) >= 1 /\ Places(p) # {}
<1>1. FlowTypeOK /\ LoadFits(p)
  BY OpenInv
<1>2. /\ Head(choices) = choices[1] /\ Len(choices) \in Nat \ {0} /\ DOMAIN choices = 1..Len(choices)
  BY <1>1, TailElements DEF ApplyChoice, FlowTypeOK
<1>3. 1 \in Places(p)
  BY <1>2 DEF Places
<1>4. Load(p) >= 1
  <2>1. /\ Unread(p) \in Nat /\ Load(p) \in Nat /\ Load(p) >= 1 + Unread(p)
    BY <1>1, <1>3, LoadTyped
  <2> QED
    BY <2>1
<1> QED
  BY <1>1, <1>2, <1>3, <1>4, LoadAllowed DEF LoadFits

\* Who owes a choice that a client that stays knows of.
LEMMA OwedOpen ==
    ASSUME FlowInv, ~Lagging, [Next]_vars, NEW p \in Players, IsOpen(p)'
    PROVE  /\ p \in owed /\ p \notin owed' =>
                  /\ InRound
                  /\ \/ Deadline /\ scenario[p] = "timeout"
                     \/ /\ ApplyChoice /\ Head(choices).player = p
                        /\ Head(choices).item = "chosen" /\ Settle({p})
           /\ p \notin owed /\ p \in owed' => \E n \in AllStages : Opens(n)
           /\ ((\E n \in AllStages : Opens(n)) => p \in owed')
<1>1. IsOpen(p)
  BY StepViews
<1>2. FlowTypeOK /\ EventsFit /\ MembersFit /\ OwedFits /\ BeginsFit
  BY <1>1, OpenInv
<1>3. ASSUME NEW q \in Players, LeaveRoom(q) PROVE q # p
  BY <1>1, <1>2, <1>3 DEF LeaveRoom, MembersFit, IsOpen
<1>4. ASSUME Deadline, p \in owed PROVE scenario[p] = "timeout"
  BY <1>1, <1>4 DEF Deadline, InTime, IsOpen
<1>5. p \in owed => InRound
  BY <1>2 DEF OwedFits, InRound
<1>6. ASSUME NEW n \in AllStages, Opens(n) PROVE p \in owed'
  BY <1>1, <1>2, <1>6, OpensEffect DEF MembersFit, IsOpen
<1> QED
  BY <1>2, <1>3, <1>4, <1>5, <1>6, OwedSteps

\* Who owes a choice has not been told the answer, and who does not has made it.
LEMMA OwesKept ==
    ASSUME FlowInv, ~Lagging, [Next]_vars, NEW p \in Players, IsOpen(p)'
    PROVE  OwesFits(p)'
<1>1. IsOpen(p)
  BY StepViews
<1>2. /\ FlowTypeOK /\ EventsFit /\ LineFits /\ PhaseFits(p) /\ InboxFits(p) /\ ToldFits(p)
      /\ OwesFits(p) /\ LoadFits(p) /\ OptionsFit(p) /\ DeliveredFits(p)
  BY <1>1, OpenInv
<1>3. SUFFICES ASSUME InRound'
               PROVE  /\ p \in owed' => Told(p)' < AppliedAt(p)'
                      /\ p \notin owed' /\ scenario'[p] # "timeout" => Pos(p)' >= AppliedAt(p)' - 1
  BY DEF OwesFits
<1>4. /\ Pos(p) \in Nat /\ Told(p) \in Nat /\ AppliedAt(p) \in {4, 5}
      /\ scenario[p] # "invalid" => AppliedAt(p) = 4
      /\ scenario[p] = "invalid" => AppliedAt(p) = 5
  BY <1>2, ClientTyped DEF AppliedAt
<1>5. scenario'[p] = scenario[p] /\ AppliedAt(p)' = AppliedAt(p)
  BY ViewSteps
<1>6. CASE \E n \in AllStages : Opens(n)
  <2>1. Told(p)' = 2
    <3>1. PICK n \in AllStages : Opens(n)
      BY <1>6
    <3>2. Untouched(p)
      BY <3>1 DEF Opens, StartReward, botVars, Untouched
    <3> QED
      BY <1>1, <1>2, <3>1, <3>2, OpensFit, OpenInv
  <2>2. p \in owed'
    BY <1>6, OwedOpen
  <2> QED
    BY <1>4, <1>5, <2>1, <2>2
<1>7. CASE ~\E n \in AllStages : Opens(n)
  <2>1. /\ InRound
        /\ Pos(p)' = Pos(p) \/ (Client(p) /\ Pos(p)' = Pos(p) + 1 /\ Told(p)' = Told(p))
        /\ Told(p)' = Told(p) \/ (Hears(p) /\ Told(p)' = Told(p) + 1 /\ Pos(p)' = Pos(p))
    BY <1>3, <1>7, ViewSteps
  <2>2. ASSUME p \in owed' PROVE Told(p)' < AppliedAt(p)
    <3>1. p \in owed /\ Told(p) < AppliedAt(p)
      BY <1>2, <1>7, <2>1, <2>2, OwedOpen DEF OwesFits
    <3>2. CASE Told(p)' = Told(p)
      BY <3>1, <3>2
    <3>3. ASSUME Hears(p), Told(p)' = Told(p) + 1 PROVE Told(p) + 1 < AppliedAt(p)
      <4>1. \/ Told(p) = 2
            \/ scenario[p] = "invalid" /\ Told(p) = 3
        BY <1>1, <1>2, <2>1, <3>1, <3>3, HearsNext
      <4> QED
        BY <1>4, <4>1
    <3> QED
      BY <2>1, <3>2, <3>3
  <2>3. ASSUME p \notin owed', scenario[p] # "timeout" PROVE Pos(p)' >= AppliedAt(p) - 1
    <3>1. Pos(p) >= AppliedAt(p) - 1
      <4>1. CASE p \notin owed
        BY <1>2, <2>1, <2>3, <4>1 DEF OwesFits
      <4>2. CASE p \in owed
        <5>1. ApplyChoice /\ Head(choices).player = p /\ Head(choices).item = "chosen"
          BY <2>3, <4>2, OwedOpen
        <5>2. Pos(p) >= 3 /\ ItemOf[Request(p)] = "chosen"
          BY <1>1, <5>1, ChoiceTaken
        <5>3. scenario[p] = "invalid" => Pos(p) # 3
          BY <5>2 DEF Request, ItemOf
        <5> QED
          BY <1>4, <5>2, <5>3
      <4> QED
        BY <4>1, <4>2
    <3> QED
      BY <1>4, <2>1, <3>1
  <2> QED
    BY <1>5, <2>2, <2>3
<1> QED
  BY <1>6, <1>7

\* What stays in the line stays due.
LEMMA TimelyKept ==
    ASSUME FlowInv, ~Lagging, [Next]_vars, NEW k \in 1..Len(Line), SendNotice => k # 1
    PROVE  \A u : u = Line[k] => Timely(u)'
<1> SUFFICES ASSUME NEW u, u = Line[k], IsOpen(u.to)'
             PROVE  /\ InRound' /\ u.index = number'
                    /\ u.kind = "options" => Told(u.to)' = 2
                    /\ u.kind = "applied" =>
                           /\ u.to \notin owed' /\ Told(u.to)' < AppliedAt(u.to)'
                           /\ u.item = IF scenario'[u.to] = "timeout" THEN "first" ELSE "chosen"
  BY DEF Timely
<1>1. FlowTypeOK /\ LineFits /\ EventsFit /\ BeginsFit
  BY DEF FlowInv, RoomFits
<1>2. Line \in Seq(Update) /\ Len(Line) \in Nat
  BY <1>1, LineView
<1>3. u \in Update
  BY <1>2, ElementOfSeq
<1>4. PICK p \in Players : p = u.to
  BY <1>3, UpdateTypes
<1>5. IsOpen(p) /\ u.kind \in {"options", "applied"}
  BY <1>3, <1>4, StepViews, UpdateTypes
<1>6. /\ InRound /\ u.index = number
      /\ u.kind = "options" => Told(p) = 2
      /\ u.kind = "applied" => /\ p \notin owed /\ Told(p) < AppliedAt(p)
                               /\ u.item = IF scenario[p] = "timeout" THEN "first" ELSE "chosen"
  BY <1>1, <1>4, <1>5 DEF LineFits, Timely
<1>7. /\ ToldFits(p) /\ OwesFits(p) /\ LoadFits(p) /\ OptionsFit(p) /\ DeliveredFits(p)
      /\ Told(p) \in Nat /\ Pos(p) \in Nat /\ Due(p) \in {1, 2} /\ AppliedAt(p) \in {4, 5}
      /\ AppliedAt(p) <= 3 + Due(p) /\ (scenario[p] # "invalid" => AppliedAt(p) = 4)
  BY <1>1, <1>5, OpenInv, ClientTyped, ScenarioFacts DEF AppliedAt
<1>8. scenario'[p] = scenario[p] /\ AppliedAt(p)' = AppliedAt(p)
  BY <1>4, ViewSteps
<1>9. ~(Pos(p) = 3 + Due(p) /\ Told(p) = Pos(p))
  BY <1>5, <1>6, <1>7
<1>10. /\ number' = number /\ InRound'
       /\ Told(p)' = Told(p) \/ (Hears(p) /\ Told(p)' = Told(p) + 1)
  BY <1>4, <1>6, <1>9, ViewSteps
<1>11. p \notin owed => p \notin owed'
  <2>1. ~\E n \in AllStages : Opens(n)
    BY <1>1, <1>6, OpensEffect DEF InRound
  <2> QED
    BY <1>4, <2>1, OwedOpen
<1>12. ASSUME Hears(p) PROVE u.kind = "applied" /\ Told(p) + 1 < AppliedAt(p)
  <2>1. CASE /\ SendNotice /\ notice.update.to = p
             /\ \/ notice.update.kind = "options" /\ Told(p) = 2
                \/ notice.update.kind = "applied" /\ Told(p) = AppliedAt(p) - 1 /\ p \notin owed
    <3>1. Line[1] = notice.update /\ 1 \in 1..Len(Line) /\ k # 1 /\ 1 < k
      <4>1. Line # <<>> /\ Head(Line) = notice.update
        BY <1>1, <2>1, LineView DEF SendNotice
      <4> QED
        BY <1>2, <2>1, <4>1, TailElements
    <3>2. /\ notice.update.kind # u.kind
          /\ notice.update.kind = "applied" => u.kind = "applied"
      BY <1>1, <1>4, <1>5, <2>1, <3>1 DEF LineFits, Ordered
    <3> QED
      BY <1>5, <1>7, <2>1, <3>2
  <2>2. CASE \/ scenario[p] = "invalid" /\ Told(p) = 3 /\ p \in owed
             \/ scenario[p] = "duplicate" /\ Told(p) = 4 /\ p \notin owed
    BY <1>5, <1>6, <1>7, <2>2
  <2> QED
    BY <1>1, <1>5, <1>6, <1>7, <1>12, <2>1, <2>2, HearsNext
<1>13. /\ u.kind = "options" => Told(p)' = 2
       /\ u.kind = "applied" => Told(p)' < AppliedAt(p)
  BY <1>6, <1>10, <1>12
<1> QED
  BY <1>4, <1>6, <1>8, <1>10, <1>11, <1>13

\* A connected player, when a round opens.
LEMMA OpensTold ==
    ASSUME FlowInv, NEW n \in AllStages, Opens(n), NEW p \in Players, IsOpen(p)
    PROVE  Untouched(p) /\ Told(p) = 2 /\ Told(p)' = 2 /\ ~InRound /\ InRound' /\ number' = number
<1>1. Untouched(p)
  BY DEF Opens, StartReward, botVars, Untouched
<1>2. ~InRound /\ InRound' /\ number' = number
  BY OpenInv, OpensEffect DEF InRound
<1> QED
  BY <1>1, <1>2, OpensFit, OpenInv

\* A player for which the room takes a choice, before its client knows.
LEMMA SettledTold ==
    ASSUME FlowInv, Deadline \/ ApplyChoice, NEW p \in owed, NEW who, Settle(who), IsOpen(p)
    PROVE  /\ InRound' /\ number' = number /\ Told(p)' < AppliedAt(p)'
           /\ scenario' = scenario
<1>1. FlowTypeOK /\ OwedFits /\ OwesFits(p) /\ p \in Players
  BY OpenInv DEF FlowInv, FlowTypeOK
<1>2. InRound /\ InRound' /\ number' = number
  BY DEF Settle, After, InRound
<1>3. UNCHANGED botVars
  BY DEF Deadline, ApplyChoice
<1>4. Untouched(p) /\ scenario' = scenario
  BY <1>3 DEF botVars, Untouched
<1>5. Told(p)' = Told(p) /\ AppliedAt(p)' = AppliedAt(p)
  BY <1>2, <1>4, UntouchedView
<1> QED
  BY <1>1, <1>2, <1>4, <1>5 DEF OwesFits

\* The line stays as it should be.
LEMMA LineKept ==
    ASSUME FlowInv, ~Lagging, [Next]_vars
    PROVE  LineFits'
<1>1. SUFFICES ASSUME NEW l, l = Line'
               PROVE  Ordered(l)' /\ \A k \in 1..Len(l) : Timely(l[k])'
  BY DEF LineFits, Ordered, Timely
<1>2. FlowTypeOK /\ LineFits /\ EventsFit /\ BeginsFit /\ OwedFits
  BY DEF FlowInv, RoomFits
<1>3. Line \in Seq(Update) /\ Len(Line) \in Nat
  BY <1>2, LineView
<1>4. Ordered(Line) /\ \A k \in 1..Len(Line) : Timely(Line[k])
  BY <1>2 DEF LineFits
<1>5. \A p \in Players : IsOpen(p)' => IsOpen(p)
  BY StepViews
<1>6. ASSUME NEW b \in Seq(Update), Ordered(b) PROVE Ordered(b)'
  <2>1. \A k \in 1..Len(b) : b[k].to \in Players
    BY <1>6, ElementOfSeq, UpdateTypes
  <2> QED
    BY <1>5, <1>6, <2>1 DEF Ordered
<1>7. CASE l = Line /\ ~SendNotice
  BY <1>3, <1>4, <1>6, <1>7, TimelyKept
<1>8. CASE Line # <<>> /\ l = Tail(Line)
  <2>1. Tail(Line) \in Seq(Update) /\ Ordered(Tail(Line))
    BY <1>3, <1>4, <1>8, TailElements, OrderedTail
  <2>2. ASSUME NEW k \in 1..Len(l) PROVE Timely(l[k])'
    <3>1. l[k] = Line[k + 1] /\ k + 1 \in 1..Len(Line) /\ k + 1 # 1
      BY <1>3, <1>4, <1>8, OrderedTail
    <3> QED
      BY <3>1, TimelyKept
  <2> QED
    BY <1>6, <1>8, <2>1, <2>2
<1>9. ASSUME NEW b \in Seq(Update), l = Line \o b, ~SendNotice, Ordered(b),
             \A i \in 1..Len(b) : Timely(b[i])',
             \A j \in 1..Len(Line), i \in 1..Len(b) :
                 IsOpen(Line[j].to) => /\ ~(Line[j].to = b[i].to /\ Line[j].kind = b[i].kind)
                                       /\ b[i].kind = "applied"
      PROVE  Ordered(l)' /\ \A k \in 1..Len(l) : Timely(l[k])'
  <2>1. /\ Ordered(l)
        /\ \A k \in 1..Len(l) :
               \/ k \in 1..Len(Line) /\ l[k] = Line[k]
               \/ \E i \in 1..Len(b) : k = Len(Line) + i /\ l[k] = b[i]
    BY <1>3, <1>4, <1>9, OrderedBatch
  <2>2. l \in Seq(Update)
    BY <1>3, <1>9, ConcatElements
  <2>3. ASSUME NEW k \in 1..Len(l) PROVE Timely(l[k])'
    BY <1>9, <2>1, TimelyKept
  <2> QED
    BY <1>6, <2>1, <2>2, <2>3
<1>10. ASSUME NEW n \in AllStages, Opens(n), NEW b, b = SetToSeq({Options(p) : p \in members}),
              l = Line \o b
       PROVE  Ordered(l)' /\ \A k \in 1..Len(l) : Timely(l[k])'
  <2>1. /\ b \in Seq(Update) /\ Ordered(b)
        /\ \A i \in 1..Len(b) : b[i] \in {Options(p) : p \in members}
    BY <1>2, <1>10, RoundOrdered DEF FlowTypeOK
  <2>2. ~InRound /\ InRound' /\ number' = number
    BY <1>2, <1>10, OpensEffect DEF InRound
  <2>3. ~SendNotice
    BY <1>10 DEF SendNotice, roomVars, stagesVars, Opens, StartReward, OpenRound, CanOpenRound
  <2>4. \A j \in 1..Len(Line) : ~IsOpen(Line[j].to)
    BY <1>4, <2>2 DEF Timely
  <2>5. ASSUME NEW i \in 1..Len(b) PROVE Timely(b[i])'
    <3>1. PICK p \in members : b[i] = Options(p)
      BY <2>1
    <3>2. /\ b[i].to = p /\ b[i].kind = "options" /\ b[i].index = number /\ p \in Players
      BY <1>2, <3>1 DEF Options, FlowTypeOK
    <3>3. ASSUME IsOpen(p)' PROVE Told(p)' = 2
      BY <1>5, <1>10, <3>2, <3>3, OpensTold
    <3>4. ASSUME NEW u, u = b[i] PROVE Timely(u)'
      BY <2>2, <3>2, <3>3, <3>4 DEF Timely
    <3> QED
      BY <3>4
  <2> QED
    BY <1>9, <1>10, <2>1, <2>3, <2>4, <2>5
<1>11. ASSUME NEW b \in Seq(Update), l = Line \o b, Ordered(b), NEW who, Settle(who),
              Deadline \/ ApplyChoice,
              \A i \in 1..Len(b) : \E p \in who :
                  \/ b[i] = Applied(p, "first") /\ (IsOpen(p) => scenario[p] = "timeout")
                  \/ b[i] = Applied(p, "chosen") /\ (IsOpen(p) => scenario[p] # "timeout")
       PROVE  Ordered(l)' /\ \A k \in 1..Len(l) : Timely(l[k])'
  <2>1. who \subseteq owed /\ owed' = owed \ who /\ who \subseteq Players
    BY <1>2, <1>11 DEF Settle, FlowTypeOK
  <2>2. ~SendNotice
    BY <1>11, <2>1 DEF SendNotice, roomVars, stagesVars, Settle
  <2>3. ASSUME NEW i \in 1..Len(b)
        PROVE  /\ b[i].kind = "applied" /\ b[i].to \in owed
               /\ Timely(b[i])'
    <3>1. PICK p \in who : \/ b[i] = Applied(p, "first") /\ (IsOpen(p) => scenario[p] = "timeout")
                           \/ b[i] = Applied(p, "chosen") /\ (IsOpen(p) => scenario[p] # "timeout")
      BY <1>11
    <3>2. /\ b[i].to = p /\ b[i].kind = "applied" /\ b[i].index = number /\ p \in owed
          /\ p \in Players
          /\ IsOpen(p) => b[i].item = IF scenario[p] = "timeout" THEN "first" ELSE "chosen"
      BY <2>1, <3>1 DEF Applied
    <3>3. IsOpen(p)' => /\ InRound' /\ number' = number /\ Told(p)' < AppliedAt(p)'
                        /\ scenario' = scenario /\ p \notin owed' /\ IsOpen(p)
      BY <1>5, <1>11, <2>1, <3>2, SettledTold
    <3> QED
      BY <3>2, <3>3 DEF Timely
  <2>4. \A j \in 1..Len(Line) : IsOpen(Line[j].to) /\ Line[j].kind = "applied" => Line[j].to \notin owed
    BY <1>4 DEF Timely
  <2> QED
    BY <1>9, <1>11, <2>2, <2>3, <2>4
<1>12. ASSUME Deadline, l = Line \o SetToSeq({Applied(p, "first") : p \in owed})
       PROVE  Ordered(l)' /\ \A k \in 1..Len(l) : Timely(l[k])'
  <2> DEFINE b == SetToSeq({Applied(p, "first") : p \in owed})
  <2>1. /\ b \in Seq(Update) /\ Ordered(b)
        /\ \A i \in 1..Len(b) : b[i] \in {Applied(p, "first") : p \in owed}
    BY <1>2, RoundOrdered DEF FlowTypeOK
  <2>2. Settle(owed) /\ \A p \in owed : IsOpen(p) => scenario[p] = "timeout"
    BY <1>12 DEF Deadline, InTime, IsOpen
  <2> HIDE DEF b
  <2> QED
    BY <1>11, <1>12, <2>1, <2>2 DEF b
<1>13. ASSUME ApplyChoice, Settle({Head(choices).player}),
              l = Line \o <<Applied(Head(choices).player, "chosen")>>
       PROVE  Ordered(l)' /\ \A k \in 1..Len(l) : Timely(l[k])'
  <2>1. PICK p \in Players : p = Head(choices).player
    BY <1>2, <1>13 DEF Settle, FlowTypeOK
  <2>2. Applied(p, "chosen") \in Update
    BY <1>2, NewUpdateTypes DEF FlowTypeOK
  <2> DEFINE b == <<Applied(p, "chosen")>>
  <2>3. b \in Seq(Update) /\ Ordered(b) /\ \A i \in 1..Len(b) : b[i] = Applied(p, "chosen")
    BY <2>2 DEF Ordered
  <2>4. IsOpen(p) => scenario[p] # "timeout"
    BY <1>13, <2>1, ChoiceTaken
  <2> HIDE DEF b
  <2> QED
    BY <1>11, <1>13, <2>1, <2>3, <2>4 DEF b
<1>14. SendNotice => Line # <<>> /\ l = Tail(Line)
  BY <1>1, <1>2, LineSends
<1> QED
  BY <1>1, <1>2, <1>7, <1>8, <1>10, <1>12, <1>13, <1>14, LineSteps

-----------------------------------------------------------------------------
(* The choices of a client that are not answered *)

\* A choice joins the queue: the places of its player grow by one.
LEMMA PlacesAppend ==
    ASSUME FlowTypeOK, NEW c \in Choice, choices' = Append(choices, c), NEW p \in Players
    PROVE  /\ Cardinality(Places(p)') = Cardinality(Places(p)) + (IF c.player = p THEN 1 ELSE 0)
           /\ \A k \in Places(p)' : \/ k \in Places(p) /\ choices'[k] = choices[k]
                                    \/ c.player = p /\ choices'[k] = c
<1> DEFINE n == Len(choices)
<1>1. /\ n \in Nat /\ Len(choices') = n + 1 /\ choices'[n + 1] = c
      /\ \A k \in 1..n : choices'[k] = choices[k]
      /\ DOMAIN choices = 1..n /\ DOMAIN choices' = 1..(n + 1)
  BY AppendElements DEF FlowTypeOK
<1>2. Places(p)' = Places(p) \cup (IF c.player = p THEN {n + 1} ELSE {})
  BY <1>1 DEF Places
<1>3. n + 1 \notin Places(p) /\ IsFiniteSet(Places(p)) /\ Cardinality(Places(p)) \in Nat
  BY <1>1, LoadTyped DEF Places
<1>4. Cardinality(Places(p)') = Cardinality(Places(p)) + (IF c.player = p THEN 1 ELSE 0)
  <2>1. CASE c.player = p
    <3>1. Places(p)' = Places(p) \cup {n + 1}
      BY <1>2, <2>1
    <3> QED
      BY <1>3, <2>1, <3>1, FS_AddElement
  <2>2. CASE c.player # p
    BY <1>2, <1>3, <2>2
  <2> QED
    BY <2>1, <2>2
<1> QED
  BY <1>1, <1>2, <1>4 DEF Places

\* The first choice leaves the queue: the places of its player lose one, and
\* the others move up.
LEMMA PlacesTail ==
    ASSUME FlowTypeOK, choices # <<>>, choices' = Tail(choices), NEW p \in Players
    PROVE  /\ Cardinality(Places(p)')
                  = Cardinality(Places(p)) - (IF Head(choices).player = p THEN 1 ELSE 0)
           /\ Cardinality(Places(p)') \in Nat
           /\ \A k \in Places(p)' : k + 1 \in Places(p) /\ choices'[k] = choices[k + 1]
<1> DEFINE n == Len(choices)
           rest == Places(p) \ {1}
<1>1. /\ n \in Nat \ {0} /\ Len(choices') = n - 1 /\ Head(choices) = choices[1]
      /\ \A k \in 1..Len(choices') : choices'[k] = choices[k + 1]
      /\ DOMAIN choices = 1..n /\ choices' \in Seq(Choice)
  BY TailElements DEF FlowTypeOK
<1>2. DOMAIN choices' = 1..(n - 1)
  BY <1>1
<1>3. /\ IsFiniteSet(Places(p)) /\ Cardinality(Places(p)) \in Nat
      /\ (1 \in Places(p) <=> Head(choices).player = p)
  <2>1. 1 \in DOMAIN choices
    BY <1>1
  <2> QED
    BY <1>1, <2>1, LoadTyped DEF Places
<1>4. /\ IsFiniteSet(rest)
      /\ Cardinality(rest) = Cardinality(Places(p)) - (IF Head(choices).player = p THEN 1 ELSE 0)
  <2>1. /\ IsFiniteSet(rest)
        /\ Cardinality(rest) = IF 1 \in Places(p) THEN Cardinality(Places(p)) - 1
                               ELSE Cardinality(Places(p))
    BY <1>3, FS_RemoveElement
  <2> HIDE DEF rest
  <2> QED
    BY <1>3, <2>1
<1>5. ASSUME NEW k \in Places(p)' PROVE k + 1 \in rest /\ choices'[k] = choices[k + 1] /\ k \in Nat
  <2>1. k \in 1..(n - 1) /\ choices'[k].player = p
    BY <1>2 DEF Places
  <2>2. k + 1 \in 1..n /\ choices'[k] = choices[k + 1] /\ k + 1 # 1
    BY <1>1, <2>1
  <2> QED
    BY <1>1, <2>1, <2>2 DEF Places
<1>6. ASSUME NEW k \in rest PROVE k - 1 \in Places(p)' /\ (k - 1) + 1 = k
  <2>1. k \in 1..n /\ k # 1 /\ choices[k].player = p
    BY <1>1 DEF Places
  <2>2. k - 1 \in 1..(n - 1) /\ (k - 1) + 1 = k
    BY <1>1, <2>1
  <2>3. choices'[k - 1] = choices[k]
    BY <1>1, <2>2
  <2> QED
    BY <1>2, <2>1, <2>2, <2>3 DEF Places
<1> DEFINE up == [k \in rest |-> k - 1]
<1>7. up \in Bijection(rest, Places(p)')
  <2>0. rest \subseteq Nat
    BY <1>1 DEF Places
  <2>1. up \in [rest -> Places(p)']
    BY <1>6
  <2>2. \A i, j \in rest : up[i] = up[j] => i = j
    BY <2>0
  <2>3. \A k \in Places(p)' : k + 1 \in rest /\ up[k + 1] = k
    BY <1>5
  <2> QED
    BY <2>1, <2>2, <2>3 DEF Bijection, Injection, Surjection, IsInjective
<1>8. ExistsBijection(rest, Places(p)')
  BY <1>7 DEF ExistsBijection
<1>9. Cardinality(Places(p)') = Cardinality(rest) /\ Cardinality(rest) \in Nat
  BY <1>4, <1>8, FS_Bijection, FS_CardinalityType
<1> QED
  BY <1>4, <1>5, <1>9

\* What a step does to the choices in the room's queue.
LEMMA ChoiceSteps ==
    ASSUME FlowTypeOK, [Next]_vars
    PROVE  \/ UNCHANGED choices
           \/ ApplyChoice
           \/ \E p \in Players :
                  /\ HandleRewardChoice(p) /\ conn' = conn /\ Head(outbox[p]) \in DOMAIN ItemOf
                  /\ outbox[p] # <<>> /\ outbox'[p] = Tail(outbox[p])
                  /\ choices' = Append(choices, [player |-> p, item |-> ItemOf[Head(outbox[p])]])
<1>1. CASE UNCHANGED vars \/ Fights \/ Deadline \/ ObserveEvent \/ ObserveRewards \/ Reject
  BY <1>1
     DEF vars, roomVars, Fights, FightEnds, Deadline, ObserveEvent, ObserveRewards, TakeUpdate,
         SendNotice, MarkDelivered, Reject
<1>2. CASE \E n \in AllStages : Begin(n)
  BY <1>2 DEF Begin, BeginRewardStage, StartReward, EnterSnapshot, EnterReward, roomVars
<1>3. CASE Advance
  BY <1>3 DEF Advance, Decide, StartStage, LeaveSnapshot, LeaveReward, EndAdvance, roomVars
<1>4. ASSUME NEW p \in Players, HandleRewardChoice(p)
      PROVE  \/ UNCHANGED choices
             \/ /\ conn' = conn /\ Head(outbox[p]) \in DOMAIN ItemOf
                /\ outbox[p] # <<>> /\ outbox'[p] = Tail(outbox[p])
                /\ choices' = Append(choices, [player |-> p, item |-> ItemOf[Head(outbox[p])]])
  BY <1>4 DEF HandleRewardChoice, Reads, FlowTypeOK
<1>5. ASSUME NEW p \in Players, \/ HandleNextStageRequest(p) \/ TryAdvanceStage(p) \/ Client(p)
                                \/ Hangup(p) \/ Disconnected(p) \/ LeaveRoom(p)
      PROVE  UNCHANGED choices
  BY <1>5 DEF HandleNextStageRequest, TryAdvanceStage, Client, Hangup, Disconnected, LeaveRoom,
              roomVars
<1> QED
  BY <1>1, <1>2, <1>3, <1>4, <1>5 DEF Next, Fights, Handle

\* What a step does to the refusals on their way.
LEMMA RejectingSteps ==
    ASSUME FlowTypeOK, [Next]_vars
    PROVE  \/ UNCHANGED rejecting
           \/ ApplyChoice /\ UNCHANGED stagesVars
                  /\ ~(/\ stage = "Reward" /\ Head(choices).player \in owed
                       /\ Head(choices).item = "chosen")
                  /\ rejecting' = rejecting \cup
                         {[player |-> Head(choices).player, item |-> Head(choices).item,
                           waits |-> ~(stage = "Reward" /\ Head(choices).player \in owed)]}
           \/ \E r \in rejecting : Reject /\ RejectOf(r)
<1>1. CASE UNCHANGED vars \/ Fights \/ Deadline \/ ObserveEvent \/ ObserveRewards
  BY <1>1
     DEF vars, workVars, Fights, FightEnds, Deadline, ObserveEvent, ObserveRewards, TakeUpdate,
         SendNotice, MarkDelivered
<1>2. CASE ApplyChoice
  BY <1>2 DEF ApplyChoice
<1>3. CASE Reject
  BY <1>3 DEF Reject, RejectOf
<1>4. CASE \E n \in AllStages : Begin(n)
  BY <1>4 DEF Begin, BeginRewardStage, StartReward, EnterSnapshot, EnterReward
<1>5. CASE Advance
  BY <1>5 DEF Advance, Decide, StartStage, LeaveSnapshot, LeaveReward, EndAdvance
<1>6. ASSUME NEW p \in Players, Handle(p) \/ Client(p) \/ Hangup(p) \/ Disconnected(p) \/ LeaveRoom(p)
      PROVE  UNCHANGED rejecting
  BY <1>6 DEF Handle, HandleRewardChoice, HandleNextStageRequest, TryAdvanceStage, Client, Hangup,
              Disconnected, LeaveRoom, workVars
<1> QED
  BY <1>1, <1>2, <1>3, <1>4, <1>5, <1>6 DEF Next, Fights

\* What a step does to the requests of a client that stays connected.
LEMMA OutboxSteps ==
    ASSUME FlowTypeOK, [Next]_vars, NEW p \in Players, IsOpen(p)'
    PROVE  \/ outbox'[p] = outbox[p]
           \/ Client(p)
           \/ HandleRewardChoice(p)
           \/ /\ HandleNextStageRequest(p) /\ outbox[p] # <<>>
              /\ Head(outbox[p]) = "ready" /\ outbox'[p] = Tail(outbox[p])
<1>1. CASE UNCHANGED vars \/ Fights \/ Deadline \/ ApplyChoice \/ ObserveEvent \/ ObserveRewards
           \/ Reject
  BY <1>1
     DEF vars, botVars, Fights, FightEnds, Deadline, ApplyChoice, ObserveEvent, ObserveRewards,
         TakeUpdate, SendNotice, MarkDelivered, Reject, ServerOnly
<1>2. CASE \E n \in AllStages : Begin(n)
  BY <1>2 DEF Begin, BeginRewardStage, StartReward, EnterSnapshot, EnterReward, botVars
<1>3. CASE Advance
  BY <1>3 DEF Advance, Decide, StartStage, LeaveSnapshot, LeaveReward, EndAdvance, botVars
<1>4. ASSUME NEW q \in Players, HandleRewardChoice(q), q # p PROVE outbox'[p] = outbox[p]
  BY <1>4 DEF HandleRewardChoice, Reads, FlowTypeOK
<1>5. ASSUME NEW q \in Players, HandleNextStageRequest(q)
      PROVE  \/ outbox'[p] = outbox[p]
             \/ /\ q = p /\ outbox[p] # <<>> /\ Head(outbox[p]) = "ready"
                /\ outbox'[p] = Tail(outbox[p])
  BY <1>5 DEF HandleNextStageRequest, Reads, FlowTypeOK
<1>6. ASSUME NEW q \in Players, TryAdvanceStage(q) \/ Hangup(q) \/ LeaveRoom(q)
      PROVE  outbox'[p] = outbox[p]
  BY <1>6 DEF TryAdvanceStage, Hangup, LeaveRoom, botVars
<1>7. ASSUME NEW q \in Players, Disconnected(q) PROVE outbox'[p] = outbox[p]
  BY <1>7 DEF Disconnected, FlowTypeOK, IsOpen
<1>8. ASSUME NEW q \in Players, Client(q), q # p PROVE outbox'[p] = outbox[p]
  BY <1>8
     DEF Client, Observe, ObserveStageStarted, ObserveStageCleared, ObserveTeamDefeated,
         ObserveRewardOptions, ObserveRewardApplied, ObserveDisconnect, Send, FlowTypeOK
<1> QED
  BY <1>1, <1>2, <1>3, <1>4, <1>5, <1>6, <1>7, <1>8 DEF Next, Fights, Handle

\* A player of whom no answer is due has no choice on its way.
LEMMA LoadZero ==
    ASSUME FlowTypeOK, NEW p \in Players, LoadFits(p), Load(p) = 0 \/ Allowance(p) = 0
    PROVE  /\ Load(p) = 0 /\ Places(p) = {} /\ ~Rejected(p) /\ Unread(p) = 0
           /\ outbox[p] = <<>> \/ (outbox[p] = <<"ready">> /\ InRound /\ Pos(p) = 3 + Due(p))
<1>1. Load(p) = 0
  BY LoadTyped DEF LoadFits
<1>2. Places(p) = {} /\ ~Rejected(p) /\ Unread(p) = 0
  BY <1>1, LoadTyped
<1>3. outbox[p] = <<>> \/ outbox[p] = <<"ready">>
  BY <1>2, EmptySeq DEF Unread, FlowTypeOK
<1>4. ASSUME outbox[p] = <<"ready">> PROVE InRound /\ Pos(p) = 3 + Due(p)
  <2>1. Len(outbox[p]) = 1 /\ outbox[p][1] = "ready"
    BY <1>4
  <2>2. Request(p) # "ready"
    BY DEF Request
  <2> QED
    BY <1>4, <2>1, <2>2 DEF LoadFits
<1> QED
  BY <1>1, <1>2, <1>3, <1>4

\* Once a client is at the end of its script, nothing of it is on its way.
LEMMA LoadAtEnd ==
    ASSUME FlowInv, NEW p \in Players, IsOpen(p), InRound, Told(p) = 3 + Due(p)
    PROVE  p \notin owed /\ Load(p) = 0
<1>1. FlowTypeOK /\ OwesFits(p) /\ LoadFits(p)
  BY OpenInv
<1>2. p \notin owed
  BY <1>1, ClientTyped, ScenarioFacts DEF OwesFits, AppliedAt
<1>3. ~(Load(p) >= 1)
  BY <1>1, <1>2, LoadAllowed, ScenarioFacts
<1> QED
  BY <1>1, <1>2, <1>3, LoadTyped

\* A step that adds no choice of a player and answers none.
LEMMA LoadIdle ==
    ASSUME FlowInv, ~Lagging, [Next]_vars, NEW p \in Players, IsOpen(p)',
           outbox'[p] = outbox[p], Cardinality(Places(p)') <= Cardinality(Places(p)),
           Cardinality(Places(p)') \in Nat,
           \A k \in Places(p)' : \E j \in Places(p) : choices'[k].item = choices[j].item,
           \A r \in rejecting' : r.player = p => r \in rejecting,
           p \in owed /\ p \notin owed' => scenario[p] = "timeout",
           ~Client(p), ~\E r \in rejecting : RejectOf(r) /\ r.player = p
    PROVE  LoadFits(p)'
<1>1. IsOpen(p)
  BY StepViews
<1>2. /\ FlowTypeOK /\ EventsFit /\ LineFits /\ ToldFits(p) /\ OwesFits(p) /\ LoadFits(p)
      /\ OptionsFit(p) /\ DeliveredFits(p)
  BY <1>1, OpenInv
<1>3. scenario'[p] = scenario[p] /\ Due(p)' = Due(p)
  BY ViewSteps
<1>4. Load(p)' <= Load(p) /\ Load(p)' \in Nat /\ Load(p) \in Nat
  <2>1. Unread(p)' = Unread(p) /\ Unread(p) \in Nat /\ Cardinality(Places(p)) \in Nat
    BY <1>2, LoadTyped DEF Unread
  <2>2. Rejected(p)' => Rejected(p)
    BY DEF Rejected
  <2> DEFINE c == Cardinality(Places(p))
             d == Cardinality(Places(p)')
  <2>3. /\ Load(p) = Unread(p) + c + (IF Rejected(p) THEN 1 ELSE 0)
        /\ Load(p)' = Unread(p) + d + (IF Rejected(p)' THEN 1 ELSE 0)
        /\ c \in Nat /\ d \in Nat /\ d <= c
    BY <2>1 DEF Load
  <2> HIDE DEF c, d
  <2> QED
    BY <2>1, <2>2, <2>3
<1>5. Allowance(p)' \in {0, 1, 2}
  BY DEF Allowance
<1>6. CASE Load(p) = 0
  <2>1. /\ Places(p) = {} /\ ~Rejected(p)
        /\ outbox[p] = <<>> \/ (outbox[p] = <<"ready">> /\ InRound /\ Pos(p) = 3 + Due(p))
    BY <1>2, <1>6, LoadZero
  <2>2. Places(p)' = {} /\ ~Rejected(p)' /\ Load(p)' <= Allowance(p)'
    BY <1>4, <1>5, <1>6, <2>1 DEF Rejected
  <2>3. CASE outbox[p] = <<>>
    <3>1. Len(outbox'[p]) = 0
      BY <2>3
    <3> QED
      BY <2>2, <3>1 DEF LoadFits, Rejected
  <2>4. CASE outbox[p] = <<"ready">> /\ InRound /\ Pos(p) = 3 + Due(p)
    <3>1. outbox[p] # <<>>
      BY <2>4
    <3>2. InRound' /\ Pos(p)' = 3 + Due(p)'
      BY <1>3, <2>4, <3>1, ViewSteps
    <3> QED
      BY <2>2, <2>4, <3>2 DEF LoadFits, Rejected
  <2> QED
    BY <2>1, <2>3, <2>4
<1>7. CASE Load(p) >= 1
  <2>1. /\ InRound /\ Pos(p) >= 3 /\ scenario[p] # "timeout"
        /\ scenario[p] = "normal" => p \in owed
        /\ scenario[p] = "invalid" => p \in owed /\ Told(p) = Pos(p)
        /\ scenario[p] = "duplicate" => p \in owed \/ Told(p) # 5
    BY <1>2, <1>7, LoadAllowed
  <2>2. ~(Told(p) = 3 + Due(p))
    BY <1>1, <1>7, <2>1, LoadAtEnd
  <2>3. /\ InRound' /\ Pos(p)' = Pos(p)
        /\ Told(p)' = Told(p) \/ (Hears(p) /\ Told(p)' = Told(p) + 1)
    BY <2>1, <2>2, ViewSteps
  <2>4. p \in owed' <=> p \in owed
    <3>1. ~\E n \in AllStages : Opens(n)
      BY <1>1, <2>1, OpensTold
    <3> QED
      BY <2>1, <3>1, OwedOpen
  <2>5. ASSUME Hears(p) PROVE p \notin owed /\ scenario[p] = "duplicate" /\ Told(p) = 3
    <3>1. Told(p) = AppliedAt(p) - 1 /\ p \notin owed
      BY <1>1, <1>2, <2>1, <2>5, HearsNext, ClientTyped
    <3> QED
      BY <1>2, <2>1, <3>1, ScenarioFacts DEF AppliedAt
  <2>6. Allowance(p)' = Allowance(p)
    <3>1. CASE Told(p)' = Told(p)
      BY <1>3, <2>1, <2>3, <2>4, <3>1 DEF Allowance
    <3>2. CASE Hears(p) /\ Told(p)' = Told(p) + 1
      <4>1. Told(p)' = 4 /\ p \notin owed' /\ scenario[p] = "duplicate" /\ Told(p) = 3
        BY <2>4, <2>5, <3>2
      <4> QED
        BY <1>3, <2>1, <2>3, <2>4, <4>1 DEF Allowance
    <3> QED
      BY <2>3, <3>1, <3>2
  <2>7. Load(p)' <= Allowance(p)'
    BY <1>2, <1>4, <2>6, LoadTyped DEF LoadFits
  <2>8. Request(p)' = Request(p)
    BY <1>3, <2>3 DEF Request
  <2> QED
    BY <1>2, <1>3, <2>1, <2>3, <2>7, <2>8 DEF LoadFits
<1> QED
  BY <1>4, <1>6, <1>7

\* The client takes in a message, and asks for what it calls for.
LEMMA LoadOfClient ==
    ASSUME FlowInv, NEW p \in Players, IsOpen(p), Client(p)
    PROVE  LoadFits(p)'
<1>1. /\ FlowTypeOK /\ EventsFit /\ PhaseFits(p) /\ InboxFits(p) /\ ToldFits(p) /\ OwesFits(p)
      /\ LoadFits(p)
  BY OpenInv
<1>2. /\ UNCHANGED <<choices, rejecting, owed, number, stage>> /\ scenario' = scenario
      /\ Due(p)' = Due(p) /\ InRound' = InRound /\ Told(p) >= Pos(p) + 1
      /\ Pos(p)' = Pos(p) + 1 /\ Told(p)' = Told(p)
  BY <1>1, ClientView, ClientTakes DEF Client, roomVars, stagesVars, workVars
<1>3. /\ Places(p)' = Places(p) /\ (Rejected(p)' <=> Rejected(p))
      /\ Pos(p) \in Nat /\ Told(p) \in Nat /\ Due(p) \in {1, 2} /\ outbox[p] \in Seq(Requests)
      /\ outbox \in [Players -> Seq(Requests)]
      /\ responses[p] \in Nat
  BY <1>1, <1>2, ClientTyped DEF Places, Rejected, FlowTypeOK
<1>4. Told(p) <= 3 + Due(p) /\ (Pos(p) >= 2 => InRound)
  <2>1. Heard \in Int /\ Heard <= 2
    BY <1>1, LenProperties DEF Heard, Published, FlowTypeOK
  <2> QED
    BY <1>1, <1>2, <1>3, <2>1 DEF ToldFits
<1>5. ASSUME Allowance(p) = 0
      PROVE  /\ outbox[p] = <<>> /\ Load(p)' = Unread(p)'
             /\ (/\ Unread(p)' <= Allowance(p)'
                 /\ \/ \A k \in 1..Len(outbox'[p]) : outbox'[p][k] = Request(p)'
                    \/ outbox'[p] = <<"ready">> /\ InRound' /\ Pos(p)' = 3 + Due(p)')
                => LoadFits(p)'
  <2>1. Places(p) = {} /\ ~Rejected(p) /\ outbox[p] = <<>>
    BY <1>1, <1>2, <1>3, <1>4, <1>5, LoadZero
  <2>2. Places(p)' = {} /\ ~Rejected(p)' /\ Cardinality(Places(p)') = 0
    BY <1>3, <2>1, FS_EmptySet
  <2>3. Unread(p)' \in Nat
    <3>1. outbox' \in [Players -> Seq(Requests)]
      BY <1>1, ObserveTypes DEF Client, ClientTypes
    <3> QED
      BY <3>1, LenProperties DEF Unread
  <2>4. Load(p)' = Unread(p)'
    BY <2>2, <2>3 DEF Load
  <2> QED
    BY <2>1, <2>2, <2>4 DEF LoadFits, Rejected
<1>6. CASE Pos(p) \in {0, 1}
  <2>1. Allowance(p) = 0 /\ outbox' = outbox
    BY <1>1, <1>6, ClientStarts, ClientEnds DEF Allowance
  <2>2. outbox'[p] = <<>> /\ Unread(p)' = 0 /\ Len(outbox'[p]) = 0
    BY <1>5, <2>1 DEF Unread
  <2>3. Allowance(p)' \in {0, 1, 2}
    BY DEF Allowance
  <2> QED
    BY <1>5, <2>1, <2>2, <2>3
<1>7. CASE Pos(p) = 2
  <2>1. Allowance(p) = 0
    BY <1>7 DEF Allowance
  <2>2. /\ outbox' = [outbox EXCEPT ![p] = @ \o FirstChoices[scenario[p]]]
        /\ InRound /\ InRound'
    BY <1>1, <1>2, <1>7, ClientChooses
  <2>3. outbox'[p] = FirstChoices[scenario[p]]
    <3>1. FirstChoices[scenario[p]] \in Seq(Requests)
      <4>1. \A s \in Scenarios : FirstChoices[s] \in Seq(Requests)
        <5>1. <<>> \in Seq(Requests) /\ <<"choose">> \in Seq(Requests)
              /\ <<"chooseUnoffered">> \in Seq(Requests) /\ <<"choose", "choose">> \in Seq(Requests)
          BY DEF Requests
        <5>2. FirstChoices["normal"] = <<"choose">> /\ FirstChoices["timeout"] = <<>>
          BY DEF FirstChoices
        <5>3. /\ FirstChoices["invalid"] = <<"chooseUnoffered">>
              /\ FirstChoices["duplicate"] = <<"choose", "choose">>
          BY DEF FirstChoices
        <5> HIDE DEF FirstChoices
        <5> QED
          BY <5>1, <5>2, <5>3, Zenon DEF Scenarios
      <4> QED
        BY <1>1, <4>1 DEF FlowTypeOK
    <3> QED
      BY <1>3, <1>5, <2>1, <2>2, <3>1, ConcatEmptySeq
  <2>4. Pos(p)' = 3 /\ Told(p)' = Told(p) /\ Told(p) >= 3
    BY <1>2, <1>7
  <2>5. scenario[p] # "timeout" => p \in owed /\ Told(p) = 3
    BY <1>1, <1>3, <1>7, <2>2, <2>4 DEF OwesFits, ToldFits, AppliedAt
  <2>6. CASE scenario[p] = "normal"
    <3>1. outbox'[p] = <<"choose">> /\ Request(p)' = "choose"
      BY <1>2, <2>3, <2>6 DEF FirstChoices, Request
    <3>2. Unread(p)' = 1 /\ Allowance(p)' = 1
      <4>1. Len(outbox'[p]) = 1 /\ Unread(p)' = 1
        BY <3>1 DEF Unread
      <4>2. /\ InRound' /\ Pos(p)' = 3 /\ scenario'[p] = "normal" /\ p \in owed'
            /\ Told(p)' = 3
        BY <1>2, <2>2, <2>4, <2>5, <2>6
      <4> QED
        BY <4>1, <4>2 DEF Allowance
    <3> QED
      BY <1>5, <2>1, <3>1, <3>2
  <2>7. CASE scenario[p] = "invalid"
    <3>1. outbox'[p] = <<"chooseUnoffered">> /\ Request(p)' = "chooseUnoffered"
      BY <1>2, <2>3, <2>4, <2>7 DEF FirstChoices, Request
    <3>2. Unread(p)' = 1 /\ Allowance(p)' = 1
      <4>1. Len(outbox'[p]) = 1 /\ Unread(p)' = 1
        BY <3>1 DEF Unread
      <4>2. /\ InRound' /\ Pos(p)' = 3 /\ scenario'[p] = "invalid" /\ p \in owed'
            /\ Told(p)' = 3
        BY <1>2, <2>2, <2>4, <2>5, <2>7
      <4> QED
        BY <4>1, <4>2 DEF Allowance
    <3> QED
      BY <1>5, <2>1, <3>1, <3>2
  <2>8. CASE scenario[p] = "duplicate"
    <3>1. outbox'[p] = <<"choose", "choose">> /\ Request(p)' = "choose"
      BY <1>2, <2>3, <2>8 DEF FirstChoices, Request
    <3>2. Unread(p)' = 2 /\ Allowance(p)' = 2
      <4>1. Len(outbox'[p]) = 2 /\ Unread(p)' = 2
        BY <3>1 DEF Unread
      <4>2. /\ InRound' /\ Pos(p)' = 3 /\ scenario'[p] = "duplicate" /\ p \in owed'
            /\ Told(p)' = 3
        BY <1>2, <2>2, <2>4, <2>5, <2>8
      <4> QED
        BY <4>1, <4>2 DEF Allowance
    <3>3. \A k \in 1..Len(outbox'[p]) : outbox'[p][k] = Request(p)'
      BY <3>1
    <3> QED
      BY <1>5, <2>1, <3>2, <3>3
  <2>9. CASE scenario[p] = "timeout"
    <3>1. outbox'[p] = <<>>
      BY <2>3, <2>9 DEF FirstChoices
    <3>2. Unread(p)' = 0 /\ Allowance(p)' = 0 /\ Len(outbox'[p]) = 0
      BY <1>2, <2>2, <2>4, <2>9, <3>1 DEF Unread, Allowance
    <3> QED
      BY <1>5, <2>1, <3>2
  <2> QED
    BY <1>1, <2>6, <2>7, <2>8, <2>9, ScenarioFacts
<1>8. CASE Pos(p) >= 3
  <2>1. /\ InRound /\ Pos(p) = 3 + responses[p] /\ responses[p] + 1 <= Due(p)
        /\ outbox' = [outbox EXCEPT ![p] = @ \o
                            (IF responses[p] + 1 = Due(p) THEN <<"ready">>
                             ELSE IF scenario[p] = "invalid" THEN <<"choose">> ELSE <<>>)]
    BY <1>1, <1>8, ClientHears
  <2>2. CASE responses[p] + 1 = Due(p)
    <3>1. Told(p) = 3 + Due(p) /\ Pos(p)' = 3 + Due(p)'
      BY <1>2, <1>3, <1>4, <2>1, <2>2
    <3>2. p \notin owed /\ Load(p) = 0
      BY <2>1, <3>1, LoadAtEnd
    <3>3. Allowance(p) = 0
      BY <1>1, <1>2, <1>3, <2>1, <2>2, <3>1, <3>2, ScenarioFacts DEF Allowance
    <3>4. outbox'[p] = <<"ready">>
      BY <1>3, <1>5, <2>1, <2>2, <3>3 DEF Requests
    <3>5. Unread(p)' = 0 /\ Allowance(p)' \in {0, 1, 2}
      BY <3>4 DEF Unread, Allowance
    <3> QED
      BY <1>2, <1>5, <2>1, <3>1, <3>3, <3>4, <3>5
  <2>3. CASE responses[p] + 1 # Due(p)
    <3>1. Pos(p) = 3 /\ Due(p) = 2 /\ Pos(p)' = 4
      BY <1>2, <1>3, <2>1, <2>3
    <3>2. CASE scenario[p] = "invalid"
      <4>1. p \in owed /\ Told(p) = 4 /\ Allowance(p) = 0
        <5>1. AppliedAt(p) = 5
          BY <3>2 DEF AppliedAt
        <5>2. p \in owed
          BY <1>1, <2>1, <3>1, <3>2, <5>1 DEF OwesFits
        <5>3. Told(p) < 5
          BY <1>1, <2>1, <5>1, <5>2 DEF OwesFits
        <5> QED
          BY <1>2, <1>3, <3>1, <3>2, <5>2, <5>3 DEF Allowance
      <4>2. outbox'[p] = <<"choose">>
        BY <1>3, <1>5, <2>1, <2>3, <3>2, <4>1 DEF Requests
      <4>3. Unread(p)' = 1 /\ Request(p)' = "choose" /\ Allowance(p)' = 1
        BY <1>2, <2>1, <3>1, <3>2, <4>1, <4>2 DEF Unread, Request, Allowance
      <4> QED
        BY <1>5, <4>1, <4>2, <4>3
    <3>3. CASE scenario[p] # "invalid"
      <4>1. scenario[p] = "duplicate"
        BY <1>1, <3>1, <3>3, ScenarioFacts
      <4>2. outbox'[p] = outbox[p]
        BY <1>3, <2>1, <2>3, <3>3, ConcatEmptySeq
      <4>3. Load(p)' = Load(p) /\ Request(p)' = Request(p)
        BY <1>2, <1>3, <3>3, <4>2 DEF Load, Unread, Request
      <4>4. Allowance(p)' = Allowance(p)
        BY <1>2, <2>1, <3>1, <4>1 DEF Allowance
      <4>5. ~(Pos(p) = 3 + Due(p))
        BY <3>1
      <4> QED
        BY <1>1, <1>2, <1>3, <4>1, <4>2, <4>3, <4>4, <4>5 DEF LoadFits
    <3> QED
      BY <3>2, <3>3
  <2> QED
    BY <2>2, <2>3
<1> QED
  <2>1. \A n \in Nat : n \in {0, 1} \/ n = 2 \/ n >= 3
    OBVIOUS
  <2> QED
    BY <1>3, <1>6, <1>7, <1>8, <2>1

\* A request of the client reaches the room.
LEMMA LoadOfRequest ==
    ASSUME FlowInv, NEW p \in Players, IsOpen(p), IsOpen(p)', HandleRewardChoice(p)
    PROVE  LoadFits(p)'
<1>1. FlowTypeOK /\ LoadFits(p)
  BY OpenInv
<1> DEFINE c == [player |-> p, item |-> ItemOf[Head(outbox[p])]]
<1>2. /\ outbox[p] # <<>> /\ outbox'[p] = Tail(outbox[p]) /\ Head(outbox[p]) \in DOMAIN ItemOf
      /\ choices' = Append(choices, c)
      /\ UNCHANGED <<rejecting, stagesVars, scenario, inbox, phase, cleared, offered, responses>>
  BY <1>1 DEF HandleRewardChoice, Reads, Refuse, IsOpen, FlowTypeOK, workVars
<1>3. Untouched(p) /\ UNCHANGED <<number, stage, owed>>
  BY <1>2 DEF Untouched, stagesVars
<1>4. /\ Pos(p)' = Pos(p) /\ Told(p)' = Told(p) /\ Due(p)' = Due(p) /\ InRound' = InRound
      /\ scenario' = scenario
  BY <1>2, <1>3, UntouchedView DEF InRound
<1>5. Allowance(p)' = Allowance(p) /\ Request(p)' = Request(p) /\ (Rejected(p)' <=> Rejected(p))
  BY <1>2, <1>3, <1>4 DEF Allowance, Request, Rejected
<1>6. /\ Head(outbox[p]) = outbox[p][1] /\ Len(outbox[p]) \in Nat \ {0}
      /\ Len(outbox'[p]) = Len(outbox[p]) - 1
      /\ \A k \in 1..Len(outbox'[p]) : outbox'[p][k] = outbox[p][k + 1]
      /\ outbox'[p] \in Seq(Requests)
  BY <1>1, <1>2, TailElements DEF FlowTypeOK
<1>7. Head(outbox[p]) \in {"choose", "chooseUnoffered"} /\ outbox[p] # <<"ready">>
  BY <1>2, <1>6 DEF ItemOf
<1>8. \A k \in 1..Len(outbox[p]) : outbox[p][k] = Request(p)
  BY <1>1, <1>7 DEF LoadFits
<1>9. Head(outbox[p]) = Request(p)
  BY <1>6, <1>8
<1>10. \A k \in 1..Len(outbox'[p]) : outbox'[p][k] = Request(p)'
  BY <1>5, <1>6, <1>8
<1>11. c \in Choice
  BY <1>7 DEF Choice, ItemOf
<1>12. /\ Cardinality(Places(p)') = Cardinality(Places(p)) + 1
       /\ \A k \in Places(p)' : \/ k \in Places(p) /\ choices'[k] = choices[k]
                                \/ choices'[k] = c
  <2>1. c.player = p
    OBVIOUS
  <2> HIDE DEF c
  <2> QED
    BY <1>1, <1>2, <1>11, <2>1, PlacesAppend
<1>13. Unread(p) = Len(outbox[p]) /\ Unread(p)' = Len(outbox[p]) - 1
  <2>1. outbox'[p] # <<"ready">>
    <3>1. SUFFICES ASSUME outbox'[p] = <<"ready">> PROVE FALSE
      OBVIOUS
    <3>2. outbox'[p][1] = "ready" /\ 1 \in 1..Len(outbox'[p])
      BY <3>1
    <3> QED
      BY <1>7, <1>9, <1>5, <1>10, <3>2
  <2> QED
    BY <1>6, <1>7, <2>1 DEF Unread
<1>14. Load(p)' = Load(p)
  <2> DEFINE x == Cardinality(Places(p))
             y == Len(outbox[p])
             z == IF Rejected(p) THEN 1 ELSE 0
  <2>1. Load(p) = y + x + z /\ x \in Nat /\ y \in Nat \ {0} /\ z \in Nat
    BY <1>1, <1>6, <1>13, LoadTyped DEF Load
  <2>2. Load(p)' = (y - 1) + (x + 1) + z
    BY <1>5, <1>12, <1>13 DEF Load
  <2> HIDE DEF x, y, z
  <2> QED
    BY <2>1, <2>2
<1>15. \A k \in Places(p)' : choices'[k].item = ItemOf[Request(p)']
  BY <1>1, <1>5, <1>9, <1>12 DEF LoadFits
<1> QED
  BY <1>1, <1>2, <1>4, <1>5, <1>10, <1>14, <1>15 DEF LoadFits

\* The client is ready, and the server hears of it.
LEMMA LoadOfReady ==
    ASSUME FlowInv, NEW p \in Players, IsOpen(p), IsOpen(p)', HandleNextStageRequest(p),
           outbox[p] # <<>>, Head(outbox[p]) = "ready", outbox'[p] = Tail(outbox[p])
    PROVE  /\ LoadFits(p)' /\ InRound /\ Pos(p) = 3 + Due(p) /\ outbox'[p] = <<>>
           /\ Pos(p)' = Pos(p) /\ Due(p)' = Due(p) /\ InRound' = InRound
<1>1. FlowTypeOK /\ LoadFits(p)
  BY OpenInv
<1>2. /\ UNCHANGED <<rejecting, choices, stagesVars, scenario, phase, cleared, offered, responses>>
      /\ UNCHANGED inbox
  BY <1>1 DEF HandleNextStageRequest, Refuse, IsOpen, FlowTypeOK, workVars, roomVars
<1>3. outbox[p] = <<"ready">> /\ InRound /\ Pos(p) = 3 + Due(p)
  <2>1. outbox[p][1] = "ready" /\ 1 \in 1..Len(outbox[p])
    BY <1>1, TailElements DEF FlowTypeOK
  <2>2. Request(p) # "ready"
    BY DEF Request
  <2> QED
    BY <1>1, <2>1, <2>2 DEF LoadFits
<1>4. outbox'[p] = <<>> /\ Len(outbox'[p]) = 0
  BY <1>3
<1>5. Untouched(p) /\ UNCHANGED <<number, stage, owed>>
  BY <1>2 DEF Untouched, stagesVars
<1>6. /\ Pos(p)' = Pos(p) /\ Told(p)' = Told(p) /\ Due(p)' = Due(p) /\ InRound' = InRound
      /\ scenario' = scenario
  BY <1>2, <1>5, UntouchedView DEF InRound
<1>7. /\ Allowance(p)' = Allowance(p) /\ Request(p)' = Request(p) /\ (Rejected(p)' <=> Rejected(p))
      /\ Places(p)' = Places(p)
  BY <1>2, <1>5, <1>6 DEF Allowance, Request, Rejected, Places
<1>8. Unread(p) = 0 /\ Unread(p)' = 0
  BY <1>3, <1>4 DEF Unread
<1>9. Load(p)' = Load(p)
  BY <1>7, <1>8 DEF Load
<1> QED
  BY <1>1, <1>2, <1>3, <1>4, <1>6, <1>7, <1>9 DEF LoadFits

\* The room takes a choice of a player.
LEMMA LoadOfChoice ==
    ASSUME FlowInv, ~Lagging, [Next]_vars, NEW p \in Players, IsOpen(p), IsOpen(p)', ApplyChoice,
           Head(choices).player = p
    PROVE  LoadFits(p)'
<1>1. FlowTypeOK /\ LoadFits(p) /\ OwesFits(p) /\ ToldFits(p) /\ OwedFits
  BY OpenInv
<1>2. /\ InRound /\ Pos(p) >= 3 /\ scenario[p] # "timeout" /\ Load(p) >= 1
      /\ Head(choices).item = ItemOf[Request(p)]
  BY ChoiceTaken
<1>3. /\ choices # <<>> /\ choices' = Tail(choices) /\ Untouched(p) /\ UNCHANGED <<number, outbox>>
      /\ scenario' = scenario
  BY DEF ApplyChoice, botVars, Untouched, Settle, stagesVars
<1>4. /\ Pos(p)' = Pos(p) /\ Told(p)' = Told(p) /\ InRound'
      /\ Pos(p) \in Nat /\ Told(p) \in Nat /\ Pos(p) <= Told(p)
  <2>1. InRound'
    BY <1>2 DEF ApplyChoice, Settle, After, InRound, stagesVars
  <2> QED
    BY <1>1, <1>3, <2>1, UntouchedView, ClientTyped
<1>5. Request(p)' = Request(p)
  BY <1>3, <1>4 DEF Request
<1>6. /\ Cardinality(Places(p)') = Cardinality(Places(p)) - 1
      /\ \A k \in Places(p)' : k + 1 \in Places(p) /\ choices'[k] = choices[k + 1]
  BY <1>1, <1>3, PlacesTail
<1>7. \A k \in Places(p)' : choices'[k].item = ItemOf[Request(p)']
  BY <1>1, <1>5, <1>6 DEF LoadFits
<1>8. \/ \A k \in 1..Len(outbox'[p]) : outbox'[p][k] = Request(p)'
      \/ outbox'[p] = <<"ready">> /\ InRound' /\ Pos(p)' = 3 + Due(p)'
  BY <1>1, <1>3, <1>4, <1>5, UntouchedView DEF LoadFits
<1>9. /\ Unread(p)' = Unread(p) /\ Unread(p) \in Nat
      /\ Cardinality(Places(p)) \in Nat
  BY <1>1, <1>3, LoadTyped DEF Unread
<1> DEFINE x == Unread(p)
           y == Cardinality(Places(p))
           z == IF Rejected(p) THEN 1 ELSE 0
           w == IF Rejected(p)' THEN 1 ELSE 0
<1>10. /\ Load(p) = x + y + z /\ Load(p)' = x + (y - 1) + w
       /\ x \in Nat /\ y \in Nat /\ z \in {0, 1} /\ w \in {0, 1}
       /\ z = w => Load(p)' = Load(p) - 1
       /\ Load(p)' <= Load(p)
       /\ Load(p) \in Nat
  <2>1. Load(p) = x + y + z /\ Load(p)' = x + (y - 1) + w
    BY <1>6, <1>9 DEF Load
  <2>2. x \in Nat /\ y \in Nat /\ z \in {0, 1} /\ w \in {0, 1} /\ (Rejected(p) => z = 1)
    BY <1>9
  <2> HIDE DEF x, y, z, w
  <2> QED
    BY <2>1, <2>2
<1>11. Load(p) <= Allowance(p) /\ Allowance(p) \in {0, 1, 2}
  BY <1>1, LoadTyped DEF LoadFits
<1>12. ASSUME Settle({p}), UNCHANGED rejecting PROVE LoadFits(p)'
  <2>1. (Rejected(p)' <=> Rejected(p)) /\ p \in owed /\ p \notin owed'
    BY <1>12 DEF Rejected, Settle
  <2>2. Load(p)' = Load(p) - 1
    BY <1>10, <2>1
  <2>3. Allowance(p)' >= Load(p)'
    <3>1. CASE scenario[p] = "normal"
      <4>1. Allowance(p) = 1 /\ Allowance(p)' = 0
        BY <1>2, <1>3, <1>4, <2>1, <3>1 DEF Allowance
      <4> QED
        BY <1>10, <1>11, <2>2, <4>1
    <3>2. CASE scenario[p] = "invalid"
      <4>1. Allowance(p) <= 1 /\ Allowance(p)' = 0
        BY <1>2, <1>3, <1>4, <2>1, <3>2 DEF Allowance
      <4> QED
        BY <1>10, <1>11, <2>2, <4>1
    <3>3. CASE scenario[p] = "duplicate"
      <4>1. Told(p) < 4
        BY <1>1, <1>2, <2>1, <3>3 DEF OwesFits, AppliedAt
      <4>2. Allowance(p) = 2 /\ Allowance(p)' = 1
        BY <1>2, <1>3, <1>4, <2>1, <3>3, <4>1 DEF Allowance
      <4> QED
        BY <1>10, <1>11, <2>2, <4>2
    <3> QED
      BY <1>1, <1>2, <3>1, <3>2, <3>3, ScenarioFacts
  <2>4. \A r \in rejecting' : r.player = p =>
           \/ scenario'[p] = "invalid" /\ Pos(p)' = 3 /\ r.item = "unoffered" /\ ~r.waits
           \/ scenario'[p] = "duplicate" /\ r.item = "chosen" /\ r.waits
    BY <1>1, <1>3, <1>4, <1>12 DEF LoadFits
  <2>5. Load(p)' <= Allowance(p)'
    BY <1>10, <1>11, <2>2, <2>3
  <2> QED
    BY <1>7, <1>8, <2>4, <2>5 DEF LoadFits
<1>13. ASSUME NEW r0, r0 = [player |-> p, item |-> Head(choices).item,
                            waits |-> ~(stage = "Reward" /\ p \in owed)],
              ~(stage = "Reward" /\ p \in owed /\ Head(choices).item = "chosen"),
              UNCHANGED stagesVars, rejecting' = rejecting \cup {r0}
       PROVE  LoadFits(p)'
  <2>1. /\ Allowance(p)' = Allowance(p)
        /\ p \in owed => stage = "Reward"
    BY <1>1, <1>2, <1>3, <1>4, <1>13 DEF Allowance, stagesVars, OwedFits
  <2>2. \/ scenario[p] = "invalid" /\ Pos(p) = 3 /\ r0.item = "unoffered" /\ ~r0.waits
        \/ scenario[p] = "duplicate" /\ r0.item = "chosen" /\ r0.waits
    <3>1. /\ scenario[p] = "normal" => p \in owed
          /\ scenario[p] = "invalid" => p \in owed
      BY <1>1, <1>2, LoadAllowed
    <3>2. Request(p) \in {"choose", "chooseUnoffered"}
          /\ (Request(p) = "chooseUnoffered" <=> scenario[p] = "invalid" /\ Pos(p) = 3)
      BY DEF Request
    <3>3. ItemOf["choose"] = "chosen" /\ ItemOf["chooseUnoffered"] = "unoffered"
      BY DEF ItemOf
    <3>4. r0.item = ItemOf[Request(p)] /\ (r0.waits <=> ~(stage = "Reward" /\ p \in owed))
      BY <1>2, <1>13
    <3>5. CASE scenario[p] = "invalid" /\ Pos(p) = 3
      BY <2>1, <3>1, <3>2, <3>3, <3>4, <3>5
    <3>6. CASE ~(scenario[p] = "invalid" /\ Pos(p) = 3)
      <4>1. Head(choices).item = "chosen"
        BY <1>2, <3>2, <3>3, <3>6
      <4>2. p \notin owed
        BY <1>13, <2>1, <4>1
      <4>3. scenario[p] = "duplicate"
        BY <1>1, <1>2, <3>1, <4>2, ScenarioFacts
      <4> QED
        BY <3>2, <3>3, <3>4, <3>6, <4>2, <4>3
    <3> QED
      BY <3>5, <3>6
  <2>3. \A r \in rejecting' : r.player = p =>
           \/ scenario'[p] = "invalid" /\ Pos(p)' = 3 /\ r.item = "unoffered" /\ ~r.waits
           \/ scenario'[p] = "duplicate" /\ r.item = "chosen" /\ r.waits
    BY <1>1, <1>3, <1>4, <1>13, <2>2 DEF LoadFits
  <2>4. Load(p)' <= Allowance(p)'
    <3>1. Load(p)' <= Load(p) /\ Load(p) <= Allowance(p)
      BY <1>10, <1>11
    <3>2. Load(p)' \in Int
      BY <1>10
    <3> QED
      BY <1>10, <1>11, <2>1, <3>1, <3>2
  <2> QED
    BY <1>7, <1>8, <2>3, <2>4 DEF LoadFits
<1>14. \/ Settle({p}) /\ UNCHANGED rejecting
       \/ /\ ~(stage = "Reward" /\ p \in owed /\ Head(choices).item = "chosen")
          /\ UNCHANGED stagesVars
          /\ rejecting' = rejecting \cup {[player |-> p, item |-> Head(choices).item,
                                           waits |-> ~(stage = "Reward" /\ p \in owed)]}
  BY DEF ApplyChoice
<1> QED
  BY <1>12, <1>13, <1>14

\* The server answers a choice that it refuses.
LEMMA LoadOfRefusal ==
    ASSUME FlowInv, ~Lagging, [Next]_vars, NEW p \in Players, IsOpen(p), IsOpen(p)', Reject,
           NEW r \in rejecting, RejectOf(r), r.player = p
    PROVE  LoadFits(p)'
<1>1. /\ FlowTypeOK /\ LoadFits(p) /\ OwesFits(p) /\ ToldFits(p) /\ DeliveredFits(p)
  BY OpenInv
<1>2. /\ InRound /\ Pos(p) >= 3
      /\ \/ scenario[p] = "invalid" /\ Told(p) = 3 /\ Pos(p) = 3 /\ p \in owed
         \/ scenario[p] = "duplicate" /\ Told(p) = 4 /\ p \notin owed /\ p \in delivered
  BY <1>1, RefusalNext
<1>3. /\ UNCHANGED <<choices, outbox, stagesVars>> /\ scenario' = scenario
      /\ rejecting' = rejecting \ {r}
  BY DEF Reject, RejectOf, ServerOnly, roomVars
<1>4. Load(p) = 1 /\ Rejected(p) /\ Unread(p) = 0 /\ Places(p) = {}
  <2>1. Load(p) <= Allowance(p) /\ Load(p) \in Nat /\ Rejected(p)
    BY <1>1, LoadTyped DEF LoadFits, Rejected
  <2>2. Allowance(p) = 1
    <3>1. Pos(p) \in Nat
      BY <1>1, ClientTyped
    <3>2. CASE scenario[p] = "invalid"
      BY <1>2, <3>1, <3>2 DEF Allowance
    <3>3. CASE scenario[p] = "duplicate"
      BY <1>2, <3>1, <3>3 DEF Allowance
    <3> QED
      BY <1>2, <3>2, <3>3
  <2>3. Load(p) = 1
    BY <1>1, <2>1, <2>2, LoadTyped
  <2>4. Places(p) = {}
    BY <1>1, <2>1, <2>3, LoadTyped
  <2>5. Cardinality(Places(p)) = 0
    BY <2>4, FS_EmptySet
  <2>6. Unread(p) = 0
    BY <1>1, <2>1, <2>3, <2>5, LoadTyped DEF Load
  <2> QED
    BY <2>1, <2>3, <2>4, <2>6
<1>5. outbox[p] = <<>>
  <2>1. outbox[p] = <<>> \/ outbox[p] = <<"ready">>
    BY <1>1, <1>4, EmptySeq DEF Unread, FlowTypeOK
  <2>2. ASSUME outbox[p] = <<"ready">> PROVE FALSE
    <3>1. Len(outbox[p]) = 1 /\ outbox[p][1] = "ready" /\ Request(p) # "ready"
      BY <2>2 DEF Request
    <3>2. Pos(p) = 3 + Due(p)
      BY <1>1, <3>1 DEF LoadFits
    <3> QED
      BY <1>1, <1>2, <3>2, ClientTyped, ScenarioFacts
  <2> QED
    BY <2>1, <2>2
<1>6. \A q \in rejecting : q.player = p => q = r
  <2>1. SUFFICES ASSUME NEW q \in rejecting, q.player = p PROVE q = r
    OBVIOUS
  <2>2. q.item = r.item /\ q.waits = r.waits
    <3>1. q.waits \in BOOLEAN /\ r.waits \in BOOLEAN
      BY <1>1 DEF FlowTypeOK, Refusal
    <3> QED
      BY <1>1, <2>1, <3>1 DEF LoadFits
  <2>3. /\ q = [player |-> q.player, item |-> q.item, waits |-> q.waits]
        /\ r = [player |-> r.player, item |-> r.item, waits |-> r.waits]
    BY <1>1 DEF FlowTypeOK, Refusal
  <2> QED
    BY <2>1, <2>2, <2>3
<1>7. ~(\E q \in rejecting' : q.player = p) /\ Places(p)' = {} /\ outbox'[p] = <<>>
  BY <1>3, <1>4, <1>5, <1>6 DEF Places
<1>8. Load(p)' = 0 /\ Allowance(p)' \in {0, 1, 2}
  <2>1. Cardinality(Places(p)') = 0
    BY <1>7, FS_EmptySet
  <2>2. Unread(p)' = 0 /\ ~Rejected(p)'
    BY <1>7 DEF Unread, Rejected
  <2>3. Allowance(p)' \in {0, 1, 2}
    BY DEF Allowance
  <2> QED
    BY <2>1, <2>2, <2>3 DEF Load
<1>9. Len(outbox'[p]) = 0
  BY <1>7
<1> QED
  BY <1>7, <1>8, <1>9 DEF LoadFits

\* The answers on their way to a client are those that its script allows.
LEMMA LoadKept ==
    ASSUME FlowInv, ~Lagging, [Next]_vars, NEW p \in Players, IsOpen(p)'
    PROVE  LoadFits(p)'
<1>1. IsOpen(p)
  BY StepViews
<1>2. FlowTypeOK /\ LoadFits(p)
  BY <1>1, OpenInv
<1>3. CASE Client(p)
  BY <1>1, <1>3, LoadOfClient
<1>4. CASE HandleRewardChoice(p)
  BY <1>1, <1>4, LoadOfRequest
<1>5. CASE /\ HandleNextStageRequest(p) /\ outbox[p] # <<>>
           /\ Head(outbox[p]) = "ready" /\ outbox'[p] = Tail(outbox[p])
  BY <1>1, <1>5, LoadOfReady
<1>6. CASE ApplyChoice /\ Head(choices).player = p
  BY <1>1, <1>6, LoadOfChoice
<1>7. ASSUME NEW r \in rejecting, Reject, RejectOf(r), r.player = p PROVE LoadFits(p)'
  BY <1>1, <1>7, LoadOfRefusal
<1>8. ASSUME outbox'[p] = outbox[p], ~Client(p), ~(ApplyChoice /\ Head(choices).player = p),
             ~HandleRewardChoice(p), ~\E r \in rejecting : Reject /\ RejectOf(r) /\ r.player = p
      PROVE  LoadFits(p)'
  <2>1. /\ Cardinality(Places(p)') <= Cardinality(Places(p)) /\ Cardinality(Places(p)') \in Nat
        /\ \A k \in Places(p)' : \E j \in Places(p) : choices'[k].item = choices[j].item
    <3>1. CASE UNCHANGED choices
      <4>1. Places(p)' = Places(p) /\ Cardinality(Places(p)) \in Nat
        BY <1>2, <3>1, LoadTyped DEF Places
      <4> QED
        BY <3>1, <4>1
    <3>2. CASE ApplyChoice
      <4>1. choices # <<>> /\ choices' = Tail(choices) /\ Head(choices).player # p
        BY <1>8, <3>2 DEF ApplyChoice
      <4>2. /\ Cardinality(Places(p)') = Cardinality(Places(p)) - 0
            /\ Cardinality(Places(p)') \in Nat /\ Cardinality(Places(p)) \in Nat
            /\ \A k \in Places(p)' : k + 1 \in Places(p) /\ choices'[k] = choices[k + 1]
        BY <1>2, <4>1, PlacesTail, LoadTyped
      <4> QED
        BY <4>2
    <3>3. ASSUME NEW q \in Players, HandleRewardChoice(q), Head(outbox[q]) \in DOMAIN ItemOf,
                 choices' = Append(choices, [player |-> q, item |-> ItemOf[Head(outbox[q])]])
          PROVE  /\ Cardinality(Places(p)') <= Cardinality(Places(p)) /\ Cardinality(Places(p)') \in Nat
                 /\ \A k \in Places(p)' : \E j \in Places(p) : choices'[k].item = choices[j].item
      <4>1. q # p
        BY <1>8, <3>3
      <4> DEFINE c == [player |-> q, item |-> ItemOf[Head(outbox[q])]]
      <4>2. c \in Choice /\ c.player # p
        BY <3>3, <4>1 DEF Choice, ItemOf
      <4> HIDE DEF c
      <4>3. /\ Cardinality(Places(p)') = Cardinality(Places(p)) + 0
            /\ Cardinality(Places(p)) \in Nat
            /\ \A k \in Places(p)' : k \in Places(p) /\ choices'[k] = choices[k]
        <5>1. choices' = Append(choices, c)
          BY <3>3 DEF c
        <5> QED
          BY <1>2, <4>2, <5>1, PlacesAppend, LoadTyped
      <4> QED
        BY <4>3
    <3> QED
      BY <1>2, <3>1, <3>2, <3>3, ChoiceSteps
  <2>2. \A r \in rejecting' : r.player = p => r \in rejecting
    <3>1. CASE ApplyChoice
      <4>1. Head(choices).player # p
        BY <1>8, <3>1
      <4> QED
        BY <3>1, <4>1 DEF ApplyChoice
    <3>2. CASE \E r \in rejecting : RejectOf(r)
      BY <3>2 DEF RejectOf
    <3> QED
      BY <1>2, <3>1, <3>2, RejectingSteps
  <2>3. p \in owed /\ p \notin owed' => scenario[p] = "timeout"
    BY <1>8, OwedOpen
  <2>4. ~\E r \in rejecting : RejectOf(r) /\ r.player = p
    <3>1. SUFFICES ASSUME NEW r \in rejecting, RejectOf(r), r.player = p PROVE FALSE
      OBVIOUS
    <3>2. rejecting' = rejecting \ {r} /\ r \in rejecting
      BY <3>1 DEF RejectOf
    <3>3. PICK q \in rejecting : Reject /\ RejectOf(q)
      BY <1>2, <3>2, RejectingSteps
    <3>4. q = r
      BY <3>2, <3>3 DEF RejectOf
    <3> QED
      BY <1>8, <3>1, <3>3, <3>4
  <2> QED
    BY <1>8, <2>1, <2>2, <2>3, <2>4, LoadIdle
<1> QED
  BY <1>2, <1>3, <1>4, <1>5, <1>6, <1>7, <1>8, OutboxSteps

-----------------------------------------------------------------------------
(* What the clients rely on *)

\* The observer of the rewards has a message for a connected player.
LEMMA NoticeHeard ==
    ASSUME FlowInv, ~Lagging, [Next]_vars, NEW p \in Players, IsOpen(p)', SendNotice,
           notice.update.to = p
    PROVE  Hears(p) /\ Told(p)' = Told(p) + 1 /\ Pos(p)' = Pos(p)
<1>1. IsOpen(p)
  BY StepViews
<1>2. FlowTypeOK /\ inbox[p] \in Seq(Message)
  BY <1>1, OpenInv, ClientTyped
<1>3. Wording(notice.update) \in Message
  BY <1>2, NoticeTypes, UpdateTypes DEF SendNotice, FlowTypeOK
<1>4. Len(inbox'[p]) = Len(inbox[p]) + 1 /\ Len(inbox[p]) \in Nat
  <2>1. Deliver({p}, Wording(notice.update))
    BY DEF SendNotice
  <2>2. inbox'[p] = Append(inbox[p], Wording(notice.update))
    BY <1>1, <1>2, <1>3, <2>1, DeliverEffect DEF IsOpen
  <2> QED
    BY <1>2, <1>3, <2>2, AppendElements
<1>5. ~Untouched(p)
  BY <1>4 DEF Untouched
<1>6. ~Client(p)
  <2>1. SendNotice => notice' # notice
    BY <1>2, NoticeTypes DEF SendNotice, FlowTypeOK, Notice
  <2> QED
    BY <2>1 DEF Client, workVars
<1>7. Hears(p)
  BY <1>2, <1>5, <1>6, ClientSteps
<1> QED
  BY <1>1, <1>7, HearsFit

\* A player without its options finds them in the line.
LEMMA OptionsKept ==
    ASSUME FlowInv, ~Lagging, [Next]_vars, NEW p \in Players, IsOpen(p)'
    PROVE  OptionsFit(p)'
<1>1. IsOpen(p)
  BY StepViews
<1>2. FlowTypeOK /\ ToldFits(p) /\ OptionsFit(p) /\ MembersFit /\ Told(p) \in Nat
  BY <1>1, OpenInv, ClientTyped
<1>3. Line \in Seq(Update) /\ Len(Line) \in Nat
  BY <1>2, LineView
<1>4. SUFFICES ASSUME InRound', Told(p)' = 2
               PROVE  \E k \in 1..Len(Line') : Line'[k].kind = "options" /\ Line'[k].to = p
  BY DEF OptionsFit
<1>5. ASSUME NEW n \in AllStages, Opens(n)
      PROVE  \E k \in 1..Len(Line') : Line'[k].kind = "options" /\ Line'[k].to = p
  <2> DEFINE U == {Options(q) : q \in members}
             b == SetToSeq(U)
  <2>1. p \in members /\ members \in SUBSET Players
    BY <1>1, <1>2 DEF MembersFit, IsOpen, FlowTypeOK
  <2>2. b \in Seq(Update) /\ \E k \in 1..Len(b) : b[k] = Options(p)
    BY <1>2, <2>1, RoundOrdered
  <2>3. updates' = updates \o b /\ UNCHANGED notice
    BY <1>5 DEF Opens, StartReward, OpenRound
  <2> HIDE DEF b
  <2>4. Line' = Line \o b
    BY <1>2, <2>2, <2>3, LineGrows
  <2>5. PICK k \in 1..Len(b) : b[k] = Options(p)
    BY <2>2
  <2>6. Len(Line) + k \in 1..Len(Line') /\ Line'[Len(Line) + k] = Options(p)
    BY <1>3, <2>2, <2>4, <2>5, ConcatElements
  <2>7. Options(p).kind = "options" /\ Options(p).to = p
    BY DEF Options
  <2> QED
    BY <2>6, <2>7
<1>6. CASE ~\E n \in AllStages : Opens(n)
  <2>1. InRound /\ (Told(p)' = Told(p) \/ Told(p)' = Told(p) + 1)
    BY <1>4, <1>6, ViewSteps
  <2>2. Told(p) = 2
    BY <1>2, <1>4, <2>1 DEF ToldFits
  <2>3. PICK k \in 1..Len(Line) : Line[k].kind = "options" /\ Line[k].to = p
    BY <1>2, <2>1, <2>2 DEF OptionsFit
  <2>4. CASE Line' = Line
    BY <2>3, <2>4
  <2>5. CASE Line # <<>> /\ Line' = Tail(Line) /\ Head(Line).to # p
    <3>1. k # 1 /\ k - 1 \in 1..Len(Line') /\ Line'[k - 1] = Line[(k - 1) + 1] /\ (k - 1) + 1 = k
      BY <1>3, <2>3, <2>5, TailElements
    <3> QED
      BY <2>3, <3>1
  <2>6. ASSUME NEW b \in Seq(Update), Line' = Line \o b
        PROVE  \E j \in 1..Len(Line') : Line'[j].kind = "options" /\ Line'[j].to = p
    <3>1. k \in 1..Len(Line') /\ Line'[k] = Line[k]
      BY <1>3, <2>3, <2>6, ConcatElements
    <3> QED
      BY <2>3, <3>1
  <2>7. CASE Deadline /\ Line' = Line \o SetToSeq({Applied(q, "first") : q \in owed})
    <3>1. SetToSeq({Applied(q, "first") : q \in owed}) \in Seq(Update)
      BY <1>2, RoundOrdered DEF FlowTypeOK
    <3> QED
      BY <2>6, <2>7, <3>1
  <2>8. CASE ApplyChoice /\ Settle({Head(choices).player})
                  /\ Line' = Line \o <<Applied(Head(choices).player, "chosen")>>
    <3>1. Applied(Head(choices).player, "chosen") \in Update
      BY <1>2, <2>8, NewUpdateTypes DEF Settle, FlowTypeOK
    <3>2. <<Applied(Head(choices).player, "chosen")>> \in Seq(Update)
      BY <3>1
    <3> QED
      BY <2>6, <2>8, <3>2
  <2>9. CASE SendNotice /\ Line # <<>> /\ Line' = Tail(Line) /\ Head(Line) = notice.update
    <3>1. notice.update.to # p
      <4>1. SUFFICES ASSUME notice.update.to = p PROVE FALSE
        OBVIOUS
      <4>2. Told(p)' = Told(p) + 1
        BY <2>9, <4>1, NoticeHeard
      <4> QED
        BY <1>4, <2>2, <4>2
    <3> QED
      BY <2>5, <2>9, <3>1
  <2>10. CASE Line # <<>> /\ Line' = Tail(Line) /\ ~IsOpen(Head(Line).to)
    BY <1>1, <2>5, <2>10
  <2> QED
    BY <1>2, <1>6, <2>4, <2>7, <2>8, <2>9, <2>10, LineSteps
<1> QED
  BY <1>5, <1>6

\* What comes into the line after the options is an answer.
LEMMA LineElements ==
    ASSUME FlowInv, [Next]_vars, ~\E n \in AllStages : Opens(n), NEW k \in 1..Len(Line')
    PROVE  (\E j \in 1..Len(Line) : Line'[k] = Line[j]) \/ Line'[k].kind = "applied"
<1>1. FlowTypeOK
  BY DEF FlowInv
<1>2. Line \in Seq(Update) /\ Len(Line) \in Nat
  BY <1>1, LineView
<1>3. CASE Line' = Line
  BY <1>3
<1>4. CASE Line # <<>> /\ Line' = Tail(Line)
  <2>1. Line'[k] = Line[k + 1] /\ k + 1 \in 1..Len(Line)
    BY <1>2, <1>4, TailElements
  <2> QED
    BY <2>1
<1>5. ASSUME NEW b \in Seq(Update), Line' = Line \o b, \A i \in 1..Len(b) : b[i].kind = "applied"
      PROVE  (\E j \in 1..Len(Line) : Line'[k] = Line[j]) \/ Line'[k].kind = "applied"
  <2>1. /\ Len(b) \in Nat /\ k \in 1..(Len(Line) + Len(b))
        /\ \A i \in 1..Len(Line) : Line'[i] = Line[i]
        /\ \A i \in 1..Len(b) : Line'[Len(Line) + i] = b[i]
    BY <1>2, <1>5, ConcatElements
  <2>2. CASE k <= Len(Line)
    BY <1>2, <2>1, <2>2
  <2>3. CASE ~(k <= Len(Line))
    <3>1. k - Len(Line) \in 1..Len(b) /\ Len(Line) + (k - Len(Line)) = k
      BY <1>2, <2>1, <2>3
    <3>2. Line'[k] = b[k - Len(Line)]
      BY <2>1, <3>1
    <3> QED
      BY <1>5, <3>1, <3>2
  <2> QED
    BY <2>2, <2>3
<1>6. CASE Deadline /\ Line' = Line \o SetToSeq({Applied(p, "first") : p \in owed})
  <2> DEFINE b == SetToSeq({Applied(p, "first") : p \in owed})
  <2>1. b \in Seq(Update) /\ \A i \in 1..Len(b) : b[i] \in {Applied(p, "first") : p \in owed}
    BY <1>1, RoundOrdered DEF FlowTypeOK
  <2>2. \A u \in {Applied(p, "first") : p \in owed} : u.kind = "applied"
    BY DEF Applied
  <2>3. \A i \in 1..Len(b) : b[i].kind = "applied"
    BY <2>1, <2>2
  <2> HIDE DEF b
  <2> QED
    BY <1>5, <1>6, <2>1, <2>3 DEF b
<1>7. CASE ApplyChoice /\ Settle({Head(choices).player})
               /\ Line' = Line \o <<Applied(Head(choices).player, "chosen")>>
  <2> DEFINE b == <<Applied(Head(choices).player, "chosen")>>
  <2>1. Applied(Head(choices).player, "chosen") \in Update
    BY <1>1, <1>7, NewUpdateTypes DEF Settle, FlowTypeOK
  <2>2. Applied(Head(choices).player, "chosen").kind = "applied"
    BY DEF Applied
  <2>3. b \in Seq(Update) /\ \A i \in 1..Len(b) : b[i].kind = "applied"
    BY <2>1, <2>2
  <2> HIDE DEF b
  <2> QED
    BY <1>5, <1>7, <2>3 DEF b
<1> QED
  BY <1>1, <1>3, <1>4, <1>6, <1>7, LineSteps

\* What a step does to the players whose reward counts.
LEMMA RewardedSteps ==
    ASSUME FlowTypeOK, [Next]_vars
    PROVE  \/ UNCHANGED rewarded
           \/ /\ TakeUpdate /\ Head(updates).kind = "applied" /\ UNCHANGED <<stagesVars, begins>>
              /\ rewarded' = rewarded \cup {Head(updates).to}
           \/ rewarded' = {}
<1>1. CASE UNCHANGED vars \/ Fights \/ Deadline \/ ApplyChoice \/ ObserveEvent \/ Reject
  BY <1>1
     DEF vars, activeVars, Fights, FightEnds, Deadline, ApplyChoice, ObserveEvent, Reject
<1>2. CASE ObserveRewards
  BY <1>2 DEF ObserveRewards, TakeUpdate, SendNotice, MarkDelivered, activeVars
<1>3. CASE \E n \in AllStages : Begin(n)
  BY <1>3 DEF Begin, BeginRewardStage, StartReward, EnterSnapshot, EnterReward, activeVars
<1>4. CASE Advance
  BY <1>4 DEF Advance, Decide, StartStage, LeaveSnapshot, LeaveReward, EndAdvance, activeVars
<1>5. ASSUME NEW p \in Players, Handle(p) \/ Client(p) \/ Hangup(p) \/ Disconnected(p) \/ LeaveRoom(p)
      PROVE  UNCHANGED rewarded
  BY <1>5 DEF Handle, HandleRewardChoice, HandleNextStageRequest, TryAdvanceStage, Client, Hangup,
              Disconnected, LeaveRoom, activeVars
<1> QED
  BY <1>1, <1>2, <1>3, <1>4, <1>5 DEF Next, Fights

\* A goroutine at StartReward belongs to the stage that is played, and forgets
\* the rewards of the one before it when it gets there.
LEMMA RewardBegins ==
    ASSUME FlowInv, [Next]_vars, begins'[number'] = "reward"
    PROVE  \/ begins[number] = "reward" /\ number' = number
           \/ rewarded' = {} /\ delivered' = {} /\ ready' = {}
<1>1. FlowTypeOK /\ EventsFit /\ BeginsFit /\ AdvancesFit /\ BeginsInTime /\ AdvancesInTime
  BY DEF FlowInv, RoomFits
<1>2. number \in AllStages /\ begins \in [AllStages -> {"none", "start", "reward", "snapshot", "enter", "done"}]
  BY <1>1 DEF FlowTypeOK
<1>3. CASE \E k \in DOMAIN advances : Starts(k)
  <2>1. number' = number + 1 /\ begins' = begins /\ number' \in AllStages
    <3>1. FlowTypeOK'
      BY <1>1, StepsKeepTypes
    <3> QED
      BY <1>1, <1>3, <3>1, StartsEffect DEF Starts, StartStage, FlowTypeOK
  <2>2. number + 1 # number
    BY <1>2 DEF AllStages
  <2> QED
    BY <1>1, <2>1, <2>2 DEF BeginsFit
<1>4. CASE ~\E k \in DOMAIN advances : Starts(k)
  <2>1. number' = number
    BY <1>1, <1>4, StageSteps, FightsEffect, OpensEffect DEF SameStage
  <2>2. CASE UNCHANGED begins
    BY <2>1, <2>2
  <2>3. CASE ObserveEvent
    BY <1>2, <2>1, <2>3 DEF ObserveEvent, StartsBegin
  <2>4. ASSUME NEW n \in AllStages, Begin(n)
        PROVE  \/ begins[number] = "reward"
               \/ rewarded' = {} /\ delivered' = {} /\ ready' = {}
    BY <1>2, <2>1, <2>4
       DEF Begin, BeginRewardStage, StartReward, EnterSnapshot, EnterReward, BeginGoto
  <2> QED
    BY <1>1, <2>1, <2>2, <2>3, <2>4, BeginSteps
<1> QED
  BY <1>3, <1>4

\* Once a choice was applied, the options of every connected player are out.
LEMMA RewardedKept ==
    ASSUME FlowInv, ~Lagging, [Next]_vars, NEW p \in Players, IsOpen(p)'
    PROVE  RewardedFits(p)'
<1>1. IsOpen(p)
  BY StepViews
<1>2. FlowTypeOK /\ RewardedFits(p) /\ LineFits /\ EventsFit /\ BeginsFit /\ number \in AllStages
      /\ BeginsInTime
  BY <1>1, OpenInv DEF FlowTypeOK
<1>3. Line \in Seq(Update) /\ Len(Line) \in Nat
  BY <1>2, LineView
<1>4. SUFFICES ASSUME p \in rewarded'
               PROVE  /\ InRound' => \A k \in 1..Len(Line') :
                                         conn'[Line'[k].to] = "open" => Line'[k].kind = "applied"
                      /\ begins'[number'] # "reward"
  BY DEF RewardedFits, IsOpen
<1>5. rewarded' # {}
  BY <1>4
<1>6. /\ InRound => \A k \in 1..Len(Line) : IsOpen(Line[k].to) => Line[k].kind = "applied"
      /\ begins[number] # "reward"
  <2>1. CASE p \in rewarded
    BY <1>2, <2>1 DEF RewardedFits
  <2>2. CASE TakeUpdate /\ Head(updates).kind = "applied" /\ Head(updates).to = p
    <3>1. Line = updates /\ updates # <<>>
      BY <1>2, <2>2, LineView DEF TakeUpdate
    <3>2. Line[1] = Head(updates) /\ 1 \in 1..Len(Line)
      BY <1>3, <3>1, TailElements
    <3>3. InRound
      BY <1>1, <1>2, <2>2, <3>2 DEF LineFits, Timely
    <3>4. ASSUME NEW k \in 1..Len(Line), IsOpen(Line[k].to) PROVE Line[k].kind = "applied"
      <4>1. CASE k = 1
        BY <2>2, <3>2, <4>1
      <4>2. CASE k # 1
        BY <1>1, <1>2, <1>3, <2>2, <3>2, <3>4, <4>2 DEF LineFits, Ordered
      <4> QED
        BY <4>1, <4>2
    <3>5. begins[number] # "reward"
      BY <1>2, <3>3 DEF BeginsFit, BeginsInTime, InRound
    <3> QED
      BY <3>4, <3>5
  <2> QED
    BY <1>2, <1>4, <1>5, <2>1, <2>2, RewardedSteps
<1>7. begins'[number'] # "reward"
  BY <1>5, <1>6, RewardBegins
<1>8. ASSUME InRound', NEW k \in 1..Len(Line'), conn'[Line'[k].to] = "open"
      PROVE  Line'[k].kind = "applied"
  <2>1. ~\E n \in AllStages : Opens(n)
    BY <1>2, <1>6, OpensEffect
  <2>2. InRound
    BY <1>8, <2>1, ViewSteps
  <2>3. CASE \E j \in 1..Len(Line) : Line'[k] = Line[j]
    <3>1. PICK j \in 1..Len(Line) : Line'[k] = Line[j]
      BY <2>3
    <3>2. PICK q \in Players : q = Line[j].to
      BY <1>3, ElementOfSeq, UpdateTypes
    <3>3. IsOpen(q)
      BY <1>8, <3>1, <3>2, StepViews DEF IsOpen
    <3> QED
      BY <1>6, <2>2, <3>1, <3>2, <3>3
  <2> QED
    BY <2>1, <2>3, LineElements
<1> QED
  BY <1>7, <1>8

\* What a step does to the marks of the answers that were sent.
LEMMA DeliveredSteps ==
    ASSUME FlowTypeOK, [Next]_vars
    PROVE  \/ UNCHANGED delivered
           \/ MarkDelivered
           \/ delivered' = {}
<1>1. CASE UNCHANGED vars \/ Fights \/ Deadline \/ ApplyChoice \/ ObserveEvent \/ Reject
  BY <1>1
     DEF vars, activeVars, Fights, FightEnds, Deadline, ApplyChoice, ObserveEvent, Reject
<1>2. CASE ObserveRewards
  BY <1>2 DEF ObserveRewards, TakeUpdate, SendNotice, activeVars
<1>3. CASE \E n \in AllStages : Begin(n)
  BY <1>3 DEF Begin, BeginRewardStage, StartReward, EnterSnapshot, EnterReward, activeVars
<1>4. CASE Advance
  BY <1>4 DEF Advance, Decide, StartStage, LeaveSnapshot, LeaveReward, EndAdvance, activeVars
<1>5. ASSUME NEW p \in Players, Handle(p) \/ Client(p) \/ Hangup(p) \/ Disconnected(p) \/ LeaveRoom(p)
      PROVE  UNCHANGED delivered
  BY <1>5 DEF Handle, HandleRewardChoice, HandleNextStageRequest, TryAdvanceStage, Client, Hangup,
              Disconnected, LeaveRoom, activeVars
<1> QED
  BY <1>1, <1>2, <1>3, <1>4, <1>5 DEF Next, Fights

\* What a step does to the update in hand.
LEMMA NoticeSteps ==
    ASSUME FlowTypeOK, [Next]_vars, NEW p \in Players, Unmarked(p)'
    PROVE  \/ Unmarked(p) /\ UNCHANGED notice
           \/ SendNotice /\ notice.update.to = p /\ notice.update.kind # "options"
<1>1. CASE UNCHANGED vars \/ Fights \/ Deadline \/ ApplyChoice \/ ObserveEvent \/ Reject
  BY <1>1
     DEF vars, workVars, Fights, FightEnds, Deadline, ApplyChoice, ObserveEvent, Reject, Unmarked
<1>2. CASE ObserveRewards
  <2>1. ~TakeUpdate
    BY DEF TakeUpdate, Unmarked
  <2>2. ~MarkDelivered
    BY DEF MarkDelivered, Unmarked
  <2>3. CASE SendNotice
    <3>1. notice' = [notice EXCEPT !.sent = TRUE] /\ notice.update.kind # "options"
      BY <2>3 DEF SendNotice, Unmarked
    <3>2. notice'.update = notice.update
      BY <2>3, <3>1 DEF SendNotice, FlowTypeOK, Notice
    <3> QED
      BY <2>3, <3>1, <3>2 DEF Unmarked
  <2> QED
    BY <1>2, <2>1, <2>2, <2>3 DEF ObserveRewards
<1>3. CASE \E n \in AllStages : Begin(n)
  BY <1>3 DEF Begin, BeginRewardStage, StartReward, EnterSnapshot, EnterReward, Unmarked
<1>4. CASE Advance
  BY <1>4 DEF Advance, Decide, StartStage, LeaveSnapshot, LeaveReward, EndAdvance, Unmarked
<1>5. ASSUME NEW q \in Players, Handle(q) \/ Client(q) \/ Hangup(q) \/ Disconnected(q) \/ LeaveRoom(q)
      PROVE  UNCHANGED notice
  BY <1>5 DEF Handle, HandleRewardChoice, HandleNextStageRequest, TryAdvanceStage, Client, Hangup,
              Disconnected, LeaveRoom, workVars
<1> QED
  BY <1>1, <1>2, <1>3, <1>4, <1>5 DEF Next, Fights, Unmarked

\* The refusal of a second choice can rely on the mark.
LEMMA DeliveredKept ==
    ASSUME FlowInv, ~Lagging, [Next]_vars, NEW p \in Players, IsOpen(p)'
    PROVE  DeliveredFits(p)'
<1>1. IsOpen(p)
  BY StepViews
<1>2. /\ FlowTypeOK /\ EventsFit /\ BeginsFit /\ BeginsInTime
      /\ LineFits /\ ToldFits(p) /\ OwesFits(p) /\ LoadFits(p)
      /\ OptionsFit(p) /\ DeliveredFits(p) /\ Told(p) \in Nat /\ number \in AllStages
  BY <1>1, OpenInv, ClientTyped DEF FlowTypeOK
<1>3. SUFFICES ASSUME scenario[p] = "duplicate"
               PROVE  /\ p \in delivered' => (InRound' => Told(p)' >= 4) /\ begins'[number'] # "reward"
                      /\ Unmarked(p)' => InRound' /\ Told(p)' = 4 /\ p \notin delivered'
  BY ViewSteps DEF DeliveredFits
<1>4. AppliedAt(p) = 4 /\ Due(p) = 2
  BY <1>2, <1>3, ScenarioFacts DEF AppliedAt
<1>5. /\ p \in delivered => (InRound => Told(p) >= 4) /\ begins[number] # "reward"
      /\ Unmarked(p) => InRound /\ Told(p) = 4 /\ p \notin delivered
  BY <1>2, <1>3 DEF DeliveredFits
<1>6. ASSUME p \in delivered'
      PROVE  (InRound' => Told(p)' >= 4) /\ begins'[number'] # "reward"
  <2>1. (InRound => Told(p) >= 4) /\ begins[number] # "reward"
    <3>1. CASE p \in delivered
      BY <1>5, <3>1
    <3>2. CASE MarkDelivered /\ p \notin delivered
      <4>1. Unmarked(p)
        BY <1>6, <3>2 DEF MarkDelivered, Unmarked
      <4> QED
        BY <1>2, <1>5, <4>1 DEF BeginsFit, BeginsInTime, InRound
    <3> QED
      BY <1>2, <1>6, <3>1, <3>2, DeliveredSteps
  <2>2. begins'[number'] # "reward"
    BY <1>6, <2>1, RewardBegins
  <2>3. ASSUME InRound' PROVE Told(p)' >= 4
    <3>1. ~\E n \in AllStages : Opens(n)
      BY <1>2, <2>1, OpensEffect
    <3>2. InRound /\ (Told(p)' = Told(p) \/ Told(p)' = Told(p) + 1)
      BY <2>3, <3>1, ViewSteps
    <3> QED
      BY <1>2, <2>1, <3>2
  <2> QED
    BY <2>2, <2>3
<1>7. ASSUME Unmarked(p)' PROVE InRound' /\ Told(p)' = 4 /\ p \notin delivered'
  <2>1. CASE Unmarked(p) /\ UNCHANGED notice
    <3>1. InRound /\ Told(p) = 4 /\ p \notin delivered
      BY <1>5, <2>1
    <3>2. ~SendNotice
      BY <2>1 DEF SendNotice, Unmarked
    <3>3. ~Hears(p)
      <4>1. SUFFICES ASSUME Hears(p) PROVE FALSE
        OBVIOUS
      <4> QED
        BY <1>1, <1>2, <1>3, <3>1, <3>2, <4>1, HearsNext
    <3>4. InRound' /\ Told(p)' = Told(p)
      <4>1. ~(Told(p) = Pos(p) /\ Pos(p) = 3 + Due(p))
        BY <1>4, <3>1
      <4> QED
        BY <3>1, <3>3, <4>1, ViewSteps
    <3>5. ~MarkDelivered
      BY <1>2, <2>1, NoticeTypes DEF MarkDelivered, Unmarked
    <3>6. p \notin delivered'
      BY <1>2, <3>1, <3>5, DeliveredSteps
    <3> QED
      BY <3>1, <3>4, <3>6
  <2>2. CASE SendNotice /\ notice.update.to = p /\ notice.update.kind # "options"
    <3>1. InRound /\ Told(p) = 3
      BY <1>1, <1>2, <1>4, <2>2, NoticeNext
    <3>2. Told(p)' = 4 /\ InRound'
      <4>1. Told(p)' = Told(p) + 1 /\ InRound' = InRound
        BY <1>1, <2>2, NoticeHeard, HearsFit
      <4> QED
        BY <3>1, <4>1
    <3>3. p \notin delivered /\ delivered' = delivered
      BY <1>5, <2>2, <3>1 DEF SendNotice, activeVars
    <3> QED
      BY <3>2, <3>3
  <2> QED
    BY <1>2, <1>7, <2>1, <2>2, NoticeSteps
<1> QED
  BY <1>6, <1>7

\* A goroutine of a stage that is played, or of a round.
LEMMA AdvancerAt ==
    ASSUME FlowTypeOK, AdvancesFit, AdvancesInTime, advances # <<>>
    PROVE  /\ Len(advances) = 1 /\ advances[1] \in Advancer /\ DOMAIN advances = {1}
           /\ \/ InRound /\ Connected \subseteq ready /\ advances[1].pc \in {"decide", "submit"}
              \/ stage = "Playing" /\ advances[1].pc \in {"snapshot", "leave", "clear"}
<1>1. advances \in Seq(Advancer) /\ Len(advances) \in Nat /\ Len(advances) <= 1
  BY DEF FlowTypeOK, AdvancesFit
<1>2. Len(advances) = 1
  <2> DEFINE n == Len(advances)
  <2>1. n \in Nat /\ n <= 1 /\ n # 0
    BY <1>1, TailElements
  <2> HIDE DEF n
  <2>2. n = 1
    BY <2>1
  <2> QED
    BY <2>2 DEF n
<1>3. 1 \in 1..Len(advances) /\ DOMAIN advances = {1} /\ advances[1] \in Advancer
  BY <1>1, <1>2
<1>4. advances[1].pc \in {"decide", "submit", "snapshot", "leave", "clear"}
  BY <1>3 DEF Advancer
<1> QED
  BY <1>2, <1>3, <1>4 DEF AdvancesFit, AdvancesInTime

\* A step of an advanceStage goroutine that does not end it.
LEMMA AdvancerStays ==
    ASSUME FlowTypeOK, AdvancesFit, AdvancesInTime, [Next]_vars, advances # <<>>
    PROVE  \/ Len(advances') = 1
           \/ InRound
           \/ ready' = {}
<1>1. advances \in Seq(Advancer) /\ Len(advances) = 1
  BY AdvancerAt DEF FlowTypeOK
<1>2. CASE UNCHANGED advances
  BY <1>1, <1>2
<1>3. CASE Advance
  <2>1. PICK k \in DOMAIN advances :
            Decide(k) \/ StartStage(k) \/ LeaveSnapshot(k) \/ LeaveReward(k) \/ EndAdvance(k)
    BY <1>3 DEF Advance
  <2>2. k \in 1..Len(advances)
    BY <1>1, <2>1
  <2>3. CASE Decide(k) \/ StartStage(k)
    BY <2>2, <2>3 DEF Decide, StartStage, AdvancesFit, AdvancesInTime
  <2>4. CASE LeaveSnapshot(k) \/ LeaveReward(k)
    <3>1. \E a : advances' = [advances EXCEPT ![k] = a]
      BY <2>4 DEF LeaveSnapshot, LeaveReward, AdvanceGoto
    <3> QED
      BY <1>1, <3>1
  <2>5. CASE EndAdvance(k)
    BY <2>5 DEF EndAdvance
  <2> QED
    BY <2>1, <2>3, <2>4, <2>5
<1>4. CASE \E p \in Players : TryAdvanceStage(p) /\ MayAdvance
  BY <1>4, AdvancerAt DEF MayAdvance, AdvancesFit, AdvancesInTime
<1> QED
  BY <1>2, <1>3, <1>4, AdvanceSteps

\* Who is ready has nothing left to do, until the next stage has started.
LEMMA ReadyKept ==
    ASSUME FlowInv, ~Lagging, [Next]_vars, NEW p \in Players, IsOpen(p)'
    PROVE  ReadyFits(p)'
<1>1. IsOpen(p)
  BY StepViews
<1>2. /\ FlowTypeOK /\ EventsFit /\ BeginsFit /\ AdvancesFit
      /\ BeginsInTime /\ AdvancesInTime /\ ToldFits(p) /\ ReadyFits(p)
      /\ Told(p) \in Nat /\ Pos(p) \in Nat /\ Pos(p) <= Told(p) /\ Due(p) \in {1, 2}
      /\ InboxFits(p)
  BY <1>1, OpenInv, ClientTyped
<1>3. SUFFICES ASSUME p \in ready'
               PROVE  \/ InRound' /\ Pos(p)' = 3 + Due(p)' /\ outbox'[p] = <<>>
                      \/ ~InRound' /\ advances' # <<>>
  BY DEF ReadyFits
<1>4. CASE HandleNextStageRequest(p)
  <2>1. outbox[p] # <<>> /\ Head(outbox[p]) = "ready" /\ outbox'[p] = Tail(outbox[p])
    BY <1>2, <1>4 DEF HandleNextStageRequest, Reads, FlowTypeOK
  <2>2. InRound' /\ Pos(p)' = 3 + Due(p)' /\ outbox'[p] = <<>>
    <3>1. /\ InRound /\ Pos(p) = 3 + Due(p) /\ outbox'[p] = <<>>
          /\ Pos(p)' = Pos(p) /\ Due(p)' = Due(p) /\ InRound' = InRound
      BY <1>1, <1>4, <2>1, LoadOfReady
    <3> QED
      BY <3>1
  <2> QED
    BY <2>2
<1>5. CASE p \in ready /\ ~HandleNextStageRequest(p)
  <2>1. CASE InRound /\ Pos(p) = 3 + Due(p) /\ outbox[p] = <<>>
    <3>1. ~Client(p)
      <4>1. Told(p) <= 3 + Due(p)
        BY <1>2, <2>1 DEF ToldFits
      <4>2. Client(p) => Told(p) >= Pos(p) + 1
        BY <1>2, ClientView
      <4> QED
        BY <1>2, <2>1, <4>1, <4>2
    <3>2. outbox'[p] = <<>>
      <4>1. ~HandleRewardChoice(p)
        BY <2>1 DEF HandleRewardChoice, Reads
      <4> QED
        BY <1>2, <2>1, <3>1, <4>1, OutboxSteps
    <3>3. ASSUME NEW k \in DOMAIN advances, Starts(k) PROVE advances' # <<>>
      <4>1. advances' = [advances EXCEPT ![1].pc = "snapshot"] /\ Len(advances) = 1
            /\ advances \in Seq(Advancer)
        BY <1>2, <3>3, StartsEffect DEF FlowTypeOK
      <4>2. Len(advances') = 1
        BY <4>1
      <4> QED
        BY <4>2
    <3>4. CASE InRound'
      <4>1. Pos(p)' = Pos(p)
        BY <2>1, <3>1, <3>4, ViewSteps
      <4>2. Due(p)' = Due(p)
        BY ViewSteps
      <4> QED
        BY <2>1, <3>2, <3>4, <4>1, <4>2
    <3>5. CASE ~InRound'
      BY <2>1, <3>3, <3>5, ViewSteps
    <3> QED
      BY <3>4, <3>5
  <2>2. CASE ~InRound /\ advances # <<>>
    <3>1. Len(advances') = 1
      BY <1>2, <1>3, <2>2, AdvancerStays
    <3>2. advances' # <<>>
      BY <3>1
    <3>3. ~\E n \in AllStages : Opens(n)
      BY <1>2, <2>2, AdvancerAt, OpensEffect
    <3>4. ~InRound'
      BY <2>2, <3>3, ViewSteps
    <3> QED
      BY <3>2, <3>4
  <2> QED
    BY <1>2, <1>5, <2>1, <2>2 DEF ReadyFits
<1> QED
  BY <1>2, <1>3, <1>4, <1>5, ReadySteps

\* What an advanceStage goroutine does next.
LEMMA AdvancerNext ==
    ASSUME FlowTypeOK, EventsFit, AdvancesFit, Advance
    PROVE  /\ Len(advances) = 1
           /\ \/ /\ advances' = <<>> /\ advances[1].pc \in {"decide", "submit", "clear"}
                 /\ UNCHANGED <<sess, stagesVars>>
              \/ /\ Decide(1) /\ Len(advances') = 1 /\ advances[1].pc = "decide"
                 /\ advances'[1].pc = "submit" /\ UNCHANGED <<sess, stagesVars>>
              \/ /\ Starts(1) /\ Len(advances') = 1 /\ advances[1].pc = "submit"
                 /\ advances'[1].pc = "snapshot" /\ UNCHANGED sess
              \/ /\ LeaveSnapshot(1) /\ Len(advances') = 1 /\ advances[1].pc = "snapshot"
                 /\ advances'[1].pc = "leave" /\ advances'[1].leave = SessionsIn("reward")
                 /\ UNCHANGED <<sess, stagesVars>>
              \/ /\ LeaveReward(1) /\ Len(advances') = 1 /\ advances[1].pc = "leave"
                 /\ UNCHANGED stagesVars
                 /\ \/ \E p \in advances[1].leave :
                           /\ LeavesReward(p) /\ advances'[1].pc = "leave"
                           /\ advances'[1].leave = advances[1].leave \ {p}
                    \/ /\ advances[1].leave = {} /\ advances'[1].pc = "clear"
                       /\ UNCHANGED sess
<1> DEFINE a == advances[1]
<1>1. PICK k \in DOMAIN advances :
          Decide(k) \/ StartStage(k) \/ LeaveSnapshot(k) \/ LeaveReward(k) \/ EndAdvance(k)
  BY DEF Advance
<1>2. /\ k = 1 /\ Len(advances) = 1 /\ a \in Advancer /\ RemoveAt(advances, 1) = <<>>
      /\ \A b \in Advancer : /\ Len([advances EXCEPT ![1] = b]) = 1
                             /\ [advances EXCEPT ![1] = b][1] = b
  BY <1>1, AdvancerEffect
<1>3. CASE Decide(k)
  <2>1. CASE advances' = [advances EXCEPT ![1].pc = "submit", ![1].plan = number + 1]
    <3> DEFINE b == [a EXCEPT !.pc = "submit", !.plan = number + 1]
    <3>0. number + 1 \in Nat
      BY DEF FlowTypeOK, AllStages
    <3>1. b \in Advancer /\ b.pc = "submit"
      BY <1>2, <3>0 DEF Advancer
    <3>2. advances' = [advances EXCEPT ![1] = b]
      BY <1>2, <2>1
    <3>3. Len(advances') = 1 /\ advances'[1].pc = "submit"
      BY <1>2, <3>1, <3>2
    <3> QED
      BY <1>2, <1>3, <3>3 DEF Decide, roomVars, sessionVars
  <2>2. CASE AdvanceFails(1)
    BY <1>2, <1>3, <2>2 DEF Decide, AdvanceFails, roomVars, sessionVars
  <2> QED
    BY <1>2, <1>3, <2>1, <2>2 DEF Decide
<1>4. CASE StartStage(k)
  <2>1. CASE Starts(1)
    <3> DEFINE b == [a EXCEPT !.pc = "snapshot"]
    <3>1. b \in Advancer /\ b.pc = "snapshot"
      BY <1>2, AdvancerFields DEF Advancer
    <3>2. advances' = [advances EXCEPT ![1] = b]
      BY <1>2, <2>1, StartsEffect
    <3>3. Len(advances') = 1 /\ advances'[1].pc = "snapshot"
      BY <1>2, <3>1, <3>2
    <3> QED
      BY <1>2, <2>1, <3>3 DEF Starts, StartStage, sessionVars
  <2>2. CASE AdvanceFails(1) /\ UNCHANGED stagesVars
    BY <1>2, <1>4, <2>2 DEF StartStage, AdvanceFails, sessionVars
  <2> QED
    BY <1>2, <1>4, <2>1, <2>2 DEF StartStage, Starts
<1>5. CASE LeaveSnapshot(k)
  <2> DEFINE b == [a EXCEPT !.pc = "leave", !.leave = SessionsIn("reward")]
  <2>1. b \in Advancer /\ b.pc = "leave" /\ b.leave = SessionsIn("reward")
    BY <1>2, AdvancerFields DEF Advancer, SessionsIn, Connected
  <2>2. advances' = [advances EXCEPT ![1] = b]
    BY <1>2, <1>5 DEF LeaveSnapshot
  <2>3. /\ Len(advances') = 1 /\ advances'[1].pc = "leave"
        /\ advances'[1].leave = SessionsIn("reward")
    BY <1>2, <2>1, <2>2
  <2> QED
    BY <1>2, <1>5, <2>3 DEF LeaveSnapshot, roomVars, sessionVars
<1>6. CASE LeaveReward(k)
  <2>1. a.pc = "leave" /\ UNCHANGED stagesVars /\ a.leave \subseteq Players
    BY <1>2, <1>6 DEF LeaveReward, roomVars, Advancer
  <2>2. CASE a.leave = {} /\ advances' = [advances EXCEPT ![1].pc = "clear"] /\ UNCHANGED sess
    <3> DEFINE b == [a EXCEPT !.pc = "clear"]
    <3>1. b \in Advancer /\ b.pc = "clear" /\ advances' = [advances EXCEPT ![1] = b]
      BY <1>2, <2>2, AdvancerFields DEF Advancer
    <3>2. Len(advances') = 1 /\ advances'[1].pc = "clear"
      BY <1>2, <3>1
    <3> QED
      BY <1>2, <1>6, <2>1, <2>2, <3>2
  <2>3. ASSUME NEW p \in a.leave, LeavesReward(p),
               advances' = [advances EXCEPT ![1].leave = @ \ {p}]
        PROVE  /\ Len(advances') = 1 /\ advances'[1].pc = "leave"
               /\ advances'[1].leave = advances[1].leave \ {p}
    <3> DEFINE b == [a EXCEPT !.leave = a.leave \ {p}]
    <3>1. a.leave \ {p} \in SUBSET Players
      BY <2>1
    <3>2. b \in Advancer /\ b.pc = "leave" /\ b.leave = a.leave \ {p}
      BY <1>2, <2>1, <3>1, AdvancerFields DEF Advancer
    <3>3. advances' = [advances EXCEPT ![1] = b]
      BY <1>2, <2>3
    <3> QED
      BY <1>2, <3>2, <3>3
  <2> QED
    BY <1>2, <1>6, <2>1, <2>2, <2>3 DEF LeaveReward, AdvanceGoto
<1>7. CASE EndAdvance(k)
  BY <1>2, <1>7 DEF EndAdvance, roomVars, sessionVars
<1> QED
  BY <1>1, <1>3, <1>4, <1>5, <1>6, <1>7

\* What a step does to the session of a player that stays connected.
LEMMA SessionSteps ==
    ASSUME FlowInv, [Next]_vars, NEW p \in Players, IsOpen(p)'
    PROVE  \/ sess'[p] = sess[p]
           \/ Advance
           \/ /\ sess'[p] = (IF sess[p] = "in_room" THEN "reward" ELSE sess[p])
              /\ InRound /\ InRound' /\ UNCHANGED advances
<1>1. /\ FlowTypeOK /\ LineFits /\ BeginsFit /\ BeginsInTime /\ IsOpen(p)
      /\ sess \in [Players -> {"in_room", "reward", "disconnected"}]
  BY StepViews DEF FlowInv, RoomFits, FlowTypeOK
<1>2. CASE UNCHANGED vars \/ Fights \/ Deadline \/ ApplyChoice \/ ObserveEvent \/ Reject
  BY <1>2
     DEF vars, sessionVars, Fights, FightEnds, Deadline, ApplyChoice, ObserveEvent, Reject
<1>3. CASE ObserveRewards
  <2>1. CASE SendNotice
    <3>1. notice.update.to \in Players
      BY <1>1, <2>1, NoticeTypes, UpdateTypes DEF SendNotice, FlowTypeOK
    <3>2. Transition(notice.update.to, "in_room", "reward") /\ UNCHANGED <<stagesVars, advances>>
      BY <2>1 DEF SendNotice, roomVars
    <3>3. ASSUME notice.update.to = p PROVE InRound
      <4>1. Line \in Seq(Update) /\ Line # <<>> /\ Head(Line) = notice.update
        BY <1>1, <2>1, LineView DEF SendNotice
      <4>2. Line[1] = notice.update /\ 1 \in 1..Len(Line)
        BY <4>1, TailElements
      <4> QED
        BY <1>1, <3>3, <4>2 DEF LineFits, Timely
    <3>4. CASE notice.update.to = p
      <4>1. InRound /\ InRound' /\ UNCHANGED advances
        BY <3>2, <3>3, <3>4 DEF InRound, stagesVars
      <4> QED
        BY <1>1, <3>2, <3>4, <4>1 DEF Transition
    <3>5. CASE notice.update.to # p
      BY <1>1, <3>1, <3>2, <3>5 DEF Transition
    <3> QED
      BY <3>4, <3>5
  <2> QED
    BY <1>3, <2>1 DEF ObserveRewards, TakeUpdate, MarkDelivered, sessionVars
<1>4. ASSUME NEW n \in AllStages, Begin(n)
      PROVE  \/ sess'[p] = sess[p]
             \/ /\ sess'[p] = (IF sess[p] = "in_room" THEN "reward" ELSE sess[p])
                /\ InRound /\ InRound' /\ UNCHANGED advances
  <2>1. CASE EnterReward(n)
    <3>1. InRound /\ InRound' /\ UNCHANGED advances
      BY <1>1, <2>1 DEF EnterReward, BeginsFit, BeginsInTime, InRound, roomVars, stagesVars
    <3>2. sess' = sess \/ \E q \in entering[n] : Transition(q, "in_room", "reward")
      BY <2>1 DEF EnterReward
    <3>3. entering[n] \subseteq Players
      BY <1>1 DEF FlowTypeOK
    <3> QED
      BY <1>1, <3>1, <3>2, <3>3 DEF Transition
  <2> QED
    BY <1>4, <2>1 DEF Begin, BeginRewardStage, StartReward, EnterSnapshot, sessionVars
<1>5. ASSUME NEW q \in Players, Handle(q) \/ Client(q) \/ Hangup(q) \/ LeaveRoom(q)
      PROVE  UNCHANGED sess
  BY <1>5 DEF Handle, HandleRewardChoice, HandleNextStageRequest, TryAdvanceStage, Client, Hangup,
              LeaveRoom, sessionVars
<1>6. ASSUME NEW q \in Players, Disconnected(q) PROVE sess'[p] = sess[p]
  BY <1>1, <1>6 DEF Disconnected, IsOpen, FlowTypeOK
<1> QED
  BY <1>2, <1>3, <1>4, <1>5, <1>6 DEF Next, Fights

\* The session of a connected player follows the room.
LEMMA SessionKept ==
    ASSUME FlowInv, ~Lagging, [Next]_vars, NEW p \in Players, IsOpen(p)'
    PROVE  SessionFits(p)'
<1>1. IsOpen(p)
  BY StepViews
<1>2. /\ FlowTypeOK /\ EventsFit /\ BeginsFit /\ AdvancesFit
      /\ BeginsInTime /\ AdvancesInTime /\ LineFits /\ ToldFits(p)
      /\ OwesFits(p) /\ LoadFits(p) /\ OptionsFit(p) /\ DeliveredFits(p) /\ SessionFits(p)
      /\ Told(p) \in Nat
  BY <1>1, OpenInv, ClientTyped
<1>3. /\ sess[p] \in {"in_room", "reward"}
      /\ InRound /\ Told(p) >= 3 => sess[p] = "reward"
      /\ ~InRound /\ (\A k \in 1..Len(advances) : advances[k].pc = "clear") => sess[p] = "in_room"
      /\ \A k \in 1..Len(advances) :
             advances[k].pc = "leave" /\ sess[p] = "reward" => p \in advances[k].leave
  BY <1>2 DEF SessionFits
<1>4. /\ advances \in Seq(Advancer) /\ sess \in [Players -> {"in_room", "reward", "disconnected"}]
      /\ Len(advances) \in Nat
  BY <1>2 DEF FlowTypeOK
<1>5. ASSUME InRound', Told(p)' >= 3 PROVE sess'[p] = "reward"
  <2>1. ~\E n \in AllStages : Opens(n)
    <3>1. SUFFICES ASSUME NEW n \in AllStages, Opens(n) PROVE FALSE
      OBVIOUS
    <3>2. Told(p)' = 2
      BY <1>1, <3>1, OpensTold
    <3> QED
      BY <1>5, <3>2
  <2>2. InRound /\ (Told(p)' = Told(p) \/ (Hears(p) /\ Told(p)' = Told(p) + 1))
    BY <1>5, <2>1, ViewSteps
  <2>3. ~\E k \in DOMAIN advances : Starts(k)
    BY <1>2, <1>5, StartsEffect DEF InRound
  <2>4. CASE sess[p] = "reward"
    <3>1. CASE Advance
      <4>1. ~(advances[1].pc = "leave")
        <5>1. Len(advances) = 1
          BY <1>2, <3>1, AdvancerNext
        <5> QED
          BY <1>2, <2>2, <5>1, AdvancerAt DEF InRound
      <4>2. UNCHANGED sess
        BY <1>2, <3>1, <4>1, AdvancerNext
      <4> QED
        BY <2>4, <4>2
    <3> QED
      BY <2>4, <3>1, SessionSteps
  <2>5. CASE sess[p] # "reward"
    <3>1. Told(p) = 2 /\ Hears(p)
      BY <1>2, <1>3, <1>5, <2>2, <2>5 DEF ToldFits
    <3>2. SendNotice /\ notice.update.to = p
      BY <1>1, <1>2, <2>2, <3>1, HearsNext
    <3>3. Transition(p, "in_room", "reward") /\ sess[p] = "in_room"
      BY <1>3, <2>5, <3>2 DEF SendNotice
    <3> QED
      BY <1>4, <3>3 DEF Transition
  <2> QED
    BY <2>4, <2>5
<1>6. CASE Advance
  <2>1. Len(advances) = 1 /\ 1 \in 1..Len(advances)
    BY <1>2, <1>6, AdvancerNext
  <2> DEFINE Kept == /\ sess'[p] \in {"in_room", "reward"}
                     /\ ~InRound' /\ (\A k \in 1..Len(advances') : advances'[k].pc = "clear")
                            => sess'[p] = "in_room"
                     /\ \A k \in 1..Len(advances') :
                            advances'[k].pc = "leave" /\ sess'[p] = "reward"
                                => p \in advances'[k].leave
  <2>2. CASE advances' = <<>> /\ advances[1].pc \in {"decide", "submit", "clear"}
             /\ UNCHANGED <<sess, stagesVars>>
    <3>1. Len(advances') = 0 /\ InRound' = InRound /\ sess' = sess
      BY <2>2 DEF InRound, stagesVars
    <3>2. ~InRound => advances[1].pc = "clear"
      BY <1>2, <2>1, <2>2 DEF AdvancesFit, AdvancesInTime
    <3>3. Kept
      BY <1>3, <2>1, <3>1, <3>2
    <3> QED
      BY <1>5, <3>3 DEF SessionFits
  <2>3. ASSUME Len(advances') = 1, advances'[1].pc \in {"submit", "snapshot"}, UNCHANGED sess
        PROVE  SessionFits(p)'
    <3>1. Kept
      BY <1>3, <2>3
    <3> QED
      BY <1>5, <3>1 DEF SessionFits
  <2>4. CASE /\ Len(advances') = 1 /\ advances'[1].pc = "leave" /\ UNCHANGED sess
             /\ advances'[1].leave = SessionsIn("reward")
    <3>1. Kept
      BY <1>1, <1>3, <2>4 DEF SessionsIn, Connected, IsOpen
    <3> QED
      BY <1>5, <3>1 DEF SessionFits
  <2>5. ASSUME Len(advances') = 1, advances[1].pc = "leave", NEW q \in advances[1].leave,
               LeavesReward(q), advances'[1].pc = "leave",
               advances'[1].leave = advances[1].leave \ {q}
        PROVE  SessionFits(p)'
    <3>1. q \in Players
      BY <1>4, <2>1, <2>5, AdvancerAt, <1>2 DEF Advancer
    <3>2. sess'[p] = IF p = q /\ sess[p] = "reward" THEN "in_room" ELSE sess[p]
      BY <1>4, <2>5, <3>1 DEF LeavesReward, Transition
    <3>3. sess[p] = "reward" => p \in advances[1].leave
      BY <1>3, <2>1, <2>5
    <3>4. sess'[p] = "reward" => p \in advances'[1].leave
      BY <2>5, <3>2, <3>3
    <3>5. Kept
      BY <1>3, <2>5, <3>2, <3>4
    <3> QED
      BY <1>5, <3>5 DEF SessionFits
  <2>6. CASE /\ Len(advances') = 1 /\ advances[1].pc = "leave" /\ advances[1].leave = {}
             /\ advances'[1].pc = "clear" /\ UNCHANGED sess
    <3>1. sess[p] = "in_room"
      BY <1>3, <2>1, <2>6
    <3>2. Kept
      BY <2>6, <3>1
    <3> QED
      BY <1>5, <3>2 DEF SessionFits
  <2> HIDE DEF Kept
  <2> QED
    BY <1>2, <1>6, <2>2, <2>3, <2>4, <2>5, <2>6, AdvancerNext
<1>7. CASE UNCHANGED advances /\ ~Advance
  <2>1. ~\E k \in DOMAIN advances : Starts(k)
    BY <1>7 DEF Advance, Starts
  <2>2. ~InRound' => ~InRound
    BY <1>1, <2>1, ViewSteps
  <2>3. CASE sess'[p] = sess[p]
    BY <1>3, <1>5, <1>7, <2>2, <2>3 DEF SessionFits
  <2>4. CASE sess'[p] = "reward" /\ InRound /\ InRound'
    <3>1. \A k \in 1..Len(advances) : advances[k].pc # "leave"
      BY <1>2, <2>4 DEF AdvancesFit, AdvancesInTime, InRound
    <3> QED
      BY <1>5, <1>7, <2>4, <3>1 DEF SessionFits
  <2> QED
    BY <1>3, <1>7, <2>3, <2>4, SessionSteps
<1>8. CASE \E q \in Players : TryAdvanceStage(q) /\ MayAdvance /\ EveryoneReady(SessionsIn("reward"))
  <2>1. /\ sess' = sess /\ advances = <<>>
        /\ advances' = Append(advances, [pc |-> "decide", plan |-> 0, leave |-> {}])
    BY <1>2, <1>8 DEF TryAdvanceStage, MayAdvance, AdvancesFit, AdvancesInTime
  <2>2. advances' = <<[pc |-> "decide", plan |-> 0, leave |-> {}]>>
    BY <2>1
  <2>3. Len(advances') = 1 /\ advances'[1].pc = "decide"
    BY <2>2
  <2>4. /\ sess'[p] \in {"in_room", "reward"}
        /\ ~(\A k \in 1..Len(advances') : advances'[k].pc = "clear")
        /\ \A k \in 1..Len(advances') : advances'[k].pc # "leave"
    BY <1>3, <2>1, <2>3
  <2> QED
    BY <1>5, <2>4 DEF SessionFits
<1> QED
  BY <1>2, <1>6, <1>7, <1>8, AdvanceSteps

\* The goroutine that advances the stage starts when everybody is ready: one
\* applied choice means that all options are out, so every session is in Reward.
LEMMA StartsWhenReady ==
    ASSUME FlowInv
    PROVE  StartsReady
<1>1. FlowTypeOK /\ AdvancesFit /\ LineFits
  BY DEF FlowInv, RoomFits
<1>2. SUFFICES ASSUME MayAdvance, EveryoneReady(SessionsIn("reward"))
               PROVE  InRound /\ Connected \subseteq ready
  BY DEF StartsReady
<1>3. PICK q \in SessionsIn("reward") : q \in rewarded /\ q \in ready
  BY <1>2 DEF EveryoneReady
<1>4. q \in Players /\ IsOpen(q)
  BY <1>3 DEF SessionsIn, Connected, IsOpen
<1>5. ReadyFits(q) /\ RewardedFits(q)
  BY <1>4, OpenInv
<1>6. InRound
  BY <1>1, <1>2, <1>3, <1>5 DEF ReadyFits, AdvancesFit, AdvancesInTime, MayAdvance
<1>7. \A k \in 1..Len(Line) : IsOpen(Line[k].to) => Line[k].kind = "applied"
  BY <1>3, <1>5, <1>6 DEF RewardedFits
<1>8. ASSUME NEW r \in Connected PROVE r \in ready
  <2>1. r \in Players /\ IsOpen(r)
    BY <1>8 DEF Connected, IsOpen
  <2>2. OptionsFit(r) /\ ToldFits(r) /\ SessionFits(r) /\ Told(r) \in Nat
    BY <1>1, <2>1, OpenInv, ClientTyped
  <2>3. Told(r) # 2
    BY <1>6, <1>7, <2>1, <2>2 DEF OptionsFit
  <2>4. Told(r) >= 3
    BY <1>6, <2>2, <2>3 DEF ToldFits
  <2>5. sess[r] = "reward"
    BY <1>6, <2>2, <2>4 DEF SessionFits
  <2> QED
    BY <1>2, <1>8, <2>5 DEF EveryoneReady, SessionsIn
<1> QED
  BY <1>6, <1>8

\* What a step does to the decisions of the director.
LEMMA DecisionSteps ==
    ASSUME FlowTypeOK, [Next]_vars
    PROVE  \/ UNCHANGED decisions
           \/ \E k \in DOMAIN advances : Decide(k) /\ decisions' = Append(decisions, number + 1)
<1>1. CASE UNCHANGED vars \/ Fights \/ Deadline \/ ApplyChoice \/ ObserveEvent \/ ObserveRewards
           \/ Reject
  BY <1>1
     DEF vars, workVars, Fights, FightEnds, Deadline, ApplyChoice, ObserveEvent, ObserveRewards,
         TakeUpdate, SendNotice, MarkDelivered, Reject
<1>2. CASE \E n \in AllStages : Begin(n)
  BY <1>2 DEF Begin, BeginRewardStage, StartReward, EnterSnapshot, EnterReward
<1>3. CASE Advance
  BY <1>3 DEF Advance, Decide, StartStage, LeaveSnapshot, LeaveReward, EndAdvance
<1>4. ASSUME NEW p \in Players, Handle(p) \/ Client(p) \/ Hangup(p) \/ Disconnected(p) \/ LeaveRoom(p)
      PROVE  UNCHANGED decisions
  BY <1>4 DEF Handle, HandleRewardChoice, HandleNextStageRequest, TryAdvanceStage, Client, Hangup,
              Disconnected, LeaveRoom, workVars
<1> QED
  BY <1>1, <1>2, <1>3, <1>4 DEF Next, Fights

\* A plan is given up when nobody is left to play it: as long as a player is
\* connected, a choice that is still owed is that of a player on its way out.
LEMMA GivenUp ==
    ASSUME FlowInv, ~Lagging, Advance, advances' = <<>>, advances[1].pc \in {"decide", "submit"}
    PROVE  Connected = {} /\ UNCHANGED decisions
<1>1. /\ FlowTypeOK /\ EventsFit /\ OwedFits /\ MembersFit /\ AdvancesFit
      /\ AdvancesInTime
  BY DEF FlowInv, RoomFits
<1>2. PICK k \in DOMAIN advances :
          Decide(k) \/ StartStage(k) \/ LeaveSnapshot(k) \/ LeaveReward(k) \/ EndAdvance(k)
  BY DEF Advance
<1>3. k = 1 /\ Len(advances) = 1 /\ k \in 1..Len(advances)
  BY <1>1, <1>2, AdvancerEffect
<1>4. InRound /\ Connected \subseteq ready
  BY <1>1, <1>3 DEF AdvancesFit, AdvancesInTime
<1>5. ~Decide(k)
  <2>1. SUFFICES ASSUME Decide(k) PROVE FALSE
    OBVIOUS
  <2>2. advances' = [advances EXCEPT ![k].pc = "submit", ![k].plan = number + 1]
    BY <1>4, <2>1 DEF Decide, InRound
  <2>3. Len(advances') = 1 /\ Len(<<>>) = 0
    BY <1>1, <1>3, <2>2 DEF FlowTypeOK
  <2> QED
    BY <2>3
<1>6. StartStage(k)
  BY <1>2, <1>3, <1>5 DEF LeaveSnapshot, LeaveReward, EndAdvance
<1>7. ~Start(advances[k].plan)
  <2>1. SUFFICES ASSUME Start(advances[k].plan) PROVE FALSE
    OBVIOUS
  <2>2. advances' = [advances EXCEPT ![1].pc = "snapshot"]
    BY <1>1, <1>6, <2>1, StartsEffect DEF Starts
  <2>3. Len(advances') = 1 /\ Len(<<>>) = 0
    BY <1>1, <1>3, <2>2 DEF FlowTypeOK
  <2> QED
    BY <2>3
<1>8. ~CanStart(advances[k].plan) /\ ~Departing /\ UNCHANGED decisions
  BY <1>6, <1>7 DEF StartStage
<1>9. members = {} \/ stage = "Reward"
  <2>1. advances[k].plan = number + 1
    BY <1>1, <1>3, <1>6 DEF AdvancesFit, AdvancesInTime, StartStage
  <2> QED
    BY <1>4, <1>8, <2>1 DEF CanStart, InRound
<1>10. ASSUME NEW p \in Connected PROVE FALSE
  <2>1. p \in members
    BY <1>1, <1>10 DEF Connected, MembersFit
  <2>2. PICK q \in owed : q \in members
    BY <1>1, <1>9, <2>1 DEF OwedFits
  <2>3. q \in Players /\ conn[q] \in {"open", "closing", "gone"}
    BY <1>1, <2>2 DEF FlowTypeOK
  <2>4. conn[q] = "open"
    BY <1>1, <1>8, <2>2, <2>3 DEF Departing, MembersFit
  <2>5. q \in ready /\ IsOpen(q)
    BY <1>4, <2>3, <2>4 DEF Connected, IsOpen
  <2>6. Pos(q) = 3 + Due(q)
    BY <1>4, <2>3, <2>5, OpenInv DEF ReadyFits
  <2>7. Told(q) <= 3 + Due(q)
    BY <1>4, <2>3, <2>5, OpenInv DEF ToldFits
  <2>8. Told(q) = 3 + Due(q)
    BY <1>1, <2>3, <2>6, <2>7, ClientTyped
  <2> QED
    BY <1>4, <2>2, <2>3, <2>5, <2>8, LoadAtEnd
<1> QED
  BY <1>8, <1>10

\* A decision is made by a goroutine that is the only one, and for the next stage.
LEMMA DecisionsKept ==
    ASSUME FlowInv, ~Lagging, [Next]_vars
    PROVE  DecisionsFit'
<1>1. /\ FlowTypeOK /\ EventsFit /\ BeginsFit /\ AdvancesFit
      /\ BeginsInTime /\ AdvancesInTime /\ DecisionsFit
      /\ decisions \in Seq(Nat) /\ number \in Nat /\ Len(decisions) \in Nat
  BY DEF FlowInv, RoomFits, FlowTypeOK, AllStages
<1>2. Connected' \subseteq Connected
  BY <1>1, ConnectedShrinks
<1>3. /\ IsInjective(decisions)
      /\ \A j \in 1..Len(decisions) :
             \/ decisions[j] <= number
             \/ /\ decisions[j] = number + 1
                /\ \/ \E k \in 1..Len(advances) : advances[k].pc = "submit"
                   \/ Connected = {} /\ advances = <<>>
  BY <1>1 DEF DecisionsFit
<1>4. ASSUME \A k \in 1..Len(advances) : advances[k].pc # "submit",
             advances # <<>> \/ Connected # {}
      PROVE  \A j \in 1..Len(decisions) : decisions[j] <= number
  BY <1>3, <1>4
<1>5. ASSUME UNCHANGED decisions, \A j \in 1..Len(decisions) : decisions[j] <= number'
      PROVE  DecisionsFit'
  BY <1>3, <1>5 DEF DecisionsFit
<1>6. ASSUME UNCHANGED <<number, decisions>>,
             (\E k \in 1..Len(advances) : advances[k].pc = "submit")
                 => \/ \E k \in 1..Len(advances') : advances'[k].pc = "submit"
                    \/ Connected = {} /\ advances' = <<>>,
             Connected = {} /\ advances = <<>> => advances' = <<>>
      PROVE  DecisionsFit'
  <2>1. Connected = {} => Connected' = {}
    BY <1>2
  <2> QED
    BY <1>3, <1>6, <2>1 DEF DecisionsFit
<1>7. CASE Advance
  <2>1. Len(advances) = 1 /\ 1 \in 1..Len(advances) /\ advances # <<>>
    BY <1>1, <1>7, AdvancerNext
  <2>2. CASE advances' = <<>> /\ UNCHANGED stagesVars /\ advances[1].pc = "clear"
    <3>1. \A j \in 1..Len(decisions) : decisions[j] <= number
      BY <1>4, <2>1, <2>2
    <3>2. UNCHANGED decisions
      <4>1. ASSUME NEW k \in DOMAIN advances, Decide(k) PROVE FALSE
        <5>1. k = 1
          BY <1>1, <4>1, AdvancerEffect
        <5> QED
          BY <2>2, <4>1, <5>1 DEF Decide
      <4> QED
        BY <1>1, <4>1, DecisionSteps
    <3> QED
      BY <1>5, <2>2, <3>1, <3>2 DEF stagesVars
  <2>3. CASE advances' = <<>> /\ UNCHANGED stagesVars /\ advances[1].pc \in {"decide", "submit"}
    <3>1. Connected = {} /\ UNCHANGED decisions
      BY <1>7, <2>3, GivenUp
    <3> QED
      BY <1>6, <2>1, <2>3, <3>1 DEF stagesVars
  <2>4. CASE Decide(1) /\ Len(advances') = 1 /\ advances[1].pc = "decide" /\ UNCHANGED stagesVars
             /\ advances'[1].pc = "submit"
    <3>1. \A j \in 1..Len(decisions) : decisions[j] <= number
      BY <1>4, <2>1, <2>4
    <3>2. CASE UNCHANGED decisions
      BY <1>5, <2>4, <3>1, <3>2 DEF stagesVars
    <3>3. CASE decisions' = Append(decisions, number + 1)
      <4> DEFINE n == Len(decisions)
      <4>1. /\ Len(decisions') = n + 1 /\ n \in Nat
            /\ \A j \in 1..n : decisions'[j] = decisions[j]
            /\ decisions'[n + 1] = number + 1
            /\ DOMAIN decisions = 1..n /\ decisions' \in Seq(Nat)
        BY <1>1, <3>3, AppendElements
      <4>2. DOMAIN decisions' = 1..(n + 1)
        BY <4>1
      <4> HIDE DEF n
      <4>3. number' = number /\ \A j \in 1..n : decisions[j] \in Nat
        BY <1>1, <2>4, <4>1, ElementOfSeq DEF stagesVars, n
      <4>4. \A j \in 1..n : decisions'[j] <= number /\ decisions'[j] # number + 1
        BY <1>1, <3>1, <4>1, <4>3 DEF n
      <4>5. \A j \in 1..(n + 1) : j \in 1..n \/ j = n + 1
        BY <4>1
      <4>6. IsInjective(decisions')
        <5>1. \A i, j \in 1..n : decisions[i] = decisions[j] => i = j
          BY <1>3, <4>1 DEF IsInjective
        <5>2. ASSUME NEW i \in 1..(n + 1), NEW j \in 1..(n + 1), decisions'[i] = decisions'[j]
              PROVE  i = j
          <6>1. CASE i \in 1..n /\ j \in 1..n
            BY <4>1, <5>1, <5>2, <6>1
          <6>2. CASE i = n + 1 \/ j = n + 1
            BY <4>1, <4>4, <4>5, <5>2, <6>2
          <6> QED
            BY <4>5, <6>1, <6>2
        <5> QED
          BY <4>2, <5>2 DEF IsInjective
      <4>7. \A j \in 1..(n + 1) : decisions'[j] <= number \/ decisions'[j] = number + 1
        BY <4>1, <4>4, <4>5
      <4>8. \E k \in 1..Len(advances') : advances'[k].pc = "submit"
        BY <2>4
      <4> QED
        BY <4>1, <4>3, <4>6, <4>7, <4>8 DEF DecisionsFit
    <3> QED
      BY <1>1, <3>2, <3>3, DecisionSteps
  <2>5. CASE Starts(1)
    <3>1. number' = number + 1
      BY <1>1, <2>1, <2>5, StartsEffect
    <3>2. UNCHANGED decisions
      BY <2>5 DEF Starts, StartStage
    <3>3. ASSUME NEW j \in 1..Len(decisions) PROVE decisions[j] <= number'
      <4>1. decisions[j] \in Nat
        BY <1>1, ElementOfSeq
      <4> QED
        BY <1>1, <1>3, <3>1, <4>1
    <3> QED
      BY <1>5, <3>2, <3>3
  <2>6. CASE \/ LeaveSnapshot(1) /\ advances[1].pc = "snapshot"
             \/ LeaveReward(1) /\ advances[1].pc = "leave"
    <3>1. UNCHANGED <<number, decisions>>
      BY <2>6 DEF LeaveSnapshot, LeaveReward, roomVars, stagesVars
    <3> QED
      BY <1>6, <2>1, <2>6, <3>1
  <2> QED
    BY <1>1, <1>7, <2>2, <2>3, <2>4, <2>5, <2>6, AdvancerNext
<1>8. CASE UNCHANGED advances /\ ~Advance
  <2>1. UNCHANGED decisions
    BY <1>1, <1>8, DecisionSteps DEF Advance
  <2>2. number' = number
    <3>1. ~\E k \in DOMAIN advances : Starts(k)
      BY <1>8 DEF Advance, Starts
    <3> QED
      BY <1>1, <3>1, StageSteps, FightsEffect, OpensEffect DEF SameStage
  <2> QED
    BY <1>6, <1>8, <2>1, <2>2
<1>9. CASE \E p \in Players : TryAdvanceStage(p) /\ MayAdvance /\ EveryoneReady(SessionsIn("reward"))
  <2>1. UNCHANGED <<number, decisions>> /\ advances = <<>> /\ SessionsIn("reward") # {}
    BY <1>1, <1>9 DEF TryAdvanceStage, MayAdvance, EveryoneReady, AdvancesFit, AdvancesInTime, roomVars,
              stagesVars
  <2>2. Connected # {} /\ Len(advances) = 0
    BY <2>1 DEF SessionsIn
  <2>3. \A j \in 1..Len(decisions) : decisions[j] <= number
    BY <1>4, <2>2
  <2> QED
    BY <1>5, <2>1, <2>3
<1> QED
  BY <1>1, <1>7, <1>8, <1>9, AdvanceSteps

\* No step of a client that keeps to its script is an error.
LEMMA PhasesKept ==
    ASSUME FlowInv, [Next]_vars, NEW p \in Players
    PROVE  phase'[p] # "error"
<1>1. FlowTypeOK /\ phase[p] # "error"
  BY DEF FlowInv
<1>2. CASE Client(p)
  <2>1. IsOpen(p)
    BY <1>2 DEF Client, IsOpen
  <2> QED
    BY <1>2, <2>1, OpenInv, ClientTakes
<1>3. CASE UNCHANGED vars \/ Fights \/ Deadline \/ ApplyChoice \/ ObserveEvent \/ ObserveRewards
           \/ Reject
  BY <1>1, <1>3
     DEF vars, botVars, Fights, FightEnds, Deadline, ApplyChoice, ObserveEvent, ObserveRewards,
         TakeUpdate, SendNotice, MarkDelivered, Reject, ServerOnly
<1>4. CASE \E n \in AllStages : Begin(n)
  BY <1>1, <1>4 DEF Begin, BeginRewardStage, StartReward, EnterSnapshot, EnterReward, botVars
<1>5. CASE Advance
  BY <1>1, <1>5
     DEF Advance, Decide, StartStage, LeaveSnapshot, LeaveReward, EndAdvance, botVars
<1>6. ASSUME NEW q \in Players, Handle(q) \/ Hangup(q) \/ Disconnected(q) \/ LeaveRoom(q)
      PROVE  phase'[p] # "error"
  BY <1>1, <1>6 DEF Handle, HandleRewardChoice, HandleNextStageRequest, TryAdvanceStage, Hangup,
                    Disconnected, LeaveRoom, botVars
<1>7. ASSUME NEW q \in Players, Client(q), q # p PROVE phase'[p] # "error"
  BY <1>1, <1>7
     DEF Client, Observe, ObserveStageStarted, ObserveStageCleared, ObserveTeamDefeated,
         ObserveRewardOptions, ObserveRewardApplied, ObserveDisconnect, Enters, FlowTypeOK
<1> QED
  BY <1>2, <1>3, <1>4, <1>5, <1>6, <1>7 DEF Next, Fights

-----------------------------------------------------------------------------
(* The inductive invariant *)

\* The first stage has just been opened.
LEMMA InitTypes ==
    ASSUME Init
    PROVE  FlowTypeOK
<1>1. /\ MaxStage \in Nat \ {0} /\ Bots = Players /\ 1 \in AllStages /\ 0 \in 0..MaxStage
      /\ Played \subseteq [Players -> Scenarios]
  BY StageFlowAssumption, MatchBotAssumption DEF AllStages
<1>2. events \in Seq(StageNews)
  <2>1. StageMessage("started", 1) \in StageNews
    BY <1>1, MessageTypes
  <2> QED
    BY <2>1 DEF Init
<1>3. /\ inbox = [p \in Players |-> <<>>] /\ outbox = [p \in Players |-> <<>>]
      /\ inbox \in [Players -> Seq(Message)] /\ outbox \in [Players -> Seq(Requests)]
  BY <1>1 DEF Init, BotInit
<1>4. /\ phase \in [Players -> {"match", "combat", "reward", "ready"} \cup Over]
      /\ cleared \in [Players -> Nat] /\ offered \in [Players -> BOOLEAN]
      /\ responses \in [Players -> Nat] /\ scenario \in [Players -> Scenarios]
  BY <1>1 DEF Init, BotInit
<1>5. /\ updates \in Seq(Update) /\ choices \in Seq(Choice) /\ advances \in Seq(Advancer)
      /\ decisions \in Seq(Nat)
  BY DEF Init
<1>6. /\ stage \in FlowStates /\ number \in AllStages
      /\ members \in SUBSET Players /\ owed \in SUBSET Players
      /\ sess \in [Players -> {"in_room", "reward", "disconnected"}]
      /\ conn \in [Players -> {"open", "closing", "gone"}]
      /\ handler \in [Players -> {"idle", "try"}]
      /\ leaving \in SUBSET Players
      /\ rewardStage \in 0..MaxStage
      /\ rewarded \in SUBSET Players /\ delivered \in SUBSET Players /\ ready \in SUBSET Players
      /\ advancing \in BOOLEAN /\ completed \in BOOLEAN
  BY <1>1 DEF Init, FlowStates
<1>7. /\ notice \in Notice \cup {Nothing}
      /\ begins \in [AllStages -> {"none", "start", "reward", "snapshot", "enter", "done"}]
      /\ entering \in [AllStages -> SUBSET Players]
      /\ rejecting \in SUBSET Refusal
  BY DEF Init
<1> QED
  BY <1>2, <1>3, <1>4, <1>5, <1>6, <1>7 DEF FlowTypeOK

\* The invariant holds at the start.
LEMMA FlowInit == Init => FlowInv
<1> SUFFICES ASSUME Init PROVE FlowInv
  OBVIOUS
<1>1. FlowTypeOK
  BY InitTypes
<1>2. /\ stage = "Playing" /\ number = 1 /\ members = Players /\ owed = {} /\ ready = {}
      /\ rewarded = {} /\ delivered = {} /\ ~advancing /\ advances = <<>> /\ rejecting = {}
      /\ decisions = <<>> /\ choices = <<>> /\ updates = <<>> /\ notice = Nothing
      /\ events = <<StageMessage("started", 1)>> /\ leaving = {}
      /\ begins = [n \in AllStages |-> "none"] /\ Bots = Players
  BY StageFlowAssumption DEF Init
<1>3. ~InRound /\ Published = 1 /\ Len(events) = 1 /\ Heard = 0
  BY <1>2 DEF InRound, Published, Heard
<1>4. RoomFits
  <2>1. EventsFit
    <3>1. events[1] = News(Heard + 1)
      BY <1>2, <1>3 DEF News
    <3> QED
      BY <1>3, <3>1 DEF EventsFit
  <2>2. OwedFits /\ MembersFit
    BY <1>2 DEF OwedFits, MembersFit, Init
  <2>3. BeginsFit
    BY <1>2 DEF BeginsFit
  <2>4. Len(advances) = 0
    BY <1>2
  <2>5. AdvancesFit
    BY <1>2, <2>4 DEF AdvancesFit
  <2> QED
    BY <2>1, <2>2, <2>3, <2>5 DEF RoomFits
<1>9. BeginsInTime /\ AdvancesInTime
  <2>1. Len(advances) = 0
    BY <1>2
  <2> QED
    BY <1>2, <2>1 DEF BeginsInTime, AdvancesInTime
<1>5. Len(Line) = 0
  <2>1. Line = updates
    BY <1>1, <1>2, LineView
  <2> QED
    BY <1>2, <2>1
<1>6. LineFits
  BY <1>5 DEF LineFits, Ordered
<1>7. DecisionsFit
  <2>1. Len(decisions) = 0 /\ DOMAIN decisions = {}
    BY <1>2
  <2> QED
    BY <2>1 DEF DecisionsFit, IsInjective
<1>8. ASSUME NEW p \in Players PROVE ClientFits(p) /\ phase[p] # "error"
  <2>1. /\ phase[p] = "match" /\ cleared[p] = 0 /\ ~offered[p] /\ responses[p] = 0
        /\ inbox[p] = <<>> /\ outbox[p] = <<>> /\ sess[p] = "in_room"
    BY <1>2 DEF Init, BotInit
  <2>2. Pos(p) = 0 /\ Len(inbox[p]) = 0 /\ Len(outbox[p]) = 0
    BY <1>2, <2>1 DEF Pos
  <2>3. Told(p) = 0
    BY <2>2 DEF Told
  <2>4. PhaseFits(p) /\ InboxFits(p) /\ ToldFits(p) /\ OwesFits(p)
    BY <1>2, <1>3, <2>1, <2>2, <2>3 DEF PhaseFits, InboxFits, ToldFits, OwesFits
  <2>5. LoadFits(p)
    <3>1. Places(p) = {}
      BY <1>2 DEF Places
    <3>2. Cardinality(Places(p)) = 0
      BY <3>1, FS_EmptySet
    <3>3. Unread(p) = 0 /\ ~Rejected(p)
      BY <1>2, <2>1, <2>2 DEF Unread, Rejected
    <3>4. Load(p) = 0 /\ Allowance(p) = 0
      BY <1>3, <3>2, <3>3 DEF Load, Allowance
    <3> QED
      BY <1>2, <2>2, <3>1, <3>4 DEF LoadFits
  <2>6. OptionsFit(p) /\ RewardedFits(p) /\ DeliveredFits(p) /\ ReadyFits(p)
    BY <1>2, <1>3 DEF OptionsFit, RewardedFits, DeliveredFits, ReadyFits, Unmarked
  <2>7. SessionFits(p)
    <3>1. Len(advances) = 0
      BY <1>2
    <3> QED
      BY <1>3, <2>1, <3>1 DEF SessionFits
  <2> QED
    BY <2>1, <2>4, <2>5, <2>6, <2>7 DEF ClientFits
<1> QED
  BY <1>1, <1>4, <1>6, <1>7, <1>8, <1>9 DEF FlowInv

\* The room and its goroutines stay in step, however late a goroutine is.
LEMMA RoomNext == FlowTypeOK /\ RoomFits /\ [Next]_vars => FlowTypeOK' /\ RoomFits'
BY StepsKeepTypes, StepsKeepEvents, StepsKeepOwed, StepsKeepMembers, StepsKeepBegins,
   StepsKeepAdvances
   DEF RoomFits

\* Every step keeps the invariant, as long as the goroutines are in time.
LEMMA FlowNext == FlowInv /\ ~Lagging /\ [Next]_vars => FlowInv'
<1> SUFFICES ASSUME FlowInv, ~Lagging, [Next]_vars PROVE FlowInv'
  OBVIOUS
<1>1. /\ FlowTypeOK /\ EventsFit /\ OwedFits /\ MembersFit /\ BeginsFit /\ AdvancesFit
      /\ BeginsInTime /\ AdvancesInTime
  BY DEF FlowInv, RoomFits
<1>2. FlowTypeOK' /\ RoomFits'
  BY RoomNext DEF FlowInv
<1>3. BeginsInTime'
  BY <1>1, StepsKeepBeginsInTime
<1>4. AdvancesInTime'
  BY <1>1, StartsWhenReady, StepsKeepAdvancesInTime
<1>5. LineFits' /\ DecisionsFit'
  BY LineKept, DecisionsKept
<1>6. ASSUME NEW p \in Players, IsOpen(p)' PROVE ClientFits(p)'
  BY <1>6, StepsFit, OwesKept, LoadKept, OptionsKept, RewardedKept, DeliveredKept, ReadyKept,
     SessionKept
     DEF ClientFits
<1>7. \A p \in Players : phase'[p] # "error"
  BY PhasesKept
<1> QED
  BY <1>2, <1>3, <1>4, <1>5, <1>6, <1>7 DEF FlowInv, IsOpen

-----------------------------------------------------------------------------
(* The theorems *)

\* advancing admits one advanceStage goroutine, its plan is that of the next stage,
\* and only the goroutine of a stage that was won opens a round: however late a
\* goroutine is.
THEOREM RoomInvariant == Spec => [](FlowTypeOK /\ RoomFits)
<1>1. Init => FlowTypeOK /\ RoomFits
  BY FlowInit DEF FlowInv
<1> QED
  BY <1>1, RoomNext, PTL DEF Spec

\* A client of which nothing is late is where the script says.
THEOREM FlowInvariant ==
    ASSUME ~Lagging
    PROVE  Spec => []FlowInv
<1>1. FlowInv /\ [Next]_vars => FlowInv'
  BY FlowNext
<1> QED
  BY <1>1, FlowInit, PTL DEF Spec

\* BotsNeverErr, in a state of the invariant: a client that is connected has
\* choices under way only while its session is in Reward.
LEMMA InvBotsNeverErr == FlowInv => BotsNeverErr
<1> SUFFICES ASSUME FlowInv, NEW p \in Players
             PROVE  /\ phase[p] # "error"
                    /\ conn[p] = "open" /\ outbox[p] # <<>> => Accepts(p, Head(outbox[p]))
  BY DEF BotsNeverErr
<1>1. FlowTypeOK /\ phase[p] # "error"
  BY DEF FlowInv
<1>2. ASSUME IsOpen(p), outbox[p] # <<>> PROVE Accepts(p, Head(outbox[p]))
  <2>1. LoadFits(p) /\ SessionFits(p) /\ outbox[p] \in Seq(Requests) /\ Pos(p) \in Nat
        /\ Told(p) \in Nat /\ Pos(p) <= Told(p)
    BY <1>1, <1>2, OpenInv, ClientTyped
  <2>2. CASE outbox[p] = <<"ready">>
    <3>1. Head(outbox[p]) = "ready" /\ sess[p] \in {"in_room", "reward"}
      BY <2>1, <2>2 DEF SessionFits
    <3> QED
      BY <3>1 DEF Accepts
  <2>3. CASE outbox[p] # <<"ready">>
    <3>1. Len(outbox[p]) \in Nat \ {0} /\ Unread(p) = Len(outbox[p])
      BY <1>2, <2>1, <2>3, TailElements DEF Unread
    <3>2. Load(p) >= 1
      <4>1. Unread(p) <= Load(p) /\ Load(p) \in Nat /\ Unread(p) \in Nat
        BY <1>1, LoadTyped
      <4>2. Unread(p) # 0
        BY <3>1
      <4> QED
        BY <4>1, <4>2
    <3>3. InRound /\ Told(p) >= 3
      BY <1>1, <2>1, <3>2, LoadAllowed
    <3> QED
      BY <2>1, <3>3 DEF SessionFits, Accepts
  <2> QED
    BY <2>2, <2>3
<1> QED
  BY <1>1, <1>2 DEF IsOpen

\* A client that keeps to the protocol is never refused a message and never sees
\* one out of order, whichever goroutine sends it.
THEOREM NoBotErrs ==
    ASSUME ~Lagging
    PROVE  Spec => []BotsNeverErr
BY FlowInvariant, InvBotsNeverErr, PTL

\* One stage is decided on once: tryAdvanceStage starts one advanceStage at a
\* time, and a plan that is given up leaves nobody to ask for another.
THEOREM StagesAreDecidedOnce ==
    ASSUME ~Lagging
    PROVE  Spec => []OneDecisionPerStage
<1>1. FlowInv => OneDecisionPerStage
  BY DEF FlowInv, DecisionsFit, OneDecisionPerStage
<1> QED
  BY <1>1, FlowInvariant, PTL

\* SessionsFollowTheRoom, in a state of the invariant.
LEMMA InvSessionsFollow == FlowInv => SessionsFollowTheRoom
<1> SUFFICES ASSUME FlowInv, ~Working, NEW p \in Connected
             PROVE  /\ stage = "Playing" => ~InputIsDropped(p)
                    /\ stage \in {"Reward", "PreparingNextStage"} => Accepts(p, "choose")
  BY DEF SessionsFollowTheRoom
<1>1. p \in Players /\ IsOpen(p)
  BY DEF Connected, IsOpen
<1>2. /\ FlowTypeOK /\ SessionFits(p) /\ OptionsFit(p) /\ ToldFits(p) /\ Told(p) \in Nat
  BY <1>1, OpenInv, ClientTyped
<1>3. updates = <<>> /\ notice = Nothing /\ Len(advances) = 0
  BY DEF Working
<1>4. Len(Line) = 0
  BY <1>2, <1>3, LineView
<1>5. stage = "Playing" => sess[p] = "in_room"
  BY <1>2, <1>3 DEF SessionFits, InRound
<1>6. InRound => sess[p] = "reward"
  <2>1. InRound => Told(p) # 2
    BY <1>2, <1>4 DEF OptionsFit
  <2>2. InRound => Told(p) >= 3
    BY <1>2, <2>1 DEF ToldFits
  <2> QED
    BY <1>2, <2>2 DEF SessionFits
<1> QED
  BY <1>5, <1>6 DEF InputIsDropped, Accepts, InRound

\* Once the goroutines have come to their end, no input is dropped in a fight
\* and every choice is legal in a reward round.
THEOREM SessionsFollow ==
    ASSUME ~Lagging
    PROVE  Spec => []SessionsFollowTheRoom
BY FlowInvariant, InvSessionsFollow, PTL

\* The barrier: when the next stage starts, every client that is connected has
\* its reward and has asked for it.
THEOREM NobodyRushed ==
    ASSUME ~Lagging
    PROVE  Spec => NobodyIsRushed
<1>1. FlowInv /\ [Next]_vars
          => [stage = "PreparingNextStage" /\ stage' = "Playing" =>
                  \A p \in Connected : phase[p] = "ready"]_vars
  <2> SUFFICES ASSUME FlowInv, [Next]_vars, stage = "PreparingNextStage", stage' = "Playing",
                      NEW p \in Connected
               PROVE  phase[p] = "ready"
    OBVIOUS
  <2>1. p \in Players /\ IsOpen(p)
    BY DEF Connected, IsOpen
  <2>2. /\ FlowTypeOK /\ EventsFit /\ BeginsFit /\ AdvancesFit
        /\ BeginsInTime /\ AdvancesInTime /\ PhaseFits(p) /\ ToldFits(p)
        /\ ReadyFits(p)
    BY <2>1, OpenInv
  <2>3. PICK k \in DOMAIN advances : Starts(k)
    BY <2>2, StageSteps, FightsEffect, OpensEffect DEF SameStage
  <2>4. Untouched(p)
    BY <2>3 DEF Starts, StartStage, botVars, Untouched
  <2> QED
    BY <2>1, <2>2, <2>3, <2>4, StartsFit
<1> QED
  BY <1>1, FlowInvariant, PTL DEF Spec, NobodyIsRushed

\* The observers, goroutines and handlers drive the room through the stage
\* machine that Stages promises and World implements: no plan is out of turn and
\* none goes past the last stage, however late a goroutine is.
THEOREM FollowsTheStages ==
    Spec => [][StagesNext]_stagesVars
<1>1. FlowTypeOK /\ RoomFits /\ [Next]_vars => [StagesNext]_stagesVars
  <2> SUFFICES ASSUME FlowTypeOK, RoomFits, [Next]_vars PROVE [StagesNext]_stagesVars
    OBVIOUS
  <2>1. /\ FlowTypeOK /\ EventsFit /\ BeginsFit /\ AdvancesFit
    BY DEF RoomFits
  <2>2. ASSUME Fights PROVE StagesNext
    BY <2>2 DEF Fights, FightEnds, StagesNext
  <2>3. ASSUME NEW n \in AllStages, Opens(n) PROVE StagesNext
    BY <2>3 DEF Opens, StagesNext
  <2>4. ASSUME NEW k \in DOMAIN advances, Starts(k) PROVE StagesNext
    <3>1. Start(advances[k].plan) /\ number' = advances[k].plan
      BY <2>4 DEF Starts, Start
    <3>2. number' \in 1..MaxStage
      <4>1. FlowTypeOK'
        BY <2>1, StepsKeepTypes
      <4> QED
        BY <4>1 DEF FlowTypeOK, AllStages
    <3> QED
      BY <3>1, <3>2 DEF StagesNext
  <2>5. ASSUME NEW p \in Players, LeaveRoom(p) PROVE StagesNext
    BY <2>5 DEF LeaveRoom, StagesNext
  <2>6. ASSUME NEW who \in SUBSET Players, Settle(who) PROVE StagesNext
    BY <2>6 DEF StagesNext
  <2> QED
    BY <2>1, <2>2, <2>3, <2>4, <2>5, <2>6, RoomSteps
<1> QED
  BY <1>1, RoomInvariant, PTL DEF Spec
=============================================================================
