-------------------------- MODULE MatchmakingProofs --------------------------
(***************************************************************************)
(* Proofs about Matchmaking for every set of players and cancellers, every *)
(* size of a match and every number of matches.                            *)
(***************************************************************************)
EXTENDS Matchmaking, FiniteSetTheorems, SequenceTheorems, TLAPS

Injective(s) == \A i, j \in DOMAIN s : s[i] = s[j] => i = j

Enqueuing == {p \in Players : handler[p] = "enqueue"}

\* Matches are numbered in the order they are formed, and the bound leaves room
\* for every request under way.
Numbered ==
    \E k \in 0..MaxMatches : Formed = 1..k /\ k + Cardinality(Enqueuing) <= MaxMatches

\* A match that was formed has a whole squad of different players.
Squads ==
    \A m \in Matches : IF pc[m] = "none"
                       THEN squad[m] = <<>> /\ turn[m] = 1 /\ members[m] = {}
                       ELSE Len(squad[m]) = PlayersPerMatch /\ Injective(squad[m])

\* The queue holds each waiting player once, and nobody who waits, or is about
\* to, is in the lobby state from which another request could be made.
Queued ==
    /\ ToSet(queue) = waiting /\ Injective(queue)
    /\ \A p \in waiting : handler[p] # "enqueue" /\ sess[p] # "lobby"
    /\ \A p \in Enqueuing : sess[p] # "lobby"

LobbyInv == MatchmakingTypeOK /\ Numbered /\ Squads /\ Queued

-----------------------------------------------------------------------------
(* The queue *)

\* Matchmaker.Cancel takes out the player and nobody else, and keeps the others
\* in their order of arrival.
LEMMA DequeuedSeq ==
    ASSUME MatchmakingTypeOK, Injective(queue), NEW p \in Players
    PROVE  /\ Dequeued(p) \in Seq(Players) /\ Len(Dequeued(p)) <= Len(queue)
           /\ Injective(Dequeued(p))
           /\ ToSet(Dequeued(p)) = ToSet(queue) \ {p}
<1> queue \in Seq(Players)
  BY DEF MatchmakingTypeOK
<1>1. CASE p \notin ToSet(queue)
  BY <1>1 DEF Dequeued
<1>2. CASE p \in ToSet(queue)
  <2> DEFINE k == CHOOSE i \in DOMAIN queue : queue[i] = p
             s == Dequeued(p)
  <2>1. k \in 1..Len(queue) /\ queue[k] = p /\ Len(queue) \in Nat
    BY <1>2 DEF ToSet
  <2>2. s = SubSeq(queue, 1, k - 1) \o SubSeq(queue, k + 1, Len(queue))
    BY <1>2 DEF Dequeued, RemoveAt
  <2> HIDE DEF k, s
  <2>3. /\ s \in Seq(Players) /\ Len(s) = Len(queue) - 1
        /\ \A i \in 1..Len(s) : s[i] = IF i < k THEN queue[i] ELSE queue[i + 1]
    <3> DEFINE a == SubSeq(queue, 1, k - 1)
               b == SubSeq(queue, k + 1, Len(queue))
    <3>1. /\ a \in Seq(Players) /\ Len(a) = k - 1
          /\ \A i \in 1..Len(a) : a[i] = queue[i]
      BY <2>1
    <3>2. /\ b \in Seq(Players) /\ Len(b) = Len(queue) - k
          /\ \A i \in 1..Len(b) : b[i] = queue[k + i]
      BY <2>1
    <3>3. s = a \o b
      BY <2>2
    <3> HIDE DEF a, b
    <3>4. /\ s \in Seq(Players) /\ Len(s) = Len(queue) - 1
          /\ \A i \in 1..Len(s) : s[i] = IF i <= Len(a) THEN a[i] ELSE b[i - Len(a)]
      <4>1. /\ a \o b \in Seq(Players) /\ Len(a \o b) = Len(a) + Len(b)
            /\ \A i \in 1..(Len(a) + Len(b)) :
                   (a \o b)[i] = IF i <= Len(a) THEN a[i] ELSE b[i - Len(a)]
        BY <3>1, <3>2, ConcatProperties
      <4>2. Len(a) + Len(b) = Len(queue) - 1
        BY <2>1, <3>1, <3>2
      <4> QED
        BY <3>3, <4>1, <4>2
    <3>5. ASSUME NEW i \in 1..Len(s) PROVE s[i] = IF i < k THEN queue[i] ELSE queue[i + 1]
      <4>1. CASE i < k
        BY <2>1, <3>1, <3>4, <4>1
      <4>2. CASE ~(i < k)
        <5>1. i - (k - 1) \in 1..Len(b) /\ k + (i - (k - 1)) = i + 1
          BY <2>1, <3>2, <3>4, <4>2
        <5> QED
          BY <2>1, <3>1, <3>2, <3>4, <4>2, <5>1
      <4> QED
        BY <4>1, <4>2
    <3> QED
      BY <3>4, <3>5
  <2>4. Injective(s)
    <3> SUFFICES ASSUME NEW i \in 1..Len(s), NEW j \in 1..Len(s), s[i] = s[j] PROVE i = j
      BY <2>3 DEF Injective
    <3> DEFINE At(h) == IF h < k THEN h ELSE h + 1
    <3>1. At(i) \in 1..Len(queue) /\ At(j) \in 1..Len(queue) /\ queue[At(i)] = queue[At(j)]
      BY <2>1, <2>3
    <3>2. At(i) = At(j)
      BY <3>1 DEF Injective
    <3> QED
      BY <2>1, <2>3, <3>2
  <2>5. ToSet(s) = ToSet(queue) \ {p}
    <3>1. \A i \in 1..Len(s) : s[i] \in ToSet(queue) /\ s[i] # p
      BY <2>1, <2>3 DEF Injective, ToSet
    <3>2. \A i \in 1..Len(queue) : i # k => queue[i] \in ToSet(s)
      <4> SUFFICES ASSUME NEW i \in 1..Len(queue), i # k PROVE queue[i] \in ToSet(s)
        OBVIOUS
      <4>1. CASE i < k
        BY <2>1, <2>3, <4>1 DEF ToSet
      <4>2. CASE i > k
        <5>1. i - 1 \in 1..Len(s) /\ s[i - 1] = queue[i]
          BY <2>1, <2>3, <4>2
        <5> QED
          BY <2>3, <5>1 DEF ToSet
      <4> QED
        BY <2>1, <4>1, <4>2
    <3> QED
      BY <2>1, <2>3, <3>1, <3>2 DEF ToSet
  <2> QED
    BY <2>3, <2>4, <2>5 DEF s
<1> QED
  BY <1>1, <1>2

\* The length of the queue is the number of players that wait.
LEMMA QueueCounts ==
    ASSUME LobbyInv
    PROVE  Len(queue) = Cardinality(waiting)
<1>1. queue \in Seq(Players) /\ Len(queue) \in Nat /\ waiting = ToSet(queue) /\ Injective(queue)
  BY DEF LobbyInv, MatchmakingTypeOK, Queued
<1>2. queue \in Bijection(1..Len(queue), waiting)
  BY <1>1 DEF Bijection, Injection, Surjection, IsInjective, Injective, ToSet
<1>3. IsFiniteSet(1..Len(queue)) /\ Cardinality(1..Len(queue)) = Len(queue)
  BY <1>1, FS_Interval
<1>4. ExistsBijection(1..Len(queue), waiting)
  BY <1>2 DEF ExistsBijection
<1> QED
  BY <1>1, <1>3, <1>4, FS_Bijection

-----------------------------------------------------------------------------
(* Types *)

\* A session stays in the states it may have, whatever Transition is asked for.
LEMMA TransitionTypes ==
    ASSUME MatchmakingTypeOK, NEW p \in Players,
           NEW to \in {"lobby", "in_room", "disconnected"}, Transition(p, to)
    PROVE  /\ sess' \in [Players -> {"lobby", "matching", "in_room", "disconnected"}]
           /\ \A q \in Players : sess'[q] = sess[q] \/ (q = p /\ sess'[q] = to)
BY DEF Transition, MatchmakingTypeOK

\* What the two callers of disconnected() have in common.
LEMMA DisconnectedEffect ==
    ASSUME LobbyInv, NEW p \in Players, Disconnected(p)
    PROVE  /\ sess' \in [Players -> {"lobby", "matching", "in_room", "disconnected"}]
           /\ sess' = [sess EXCEPT ![p] = "disconnected"]
           /\ conn' = [conn EXCEPT ![p] = "closed"]
           /\ conn' \in [Players -> {"open", "closing", "closed"}]
           /\ queue' \in Seq(Players) /\ Len(queue') < PlayersPerMatch /\ Injective(queue')
           /\ ToSet(queue') = waiting \ {p} /\ waiting' = waiting \ {p} /\ waiting' \in SUBSET Players
           /\ leaving' \in SUBSET (Players \X Matches)
<1>1. /\ queue' \in Seq(Players) /\ Len(queue') <= Len(queue) /\ Injective(queue')
      /\ ToSet(queue') = ToSet(queue) \ {p}
  BY DequeuedSeq DEF Disconnected, LobbyInv, Queued
<1>2. Len(queue') < PlayersPerMatch
  <2>1. Len(queue) \in Nat /\ Len(queue') \in Nat
    BY <1>1 DEF LobbyInv, MatchmakingTypeOK
  <2> QED
    BY <1>1, <2>1, MatchmakingAssumption DEF LobbyInv, MatchmakingTypeOK
<1>3. /\ sess' = [sess EXCEPT ![p] = "disconnected"]
      /\ sess' \in [Players -> {"lobby", "matching", "in_room", "disconnected"}]
  BY DEF Disconnected, Transition, CanTransition, LobbyInv, MatchmakingTypeOK
<1>4. leaving' \in SUBSET (Players \X Matches)
  <2>1. bound[p] # 0 => bound[p] \in Matches
    BY MatchmakingAssumption DEF LobbyInv, MatchmakingTypeOK, Matches
  <2> QED
    BY <2>1 DEF Disconnected, LeaveTask, LobbyInv, MatchmakingTypeOK
<1> QED
  BY <1>1, <1>2, <1>3, <1>4 DEF Disconnected, LobbyInv, MatchmakingTypeOK, Queued

\* The participant a running createMatch is at is one of its squad.
LEMMA CurrentIsPlayer ==
    ASSUME LobbyInv, NEW m \in Matches, pc[m] # "none"
    PROVE  turn[m] \in DOMAIN squad[m] /\ Current(m) \in Players
<1>1. turn[m] \in 1..PlayersPerMatch /\ squad[m] \in Seq(Players) /\ Len(squad[m]) = PlayersPerMatch
  BY DEF LobbyInv, MatchmakingTypeOK, Squads
<1> QED
  BY <1>1 DEF Current

\* Going on to the next participant stays within the squad.
LEMMA NextPlayerTypes ==
    ASSUME LobbyInv, NEW m \in Matches, pc[m] # "none", NEW next, NEW last, NextPlayer(m, next, last)
    PROVE  /\ turn' \in [Matches -> 1..PlayersPerMatch]
           /\ pc' = [pc EXCEPT ![m] = next] \/ pc' = [pc EXCEPT ![m] = last]
           /\ \A n \in Matches : n # m => turn'[n] = turn[n]
<1>1. turn[m] \in 1..PlayersPerMatch /\ Len(squad[m]) = PlayersPerMatch
  BY DEF LobbyInv, MatchmakingTypeOK, Squads
<1>2. turn \in [Matches -> 1..PlayersPerMatch]
  BY DEF LobbyInv, MatchmakingTypeOK
<1>3. CASE turn[m] < Len(squad[m])
  <2>1. turn[m] + 1 \in 1..PlayersPerMatch
    BY <1>1, <1>3, MatchmakingAssumption
  <2>2. turn' = [turn EXCEPT ![m] = @ + 1] /\ pc' = [pc EXCEPT ![m] = next]
    BY <1>3 DEF NextPlayer, Goto
  <2> QED
    BY <1>2, <2>1, <2>2
<1>4. CASE ~(turn[m] < Len(squad[m]))
  <2>1. turn' = [turn EXCEPT ![m] = 1] /\ pc' = [pc EXCEPT ![m] = last]
    BY <1>4 DEF NextPlayer, Goto
  <2> QED
    BY <1>2, <2>1, MatchmakingAssumption
<1> QED
  BY <1>3, <1>4

\* failMatch closes a connection or remembers that it could not.
LEMMA FailEffect ==
    ASSUME MatchmakingTypeOK, NEW m \in Matches, FailMatch(m)
    PROVE  /\ conn' \in [Players -> {"open", "closing", "closed"}]
           /\ \A p \in Players : conn'[p] = conn[p] \/ (conn[p] = "open" /\ conn'[p] = "closing")
           /\ \A p \in Told(m) \cap Players : conn'[p] = "open" => p \in unheard'
           /\ unheard \subseteq unheard' /\ unheard' \in SUBSET Players
           /\ pc' = [pc EXCEPT ![m] = "close"]
           /\ UNCHANGED <<sess, bound, handler, queue, waiting, squad, turn, room, members, leaving>>
<1>1. PICK refused \in SUBSET {p \in Told(m) : conn[p] = "open"} :
          SendDisconnect(Told(m), refused) /\ unheard' = unheard \cup refused
  BY DEF FailMatch
<1>2. Told(m) \subseteq Players
  BY DEF Told, ToSet, MatchmakingTypeOK
<1>3. conn' = [p \in Players |-> IF p \in Told(m) \ refused /\ conn[p] = "open"
                                THEN "closing" ELSE conn[p]]
  BY <1>1 DEF SendDisconnect
<1>4. /\ conn' \in [Players -> {"open", "closing", "closed"}]
      /\ \A p \in Players : conn'[p] = conn[p] \/ (conn[p] = "open" /\ conn'[p] = "closing")
  BY <1>3 DEF MatchmakingTypeOK
<1>5. \A p \in Told(m) \cap Players : conn'[p] = "open" => p \in unheard'
  BY <1>1, <1>3 DEF MatchmakingTypeOK
<1>6. unheard \subseteq unheard' /\ unheard' \in SUBSET Players
  BY <1>1, <1>2 DEF MatchmakingTypeOK
<1> QED
  BY <1>4, <1>5, <1>6 DEF FailMatch, Goto, lobbyVars, roomVars

\* Every step of createMatch keeps the types.
LEMMA CreateMatchKeepsTypes ==
    ASSUME LobbyInv, NEW m \in Matches, CreateMatch(m)
    PROVE  MatchmakingTypeOK'
<1> MatchmakingTypeOK
  BY DEF LobbyInv
<1>1. CASE CreateRoom(m) \/ CheckState(m) \/ OpenStage(m)
  BY <1>1 DEF CreateRoom, CheckState, OpenStage, Goto, MatchmakingTypeOK, sessionVars, lobbyVars, roomVars
<1>2. CASE JoinRoom(m)
  <2>1. Current(m) \in Players
    BY <1>2, CurrentIsPlayer DEF JoinRoom
  <2>2. members' \in [Matches -> SUBSET Players]
    <3>1. members' \in {members, [members EXCEPT ![m] = @ \cup {Current(m)}]}
      BY <1>2 DEF JoinRoom
    <3>2. members \in [Matches -> SUBSET Players]
      BY DEF MatchmakingTypeOK
    <3>3. [members EXCEPT ![m] = @ \cup {Current(m)}] \in [Matches -> SUBSET Players]
      BY <2>1, <3>2
    <3> QED
      BY <3>1, <3>2, <3>3
  <2>3. \E next \in {"bind", "fail"} : pc' = [pc EXCEPT ![m] = next]
    BY <1>2 DEF JoinRoom, Goto
  <2> QED
    BY <1>2, <2>2, <2>3 DEF JoinRoom, MatchmakingTypeOK, sessionVars, lobbyVars
<1>3. CASE BindRoom(m)
  <2>1. m \in 0..MaxMatches
    BY MatchmakingAssumption DEF Matches
  <2> QED
    BY <1>3, <2>1 DEF BindRoom, Goto, MatchmakingTypeOK, lobbyVars, roomVars
<1>4. CASE EnterRoom(m)
  <2>1. Current(m) \in Players
    BY <1>4, CurrentIsPlayer DEF EnterRoom
  <2>2. sess' \in [Players -> {"lobby", "matching", "in_room", "disconnected"}]
    BY <1>4, <2>1, TransitionTypes DEF EnterRoom
  <2> QED
    BY <1>4, <2>2 DEF EnterRoom, Goto, MatchmakingTypeOK, lobbyVars, roomVars
<1>5. CASE CheckConnection(m)
  <2>1. /\ turn' \in [Matches -> 1..PlayersPerMatch]
        /\ \E next \in {"check", "start", "fail"} : pc' = [pc EXCEPT ![m] = next]
    <3>1. CASE turn' = turn /\ Goto(m, "fail")
      BY <3>1 DEF Goto, MatchmakingTypeOK
    <3>2. CASE NextPlayer(m, "check", "start")
      BY <1>5, <3>2, NextPlayerTypes DEF CheckConnection
    <3> QED
      BY <1>5, <3>1, <3>2 DEF CheckConnection
  <2> QED
    BY <1>5, <2>1 DEF CheckConnection, MatchmakingTypeOK, sessionVars, lobbyVars, roomVars
<1>6. CASE Announce(m)
  <2>1. /\ turn' \in [Matches -> 1..PlayersPerMatch]
        /\ \E next \in {"announce", "done"} : pc' = [pc EXCEPT ![m] = next]
    BY <1>6, NextPlayerTypes DEF Announce
  <2>2. Current(m) \in Players
    BY <1>6, CurrentIsPlayer DEF Announce
  <2>3. CASE conn[Current(m)] = "closing"
    BY <1>6, <2>1, <2>2, <2>3, DisconnectedEffect DEF Announce, MatchmakingTypeOK, roomVars
  <2>4. CASE conn[Current(m)] # "closing"
    BY <1>6, <2>1, <2>4 DEF Announce, MatchmakingTypeOK, lobbyVars, roomVars
  <2> QED
    BY <2>3, <2>4
<1>7. CASE FailMatch(m)
  <2>1. squad[m] \in Seq(Players)
    BY DEF MatchmakingTypeOK
  <2> QED
    BY <1>7, <2>1, FailEffect DEF MatchmakingTypeOK
<1>8. CASE CloseRoom(m)
  BY <1>8 DEF CloseRoom, Goto, MatchmakingTypeOK, sessionVars, lobbyVars
<1> QED
  BY <1>1, <1>2, <1>3, <1>4, <1>5, <1>6, <1>7, <1>8 DEF CreateMatch

\* Enqueue fills up the queue or takes everybody out of it.
LEMMA EnqueueEffect ==
    ASSUME LobbyInv, NEW p \in Players, Enqueue(p)
    PROVE  /\ p \notin waiting
           /\ \/ /\ UNCHANGED matchVars
                 /\ queue' = Append(queue, p) /\ waiting' = waiting \cup {p}
                 /\ Len(queue') < PlayersPerMatch
              \/ /\ queue' = <<>> /\ waiting' = {}
                 /\ Cardinality(Formed) + 1 \in Matches
                 /\ Formed = 1..Cardinality(Formed)
                 /\ squad' = [squad EXCEPT ![Cardinality(Formed) + 1] = Append(queue, p)]
                 /\ pc' = [pc EXCEPT ![Cardinality(Formed) + 1] = "create"]
                 /\ Len(Append(queue, p)) = PlayersPerMatch
                 /\ UNCHANGED turn
           /\ Append(queue, p) \in Seq(Players) /\ Injective(Append(queue, p))
           /\ ToSet(Append(queue, p)) = waiting \cup {p}
<1> DEFINE q == Append(queue, p)
<1>1. /\ queue \in Seq(Players) /\ Len(queue) \in Nat /\ Len(queue) < PlayersPerMatch
      /\ PlayersPerMatch \in Nat /\ p \notin waiting
      /\ Injective(queue) /\ ToSet(queue) = waiting
  BY MatchmakingAssumption DEF LobbyInv, MatchmakingTypeOK, Queued, Enqueue
<1>2. /\ q \in Seq(Players) /\ Len(q) = Len(queue) + 1
      /\ \A i \in 1..Len(q) : q[i] = IF i = Len(q) THEN p ELSE queue[i]
  BY <1>1
<1> HIDE DEF q
<1>3. ToSet(q) = waiting \cup {p}
  <2>1. q[Len(q)] = p /\ \A i \in 1..Len(queue) : q[i] = queue[i]
    BY <1>1, <1>2
  <2> QED
    BY <1>1, <1>2, <2>1 DEF ToSet
<1>4. Injective(q)
  <2> SUFFICES ASSUME NEW i \in 1..Len(q), NEW j \in 1..Len(q), q[i] = q[j] PROVE i = j
    BY <1>2 DEF Injective
  <2>1. \A h \in 1..Len(q) : h # Len(q) => h \in 1..Len(queue) /\ q[h] \in waiting /\ q[h] # p
    BY <1>1, <1>2 DEF ToSet
  <2> QED
    BY <1>1, <1>2, <2>1 DEF Injective
<1>5. CASE SquadIsShort(q)
  BY <1>1, <1>2, <1>3, <1>4, <1>5 DEF Enqueue, SquadIsShort, q
<1>6. CASE ~SquadIsShort(q)
  <2>1. Len(q) = PlayersPerMatch
    BY <1>1, <1>2, <1>6 DEF SquadIsShort
  <2>2. Oldest(q) = q /\ Younger(q) = <<>>
    BY <1>1, <1>2, <2>1 DEF Oldest, Younger
  <2>3. /\ Cardinality(Formed) + 1 \in Matches /\ Formed = 1..Cardinality(Formed)
    <3>1. PICK k \in 0..MaxMatches : Formed = 1..k /\ k + Cardinality(Enqueuing) <= MaxMatches
      BY DEF LobbyInv, Numbered
    <3>2. k \in Nat /\ MaxMatches \in Nat /\ Cardinality(Formed) = k
      BY <3>1, FS_Interval, MatchmakingAssumption
    <3>3. IsFiniteSet(Enqueuing) /\ p \in Enqueuing
      BY FS_Subset, MatchmakingAssumption DEF Enqueuing, Enqueue
    <3>4. Cardinality(Enqueuing) \in Nat /\ Cardinality(Enqueuing) # 0
      BY <3>3, FS_CardinalityType, FS_EmptySet
    <3> QED
      BY <3>1, <3>2, <3>4 DEF Matches
  <2>4. /\ queue' = <<>> /\ waiting' = {} /\ UNCHANGED turn
        /\ squad' = [squad EXCEPT ![Cardinality(Formed) + 1] = q]
        /\ pc' = [pc EXCEPT ![Cardinality(Formed) + 1] = "create"]
    BY <1>3, <1>6, <2>2 DEF Enqueue, q
  <2> QED
    BY <1>1, <1>2, <1>3, <1>4, <2>1, <2>3, <2>4 DEF q
<1> QED
  BY <1>5, <1>6

\* Every step of a reader, a connection or the lobby keeps the types.
LEMMA SessionStepsKeepTypes ==
    ASSUME LobbyInv, NEW p \in Players,
           \/ MatchRequest(p) \/ Enqueue(p) \/ CancelRequest(p) \/ CancelMatch(p)
           \/ Hangup(p) \/ Disconnect(p)
           \/ \E m \in Matches : LeaveRoom(p, m)
    PROVE  MatchmakingTypeOK'
<1> MatchmakingTypeOK
  BY DEF LobbyInv
<1>1. CASE MatchRequest(p) \/ CancelRequest(p) \/ Hangup(p)
  <2>1. CASE MatchRequest(p)
    BY <2>1 DEF MatchRequest, MatchmakingTypeOK, lobbyVars, matchVars, roomVars
  <2>2. CASE CancelRequest(p)
    BY <2>2 DEF CancelRequest, MatchmakingTypeOK, lobbyVars, matchVars, roomVars
  <2>3. CASE Hangup(p)
    BY <2>3 DEF Hangup, MatchmakingTypeOK, lobbyVars, matchVars, roomVars
  <2> QED
    BY <1>1, <2>1, <2>2, <2>3
<1>2. CASE Enqueue(p)
  <2>1. UNCHANGED <<sess, bound, conn, room, members, leaving, unheard>>
        /\ handler' \in [Players -> {"idle", "enqueue", "cancel"}]
    BY <1>2 DEF Enqueue, roomVars, MatchmakingTypeOK
  <2>2. queue' \in Seq(Players) /\ Len(queue') < PlayersPerMatch
    <3>1. \/ queue' = Append(queue, p) /\ Len(queue') < PlayersPerMatch
          \/ queue' = <<>>
      BY <1>2, EnqueueEffect
    <3>2. Append(queue, p) \in Seq(Players) /\ <<>> \in Seq(Players) /\ Len(<<>>) < PlayersPerMatch
      BY <1>2, EnqueueEffect, MatchmakingAssumption
    <3> QED
      BY <3>1, <3>2
  <2>3. waiting' \in SUBSET Players
    BY <1>2, EnqueueEffect DEF MatchmakingTypeOK
  <2>4. /\ squad' \in [Matches -> Seq(Players)] /\ turn' \in [Matches -> 1..PlayersPerMatch]
        /\ pc' \in [Matches -> {"none", "create", "check", "join", "bind", "enter", "alive",
                                "start", "announce", "fail", "close", "done"}]
    BY <1>2, EnqueueEffect DEF MatchmakingTypeOK, matchVars
  <2> QED
    BY <2>1, <2>2, <2>3, <2>4 DEF MatchmakingTypeOK
<1>3. CASE CancelMatch(p)
  <2>1. /\ queue' \in Seq(Players) /\ Len(queue') <= Len(queue)
        /\ Len(queue) \in Nat /\ Len(queue') \in Nat
    BY <1>3, DequeuedSeq DEF CancelMatch, LobbyInv, Queued, MatchmakingTypeOK
  <2>2. Len(queue') < PlayersPerMatch
    BY <2>1, MatchmakingAssumption DEF MatchmakingTypeOK
  <2>3. sess' \in [Players -> {"lobby", "matching", "in_room", "disconnected"}]
    BY <1>3, TransitionTypes DEF CancelMatch
  <2> QED
    BY <1>3, <2>1, <2>2, <2>3 DEF CancelMatch, StillWaiting, MatchmakingTypeOK, matchVars, roomVars
<1>4. CASE Disconnect(p)
  BY <1>4, DisconnectedEffect DEF Disconnect, MatchmakingTypeOK, matchVars, roomVars
<1>5. CASE \E m \in Matches : LeaveRoom(p, m)
  <2>1. bound' \in [Players -> 0..MaxMatches]
    BY <1>5, MatchmakingAssumption DEF LeaveRoom, MatchmakingTypeOK
  <2> QED
    BY <1>5, <2>1 DEF LeaveRoom, MatchmakingTypeOK, lobbyVars, matchVars
<1> QED
  BY <1>1, <1>2, <1>3, <1>4, <1>5

-----------------------------------------------------------------------------
(* The lobby *)

\* createMatch goes on with a match that was formed.
LEMMA CreateMatchGoesOn ==
    ASSUME LobbyInv, NEW m \in Matches, CreateMatch(m)
    PROVE  /\ pc[m] # "none"
           /\ pc'[m] # "none" /\ \A n \in Matches : n # m => pc'[n] = pc[n]
           /\ UNCHANGED <<handler, squad>>
           /\ \A n \in Matches : n # m => turn'[n] = turn[n]
           /\ \A n \in Matches : n # m => members'[n] = members[n]
<1> pc \in [Matches -> {"none", "create", "check", "join", "bind", "enter", "alive",
                        "start", "announce", "fail", "close", "done"}]
  BY DEF LobbyInv, MatchmakingTypeOK
<1>1. CASE CreateRoom(m) \/ CheckState(m) \/ OpenStage(m)
  BY <1>1 DEF CreateRoom, CheckState, OpenStage, Goto, sessionVars, lobbyVars, roomVars
<1>2. CASE JoinRoom(m) \/ CloseRoom(m)
  BY <1>2 DEF JoinRoom, CloseRoom, Goto, sessionVars, LobbyInv, MatchmakingTypeOK
<1>3. CASE BindRoom(m) \/ EnterRoom(m) \/ FailMatch(m)
  BY <1>3 DEF BindRoom, EnterRoom, FailMatch, Goto, roomVars
<1>4. CASE CheckConnection(m)
  <2>1. pc[m] # "none" /\ UNCHANGED <<handler, squad, members>>
    BY <1>4 DEF CheckConnection, sessionVars, roomVars
  <2>2. CASE Goto(m, "fail") /\ UNCHANGED turn
    BY <2>1, <2>2 DEF Goto
  <2>3. CASE NextPlayer(m, "check", "start")
    BY <2>1, <2>3, NextPlayerTypes
  <2> QED
    BY <1>4, <2>2, <2>3 DEF CheckConnection
<1>5. CASE Announce(m)
  BY <1>5, NextPlayerTypes DEF Announce, roomVars
<1> QED
  BY <1>1, <1>2, <1>3, <1>4, <1>5 DEF CreateMatch

\* Matches are numbered without a gap, and there is a number left for
\* every request on its way to Enqueue: only Enqueue forms a match, and gives up
\* its own claim for it.
LEMMA StepsKeepNumbered ==
    ASSUME LobbyInv, MatchmakingTypeOK', Next
    PROVE  Numbered'
<1>1. PICK k \in 0..MaxMatches : Formed = 1..k /\ k + Cardinality(Enqueuing) <= MaxMatches
  BY DEF LobbyInv, Numbered
<1>2. k \in Nat /\ MaxMatches \in Nat /\ Cardinality(Formed) = k
  BY <1>1, FS_Interval, MatchmakingAssumption
<1>3. IsFiniteSet(Enqueuing) /\ Cardinality(Enqueuing) \in Nat
  BY FS_Subset, FS_CardinalityType, MatchmakingAssumption DEF Enqueuing
<1>4. ASSUME Formed' = Formed, Enqueuing' \subseteq Enqueuing PROVE Numbered'
  <2>1. Cardinality(Enqueuing') <= Cardinality(Enqueuing) /\ Cardinality(Enqueuing') \in Nat
    BY <1>3, <1>4, FS_Subset, FS_CardinalityType
  <2> QED
    BY <1>1, <1>2, <1>3, <1>4, <2>1 DEF Numbered
<1>5. CASE \E p \in Players : MatchRequest(p)
  <2>1. PICK p \in Players : MatchRequest(p)
    BY <1>5
  <2>2. Formed' = Formed
    BY <2>1 DEF MatchRequest, Formed, matchVars
  <2>3. Enqueuing' = Enqueuing \cup {p}
    BY <2>1 DEF MatchRequest, Enqueuing, LobbyInv, MatchmakingTypeOK
  <2>4. Cardinality(Enqueuing') <= Cardinality(Enqueuing) + 1 /\ Cardinality(Enqueuing') \in Nat
    <3>1. /\ IsFiniteSet(Enqueuing \cup {p})
          /\ Cardinality(Enqueuing \cup {p}) =
                 IF p \in Enqueuing THEN Cardinality(Enqueuing) ELSE Cardinality(Enqueuing) + 1
      BY <1>3, FS_AddElement
    <3> QED
      BY <1>3, <2>3, <3>1
  <2>5. k + Cardinality(Enqueuing) < MaxMatches
    BY <1>2, <2>1 DEF MatchRequest, RoomForMatches, Enqueuing
  <2> QED
    BY <1>1, <1>2, <1>3, <2>2, <2>4, <2>5 DEF Numbered
<1>6. CASE \E p \in Players : Enqueue(p)
  <2>1. PICK p \in Players : Enqueue(p)
    BY <1>6
  <2>2. Enqueuing' = Enqueuing \ {p} /\ p \in Enqueuing
    BY <2>1 DEF Enqueue, Enqueuing, LobbyInv, MatchmakingTypeOK
  <2>3. CASE UNCHANGED matchVars
    BY <1>4, <2>2, <2>3 DEF matchVars, Formed
  <2>4. CASE ~UNCHANGED matchVars
    <3>1. k + 1 \in Matches /\ pc' = [pc EXCEPT ![k + 1] = "create"]
      BY <1>2, <2>1, <2>4, EnqueueEffect
    <3>2. Formed' = Formed \cup {k + 1}
      BY <3>1 DEF Formed, LobbyInv, MatchmakingTypeOK
    <3>3. Formed' = 1..(k + 1) /\ k + 1 \in 0..MaxMatches
      BY <1>1, <1>2, <3>1, <3>2 DEF Matches
    <3>4. Cardinality(Enqueuing') = Cardinality(Enqueuing) - 1
      BY <1>3, <2>2, FS_RemoveElement
    <3> QED
      BY <1>1, <1>2, <1>3, <3>3, <3>4 DEF Numbered
  <2> QED
    BY <2>3, <2>4
<1>7. CASE \E p \in Players : \/ CancelRequest(p) \/ CancelMatch(p) \/ Hangup(p) \/ Disconnect(p)
                              \/ \E m \in Matches : LeaveRoom(p, m)
  <2>1. Formed' = Formed
    BY <1>7 DEF CancelRequest, CancelMatch, Hangup, Disconnect, LeaveRoom, matchVars, Formed
  <2>2. Enqueuing' \subseteq Enqueuing
    <3>1. \A p \in Players : handler'[p] = "enqueue" => handler[p] = "enqueue"
      <4>1. handler' = handler \/ \E p \in Players, h \in {"idle", "cancel"} :
                                     handler' = [handler EXCEPT ![p] = h]
        BY <1>7 DEF CancelRequest, CancelMatch, Hangup, Disconnect, LeaveRoom
      <4> QED
        BY <4>1 DEF LobbyInv, MatchmakingTypeOK
    <3> QED
      BY <3>1 DEF Enqueuing
  <2> QED
    BY <1>4, <2>1, <2>2
<1>8. CASE \E m \in Matches : RoomCloses(m)
  BY <1>4, <1>8 DEF RoomCloses, sessionVars, matchVars, Formed, Enqueuing
<1>9. CASE \E m \in Matches : CreateMatch(m)
  <2>1. PICK m \in Matches : CreateMatch(m)
    BY <1>9
  <2>2. Formed' = Formed
    BY <2>1, CreateMatchGoesOn DEF Formed
  <2>3. Enqueuing' = Enqueuing
    BY <2>1, CreateMatchGoesOn DEF Enqueuing
  <2> QED
    BY <1>4, <2>2, <2>3
<1> QED
  BY <1>5, <1>6, <1>7, <1>8, <1>9 DEF Next

\* A formed squad keeps its size and its distinct players; members come
\* from the squad alone.
LEMMA StepsKeepSquads ==
    ASSUME LobbyInv, MatchmakingTypeOK', Next
    PROVE  Squads'
<1>1. ASSUME UNCHANGED matchVars, \A m \in Matches : members'[m] \subseteq members[m]
      PROVE  Squads'
  BY <1>1 DEF LobbyInv, Squads, matchVars
<1>2. CASE \E p \in Players : \/ MatchRequest(p) \/ CancelRequest(p) \/ CancelMatch(p)
                              \/ Hangup(p) \/ Disconnect(p)
  BY <1>1, <1>2 DEF MatchRequest, CancelRequest, CancelMatch, Hangup, Disconnect, roomVars
<1>3. CASE \E p \in Players, m \in Matches : LeaveRoom(p, m)
  BY <1>1, <1>3 DEF LeaveRoom, LobbyInv, MatchmakingTypeOK
<1>4. CASE \E m \in Matches : RoomCloses(m)
  BY <1>1, <1>4 DEF RoomCloses, LobbyInv, MatchmakingTypeOK
<1>5. CASE \E p \in Players : Enqueue(p)
  <2>1. PICK p \in Players : Enqueue(p)
    BY <1>5
  <2>2. members' = members
    BY <2>1 DEF Enqueue, roomVars
  <2>3. CASE UNCHANGED matchVars
    BY <1>1, <2>2, <2>3
  <2>4. CASE ~UNCHANGED matchVars
    <3> DEFINE n == Cardinality(Formed) + 1
    <3>1. /\ n \in Matches /\ squad' = [squad EXCEPT ![n] = Append(queue, p)]
          /\ pc' = [pc EXCEPT ![n] = "create"] /\ UNCHANGED turn
          /\ Len(Append(queue, p)) = PlayersPerMatch /\ Injective(Append(queue, p))
      BY <2>1, <2>4, EnqueueEffect
    <3> HIDE DEF n
    <3>2. \A m \in Matches : m # n => squad'[m] = squad[m] /\ pc'[m] = pc[m]
      BY <3>1 DEF LobbyInv, MatchmakingTypeOK
    <3>3. squad'[n] = Append(queue, p) /\ pc'[n] = "create"
      BY <3>1 DEF LobbyInv, MatchmakingTypeOK
    <3> QED
      BY <2>2, <3>1, <3>2, <3>3 DEF LobbyInv, Squads
  <2> QED
    BY <2>3, <2>4
<1>6. CASE \E m \in Matches : CreateMatch(m)
  <2>1. PICK m \in Matches : CreateMatch(m)
    BY <1>6
  <2>2. /\ pc[m] # "none" /\ pc'[m] # "none" /\ squad' = squad
        /\ \A n \in Matches : n # m => /\ turn'[n] = turn[n] /\ members'[n] = members[n]
                                       /\ pc'[n] = pc[n]
    BY <2>1, CreateMatchGoesOn
  <2> QED
    BY <2>2 DEF LobbyInv, Squads
<1> QED
  BY <1>2, <1>3, <1>4, <1>5, <1>6 DEF Next

\* Steps that only take players off the queue.
LEMMA QueuedKept ==
    ASSUME LobbyInv, NEW gone \in SUBSET Players,
           ToSet(queue') = waiting \ gone, waiting' = waiting \ gone, Injective(queue'),
           \A p \in Players : /\ handler'[p] = "enqueue" => handler[p] = "enqueue"
                              /\ p \notin gone /\ sess'[p] = "lobby" => sess[p] = "lobby"
                              /\ handler'[p] = "enqueue" /\ sess'[p] = "lobby" => sess[p] = "lobby"
    PROVE  Queued'
<1>1. \A p \in waiting' : handler'[p] # "enqueue" /\ sess'[p] # "lobby"
  BY DEF LobbyInv, Queued, MatchmakingTypeOK
<1>2. \A p \in Enqueuing' : sess'[p] # "lobby"
  BY DEF LobbyInv, Queued, Enqueuing
<1> QED
  BY <1>1, <1>2 DEF Queued

\* The queue and the waiting table change together.
LEMMA StepsKeepQueued ==
    ASSUME LobbyInv, MatchmakingTypeOK', Next
    PROVE  Queued'
<1>0. ToSet(queue) = waiting /\ Injective(queue)
  BY DEF LobbyInv, Queued
<1>1. ASSUME UNCHANGED <<queue, waiting>>,
             \A p \in Players : /\ handler'[p] = "enqueue" => handler[p] = "enqueue"
                                /\ sess'[p] = "lobby" => sess[p] = "lobby"
      PROVE  Queued'
  BY <1>0, <1>1 DEF LobbyInv, Queued, Enqueuing, MatchmakingTypeOK
<1>2. ASSUME NEW p \in Players, Disconnected(p), UNCHANGED handler
      PROVE  Queued'
  <2>1. \A q \in Players : sess'[q] = "lobby" => sess[q] = "lobby"
    BY <1>2, DisconnectedEffect DEF LobbyInv, MatchmakingTypeOK
  <2>2. /\ ToSet(queue') = waiting \ {p} /\ waiting' = waiting \ {p} /\ Injective(queue')
        /\ {p} \in SUBSET Players
    BY <1>2, DisconnectedEffect
  <2> QED
    BY <1>2, <2>1, <2>2, QueuedKept
<1>3. CASE \E p \in Players : MatchRequest(p)
  <2>1. PICK p \in Players : MatchRequest(p)
    BY <1>3
  <2>2. /\ UNCHANGED <<queue, waiting>> /\ p \notin waiting
        /\ sess' = [sess EXCEPT ![p] = "matching"] /\ handler' = [handler EXCEPT ![p] = "enqueue"]
    BY <2>1 DEF MatchRequest, MayRequest, lobbyVars, LobbyInv, Queued
  <2> QED
    BY <1>0, <2>2 DEF LobbyInv, Queued, Enqueuing, MatchmakingTypeOK
<1>4. CASE \E p \in Players : Enqueue(p)
  <2>1. PICK p \in Players : Enqueue(p)
    BY <1>4
  <2>2. handler[p] = "enqueue" /\ handler' = [handler EXCEPT ![p] = "idle"] /\ sess' = sess
    BY <2>1 DEF Enqueue
  <2>3. sess[p] # "lobby"
    BY <2>2 DEF LobbyInv, Queued, Enqueuing
  <2>4. CASE queue' = Append(queue, p) /\ waiting' = waiting \cup {p}
    <3>1. Injective(queue') /\ ToSet(queue') = waiting'
      BY <2>1, <2>4, EnqueueEffect
    <3> QED
      BY <2>2, <2>3, <2>4, <3>1 DEF LobbyInv, Queued, Enqueuing, MatchmakingTypeOK
  <2>5. CASE queue' = <<>> /\ waiting' = {}
    <3>1. ToSet(queue') = waiting' /\ Injective(queue')
      BY <2>5 DEF ToSet, Injective
    <3> QED
      BY <2>2, <2>5, <3>1 DEF LobbyInv, Queued, Enqueuing, MatchmakingTypeOK
  <2> QED
    BY <2>1, <2>4, <2>5, EnqueueEffect
<1>5. CASE \E p \in Players : CancelMatch(p)
  <2>1. PICK p \in Players : CancelMatch(p)
    BY <1>5
  <2>2. /\ ToSet(queue') = waiting \ {p} /\ waiting' = waiting \ {p} /\ Injective(queue')
        /\ {p} \in SUBSET Players
    BY <1>0, <2>1, DequeuedSeq DEF CancelMatch, StillWaiting, LobbyInv
  <2>3. handler' = [handler EXCEPT ![p] = "idle"]
        /\ \A q \in Players : sess'[q] = sess[q] \/ q = p
    BY <2>1, TransitionTypes DEF CancelMatch, LobbyInv
  <2>4. \A q \in Players : /\ handler'[q] = "enqueue" => handler[q] = "enqueue" /\ q # p
                           /\ q # p => sess'[q] = sess[q]
    BY <2>3 DEF LobbyInv, MatchmakingTypeOK
  <2> QED
    BY <2>2, <2>4, QueuedKept
<1>6. CASE \E p \in Players : Disconnect(p)
  BY <1>2, <1>6 DEF Disconnect
<1>7. CASE \E p \in Players : \/ CancelRequest(p) \/ Hangup(p)
                              \/ \E m \in Matches : LeaveRoom(p, m)
  <2>1. /\ UNCHANGED <<queue, waiting, sess>>
        /\ \/ handler' = handler
           \/ \E p \in Players : handler' = [handler EXCEPT ![p] = "cancel"]
    BY <1>7 DEF CancelRequest, Hangup, LeaveRoom, lobbyVars
  <2>2. \A p \in Players : handler'[p] = "enqueue" => handler[p] = "enqueue"
    BY <2>1 DEF LobbyInv, MatchmakingTypeOK
  <2> QED
    BY <1>1, <2>1, <2>2
<1>8. CASE \E m \in Matches : RoomCloses(m)
  BY <1>1, <1>8 DEF RoomCloses, sessionVars, lobbyVars
<1>9. CASE \E m \in Matches : CreateMatch(m)
  <2>1. PICK m \in Matches : CreateMatch(m)
    BY <1>9
  <2>2. Current(m) \in Players /\ handler' = handler
    BY <2>1, CreateMatchGoesOn, CurrentIsPlayer
  <2>3. CASE EnterRoom(m)
    <3>1. UNCHANGED <<queue, waiting>> /\ \A q \in Players : sess'[q] = "lobby" => sess[q] = "lobby"
      BY <2>2, <2>3, TransitionTypes DEF EnterRoom, lobbyVars, LobbyInv
    <3> QED
      BY <1>1, <2>2, <3>1
  <2>4. CASE Announce(m)
    <3>1. CASE conn[Current(m)] = "closing"
      BY <1>2, <2>2, <2>4, <3>1 DEF Announce
    <3>2. CASE conn[Current(m)] # "closing"
      BY <1>1, <2>2, <2>4, <3>2 DEF Announce, lobbyVars
    <3> QED
      BY <3>1, <3>2
  <2>5. CASE ~(EnterRoom(m) \/ Announce(m))
    <3>1. UNCHANGED <<queue, waiting, sess>>
      BY <2>1, <2>5 DEF CreateMatch, CreateRoom, CheckState, JoinRoom, BindRoom, CheckConnection,
                        OpenStage, FailMatch, CloseRoom, sessionVars, lobbyVars
    <3> QED
      BY <1>1, <2>2, <3>1
  <2> QED
    BY <2>3, <2>4, <2>5
<1> QED
  BY <1>3, <1>4, <1>5, <1>6, <1>7, <1>8, <1>9 DEF Next

\* The empty lobby satisfies the invariant.
LEMMA LobbyAtFirst == Init => LobbyInv
<1> SUFFICES ASSUME Init PROVE LobbyInv
  OBVIOUS
<1>1. MatchmakingTypeOK
  BY MatchmakingAssumption DEF Init, MatchmakingTypeOK
<1>2. Formed = {} /\ Enqueuing = {}
  BY DEF Init, Formed, Enqueuing
<1>3. Numbered
  <2>1. {} = 1..0 /\ Cardinality({}) = 0
    BY FS_EmptySet
  <2> QED
    BY <1>2, <2>1, MatchmakingAssumption DEF Numbered
<1>4. Squads /\ Queued
  BY <1>2 DEF Init, Squads, Queued, Injective, ToSet
<1> QED
  BY <1>1, <1>3, <1>4 DEF LobbyInv

\* Every step keeps the invariant of the lobby.
LEMMA StepsKeepLobby == LobbyInv /\ [Next]_vars => LobbyInv'
<1> SUFFICES ASSUME LobbyInv, [Next]_vars PROVE LobbyInv'
  OBVIOUS
<1>1. CASE UNCHANGED vars
  BY <1>1 DEF vars, sessionVars, lobbyVars, matchVars, roomVars, LobbyInv, MatchmakingTypeOK,
              Numbered, Squads, Queued, Formed, Enqueuing
<1>2. CASE Next
  <2>1. ASSUME NEW m \in Matches, RoomCloses(m) PROVE MatchmakingTypeOK'
    <3>1. UNCHANGED <<sess, bound, conn, handler, queue, waiting, squad, pc, turn, leaving, unheard>>
      BY <2>1 DEF RoomCloses, sessionVars, lobbyVars, matchVars
    <3>2. /\ room' \in [Matches -> {"none", "open", "closed"}]
          /\ members' \in [Matches -> SUBSET Players]
      BY <2>1 DEF RoomCloses, LobbyInv, MatchmakingTypeOK
    <3> QED
      BY <3>1, <3>2 DEF LobbyInv, MatchmakingTypeOK
  <2>2. ASSUME NEW p \in Players, NEW m \in Matches, LeaveRoom(p, m) PROVE MatchmakingTypeOK'
    BY <2>2, SessionStepsKeepTypes
  <2>3. MatchmakingTypeOK'
    BY <1>2, <2>1, <2>2, SessionStepsKeepTypes, CreateMatchKeepsTypes DEF Next
  <2> QED
    BY <1>2, <2>3, StepsKeepNumbered, StepsKeepSquads, StepsKeepQueued DEF LobbyInv
<1> QED
  BY <1>1, <1>2

\* The lobby invariant holds in every reachable state.
LEMMA LobbyIsInvariant == Spec => []LobbyInv
BY LobbyAtFirst, StepsKeepLobby, PTL DEF Spec

\* The sessions, the matcher and the createMatch goroutines keep their types, and
\* a whole squad never stays in the matcher's queue.
THEOREM MatchmakingTypes == Spec => []MatchmakingTypeOK
<1>1. LobbyInv => MatchmakingTypeOK
  BY DEF LobbyInv
<1> QED
  BY <1>1, LobbyIsInvariant, PTL

\* handleMatchRequest, handleMatchCancel and disconnected: the matcher and the
\* waiting table agree, so the two error returns of Enqueue are never taken.
THEOREM QueueAgrees == Spec => []QueueMatchesWaiting
<1>1. LobbyInv => QueueMatchesWaiting
  BY QueueCounts DEF LobbyInv, Queued, QueueMatchesWaiting
<1> QED
  BY <1>1, LobbyIsInvariant, PTL

-----------------------------------------------------------------------------
(* Nobody is forgotten *)

\* createMatch has not yet settled what becomes of player number k of match m.
Ahead(m, k) ==
    \/ pc[m] \in {"create", "check", "join", "bind", "enter"} /\ k >= turn[m]
    \/ pc[m] = "alive" /\ k > turn[m]
    \/ pc[m] = "fail"

Pending(m, p) == \E k \in 1..PlayersPerMatch : squad[m][k] = p /\ Ahead(m, k)

\* A player that only somebody else can bring out of state matching, and that a
\* failed match has not given up.
Helpless(p) == /\ sess[p] = "matching" /\ conn[p] = "open" /\ handler[p] = "idle"
               /\ p \notin unheard

CareInv ==
    /\ LobbyInv
    /\ \A p \in Players : Helpless(p) => p \in waiting \/ \E m \in Matches : Pending(m, p)

\* Steps that leave the matches alone.
LEMMA CareKept ==
    ASSUME CareInv, LobbyInv', UNCHANGED matchVars,
           \A p \in Players : Helpless(p)' => Helpless(p) /\ (p \in waiting => p \in waiting')
    PROVE  CareInv'
<1>1. \A m \in Matches, p \in Players : Pending(m, p) => Pending(m, p)'
  BY DEF matchVars, Pending, Ahead
<1> QED
  BY <1>1 DEF CareInv

\* A createMatch that goes on without settling anything.
LEMMA CareCarried ==
    ASSUME CareInv, LobbyInv', NEW m \in Matches, CreateMatch(m),
           \A p \in Players : Helpless(p)' => Helpless(p) /\ (p \in waiting => p \in waiting'),
           \A p \in Players, k \in 1..PlayersPerMatch :
               Helpless(p)' /\ squad[m][k] = p /\ Ahead(m, k) => Ahead(m, k)'
    PROVE  CareInv'
<1>1. /\ squad' = squad
      /\ \A n \in Matches : n # m => pc'[n] = pc[n] /\ turn'[n] = turn[n]
  BY CreateMatchGoesOn DEF CareInv
<1>2. \A n \in Matches, p \in Players : Helpless(p)' /\ Pending(n, p) => Pending(n, p)'
  <2> SUFFICES ASSUME NEW n \in Matches, NEW p \in Players, Helpless(p)', Pending(n, p)
               PROVE  Pending(n, p)'
    OBVIOUS
  <2>1. PICK k \in 1..PlayersPerMatch : squad[n][k] = p /\ Ahead(n, k)
    BY DEF Pending
  <2>2. Ahead(n, k)'
    BY <1>1, <2>1 DEF Ahead
  <2> QED
    BY <1>1, <2>1, <2>2 DEF Pending
<1> QED
  BY <1>2 DEF CareInv

\* No step of a reader or a connection leaves a matching player without a
\* place in the queue or in a match.
LEMMA SessionStepsKeepCare ==
    ASSUME CareInv, LobbyInv', NEW p \in Players,
           \/ MatchRequest(p) \/ Enqueue(p) \/ CancelRequest(p) \/ CancelMatch(p)
           \/ Hangup(p) \/ Disconnect(p)
           \/ \E m \in Matches : LeaveRoom(p, m)
    PROVE  CareInv'
<1> MatchmakingTypeOK
  BY DEF CareInv, LobbyInv
<1>1. CASE MatchRequest(p) \/ CancelRequest(p) \/ Hangup(p)
  <2>1. UNCHANGED <<waiting, matchVars>>
    BY <1>1 DEF MatchRequest, CancelRequest, Hangup, lobbyVars
  <2>2. \A q \in Players : Helpless(q)' => Helpless(q)
    BY <1>1 DEF MatchRequest, CancelRequest, Hangup, Helpless, MatchmakingTypeOK
  <2> QED
    BY <2>1, <2>2, CareKept
<1>2. CASE Enqueue(p)
  <2>1. /\ UNCHANGED <<sess, conn, unheard>> /\ handler' = [handler EXCEPT ![p] = "idle"]
    BY <1>2 DEF Enqueue
  <2>2. \A q \in Players : Helpless(q)' => Helpless(q) \/ q = p
    BY <2>1 DEF Helpless, MatchmakingTypeOK
  <2>3. CASE UNCHANGED matchVars /\ waiting' = waiting \cup {p}
    <3>1. \A m \in Matches, q \in Players : Pending(m, q) => Pending(m, q)'
      BY <2>3 DEF matchVars, Pending, Ahead
    <3> QED
      BY <2>2, <2>3, <3>1 DEF CareInv
  <2>4. CASE ~(UNCHANGED matchVars /\ waiting' = waiting \cup {p})
    <3> DEFINE q == Append(queue, p)
    <3>1. /\ Cardinality(Formed) + 1 \in Matches /\ Formed = 1..Cardinality(Formed)
          /\ squad' = [squad EXCEPT ![Cardinality(Formed) + 1] = q]
          /\ pc' = [pc EXCEPT ![Cardinality(Formed) + 1] = "create"] /\ UNCHANGED turn
          /\ Len(q) = PlayersPerMatch /\ q \in Seq(Players) /\ ToSet(q) = waiting \cup {p}
      BY <1>2, <2>4, EnqueueEffect DEF CareInv
    <3> HIDE DEF q
    <3>2. PICK n \in Matches : n = Cardinality(Formed) + 1
      BY <3>1
    <3>3. turn[n] = 1 /\ pc[n] = "none"
      <4>1. Cardinality(Formed) \in Nat
        <5>1. PICK k \in 0..MaxMatches : Formed = 1..k
          BY DEF CareInv, LobbyInv, Numbered
        <5> QED
          BY <5>1, FS_Interval, MatchmakingAssumption
      <4>2. n \notin Formed
        BY <3>1, <3>2, <4>1
      <4> QED
        BY <4>2 DEF CareInv, LobbyInv, Squads, Formed
    <3>4. /\ squad'[n] = q /\ pc'[n] = "create" /\ turn'[n] = 1
          /\ \A m \in Matches : m # n => /\ squad'[m] = squad[m] /\ pc'[m] = pc[m]
                                         /\ turn'[m] = turn[m]
      BY <3>1, <3>2, <3>3 DEF MatchmakingTypeOK
    <3>5. \A r \in ToSet(q) : Pending(n, r)'
      BY <3>1, <3>4 DEF Pending, Ahead, ToSet
    <3>6. \A m \in Matches, r \in Players : m # n /\ Pending(m, r) => Pending(m, r)'
      BY <3>4 DEF Pending, Ahead
    <3>7. \A r \in Players : ~Pending(n, r)
      BY <3>3 DEF Pending, Ahead
    <3> QED
      BY <2>2, <3>1, <3>5, <3>6, <3>7 DEF CareInv
  <2> QED
    BY <2>3, <2>4
<1>3. CASE CancelMatch(p)
  <2>1. /\ UNCHANGED <<conn, matchVars, unheard>> /\ handler' = [handler EXCEPT ![p] = "idle"]
        /\ waiting' = waiting \ {p}
        /\ sess' = IF CanTransition(sess[p], "lobby") THEN [sess EXCEPT ![p] = "lobby"] ELSE sess
    BY <1>3 DEF CancelMatch, StillWaiting, Transition
  <2>2. sess'[p] # "matching" /\ \A q \in Players : q # p => sess'[q] = sess[q]
    BY <2>1 DEF CanTransition, MatchmakingTypeOK
  <2>3. \A q \in Players : Helpless(q)' => Helpless(q) /\ q # p
    BY <2>1, <2>2 DEF Helpless, MatchmakingTypeOK
  <2> QED
    BY <2>1, <2>3, CareKept
<1>4. CASE Disconnect(p)
  <2>1. /\ sess' = [sess EXCEPT ![p] = "disconnected"] /\ conn' = [conn EXCEPT ![p] = "closed"]
        /\ waiting' = waiting \ {p} /\ UNCHANGED <<handler, matchVars, unheard>>
    BY <1>4, DisconnectedEffect DEF Disconnect, CareInv
  <2>2. \A q \in Players : Helpless(q)' => Helpless(q) /\ q # p
    BY <2>1 DEF Helpless, MatchmakingTypeOK
  <2> QED
    BY <2>1, <2>2, CareKept
<1>5. CASE \E m \in Matches : LeaveRoom(p, m)
  <2>1. UNCHANGED <<sess, conn, handler, waiting, matchVars, unheard>>
    BY <1>5 DEF LeaveRoom, lobbyVars
  <2> QED
    BY <2>1, CareKept DEF Helpless
<1> QED
  BY <1>1, <1>2, <1>3, <1>4, <1>5

\* createMatch lets go of a participant only when it is in the room, told,
\* or gone.
LEMMA CreateMatchKeepsCare ==
    ASSUME CareInv, LobbyInv', NEW m \in Matches, CreateMatch(m)
    PROVE  CareInv'
<1> MatchmakingTypeOK /\ LobbyInv
  BY DEF CareInv, LobbyInv
<1>0. /\ turn[m] \in DOMAIN squad[m] /\ Current(m) \in Players
      /\ Len(squad[m]) = PlayersPerMatch /\ squad[m] \in Seq(Players)
      /\ turn[m] \in 1..PlayersPerMatch
  BY CreateMatchGoesOn, CurrentIsPlayer DEF LobbyInv, Squads, MatchmakingTypeOK
<1>1. CASE CreateRoom(m) \/ CheckState(m) \/ JoinRoom(m) \/ BindRoom(m) \/ OpenStage(m)
  <2>1. /\ UNCHANGED <<sess, conn, handler, waiting, turn, unheard>>
        /\ pc[m] \in {"create", "check", "join", "bind", "start"}
        /\ pc[m] # "start" => pc'[m] \in {"check", "join", "bind", "enter", "fail"}
    BY <1>1 DEF CreateRoom, CheckState, JoinRoom, BindRoom, OpenStage, Goto, sessionVars, lobbyVars,
                MatchmakingTypeOK
  <2>2. \A k \in 1..PlayersPerMatch : Ahead(m, k) => Ahead(m, k)'
    BY <2>1 DEF Ahead
  <2> QED
    BY <2>1, <2>2, CareCarried DEF Helpless
<1>2. CASE EnterRoom(m)
  <2>1. /\ UNCHANGED <<conn, handler, waiting, turn, unheard>>
        /\ pc[m] = "enter" /\ pc'[m] = "alive"
        /\ sess' = IF CanTransition(sess[Current(m)], "in_room")
                   THEN [sess EXCEPT ![Current(m)] = "in_room"] ELSE sess
    BY <1>2 DEF EnterRoom, Goto, Transition, lobbyVars, MatchmakingTypeOK
  <2>2. \A p \in Players : Helpless(p)' => Helpless(p) /\ p # Current(m)
    BY <1>0, <2>1 DEF Helpless, CanTransition, MatchmakingTypeOK
  <2>3. \A p \in Players, k \in 1..PlayersPerMatch :
            Helpless(p)' /\ squad[m][k] = p /\ Ahead(m, k) => Ahead(m, k)'
    BY <1>0, <2>1, <2>2 DEF Ahead, Current
  <2> QED
    BY <2>1, <2>2, <2>3, CareCarried
<1>3. CASE CheckConnection(m)
  <2>1. UNCHANGED <<sess, conn, handler, waiting, unheard>> /\ pc[m] = "alive"
    BY <1>3 DEF CheckConnection, sessionVars, lobbyVars
  <2>2. CASE Goto(m, "fail") /\ UNCHANGED turn
    <3>1. pc'[m] = "fail"
      BY <2>2 DEF Goto, MatchmakingTypeOK
    <3> QED
      BY <2>1, <3>1, CareCarried DEF Helpless, Ahead
  <2>3. CASE NextPlayer(m, "check", "start")
    <3>1. \/ turn[m] < Len(squad[m]) /\ pc'[m] = "check" /\ turn'[m] = turn[m] + 1
          \/ turn[m] >= Len(squad[m])
      BY <1>0, <2>3 DEF NextPlayer, Goto, MatchmakingTypeOK
    <3>2. \A k \in 1..PlayersPerMatch : Ahead(m, k) => Ahead(m, k)'
      BY <1>0, <2>1, <3>1 DEF Ahead
    <3> QED
      BY <2>1, <3>2, CareCarried DEF Helpless
  <2> QED
    BY <1>3, <2>2, <2>3 DEF CheckConnection
<1>4. CASE Announce(m)
  <2>1. pc[m] = "announce" /\ UNCHANGED <<handler, unheard>>
    BY <1>4 DEF Announce
  <2>2. \A k \in 1..PlayersPerMatch : ~Ahead(m, k)
    BY <2>1 DEF Ahead
  <2>3. \A q \in Players : Helpless(q)' => Helpless(q) /\ (q \in waiting => q \in waiting')
    <3>1. CASE conn[Current(m)] = "closing"
      <4>1. /\ sess' = [sess EXCEPT ![Current(m)] = "disconnected"]
            /\ conn' = [conn EXCEPT ![Current(m)] = "closed"]
            /\ waiting' = waiting \ {Current(m)}
        BY <1>0, <1>4, <3>1, DisconnectedEffect DEF Announce
      <4> QED
        BY <1>0, <2>1, <4>1 DEF Helpless, MatchmakingTypeOK
    <3>2. CASE conn[Current(m)] # "closing"
      BY <1>4, <2>1, <3>2 DEF Announce, lobbyVars, Helpless
    <3> QED
      BY <3>1, <3>2
  <2> QED
    BY <2>2, <2>3, CareCarried
<1>5. CASE FailMatch(m)
  <2>1. /\ UNCHANGED <<sess, handler, waiting>> /\ unheard \subseteq unheard'
        /\ \A p \in Players : conn'[p] = conn[p] \/ (conn[p] = "open" /\ conn'[p] = "closing")
        /\ \A p \in Told(m) \cap Players : conn'[p] = "open" => p \in unheard'
    BY <1>5, FailEffect
  <2>2. \A p \in Players : Helpless(p)' => Helpless(p) /\ p \notin Told(m)
    BY <2>1 DEF Helpless
  <2>3. \A k \in 1..PlayersPerMatch : squad[m][k] \in Told(m)
    BY <1>0 DEF Told, ToSet
  <2> QED
    BY <2>1, <2>2, <2>3, CareCarried
<1>6. CASE CloseRoom(m)
  <2>1. UNCHANGED <<sess, conn, handler, waiting, unheard>> /\ pc[m] = "close"
    BY <1>6 DEF CloseRoom, sessionVars, lobbyVars
  <2> QED
    BY <2>1, CareCarried DEF Helpless, Ahead
<1> QED
  BY <1>1, <1>2, <1>3, <1>4, <1>5, <1>6 DEF CreateMatch

\* Every step keeps every matching player in somebody's care.
LEMMA StepsKeepCare == CareInv /\ [Next]_vars => CareInv'
<1> SUFFICES ASSUME CareInv, [Next]_vars PROVE CareInv'
  OBVIOUS
<1>1. LobbyInv'
  BY StepsKeepLobby DEF CareInv
<1>2. CASE UNCHANGED vars
  BY <1>1, <1>2, CareKept DEF vars, sessionVars, lobbyVars, matchVars, Helpless
<1>3. CASE \E m \in Matches : RoomCloses(m)
  BY <1>1, <1>3, CareKept DEF RoomCloses, sessionVars, lobbyVars, Helpless
<1>4. CASE Next /\ ~(\E m \in Matches : RoomCloses(m))
  BY <1>1, <1>4, SessionStepsKeepCare, CreateMatchKeepsCare DEF Next
<1> QED
  BY <1>2, <1>3, <1>4

\* handleMatchRequest, createMatch, failMatch and handleMatchCancel: a connected
\* player in state matching is queued or some createMatch still comes to it; the
\* client is left waiting for a match that nobody makes only if its reliable
\* queue was full when failMatch wanted to tell it so.
THEOREM NobodyIsForgotten == Spec => []NobodyForgotten
<1>1. Init => CareInv
  BY LobbyAtFirst DEF CareInv, Init, Helpless
<1>2. CareInv => NobodyForgotten
  <2> SUFFICES ASSUME CareInv, NEW p \in Players, NEW m \in Matches, Pending(m, p) PROVE InHands(p)
    BY DEF CareInv, NobodyForgotten, Helpless
  <2>1. PICK k \in 1..PlayersPerMatch : squad[m][k] = p /\ Ahead(m, k)
    BY DEF Pending
  <2>2. pc[m] \notin {"none", "close", "done"}
    BY <2>1 DEF Ahead
  <2>3. Len(squad[m]) = PlayersPerMatch /\ squad[m] \in Seq(Players)
    BY <2>2 DEF CareInv, LobbyInv, Squads, MatchmakingTypeOK
  <2> QED
    BY <2>1, <2>2, <2>3 DEF InHands, Formed, ToSet
<1> QED
  BY <1>1, <1>2, StepsKeepCare, PTL DEF Spec

-----------------------------------------------------------------------------
(* One squad, and one room, at a time *)

InSquad(p, m) == p \in ToSet(squad[m])

\* A player who never cancels is queued once and goes into one squad: only a
\* cancel leads back to the lobby, where a second request could be made.
SteadyInv ==
    \A p \in Steady :
        /\ handler[p] # "cancel"
        /\ p \in waiting \cup Enqueuing => \A m \in Matches : ~InSquad(p, m)
        /\ \A m \in Matches : InSquad(p, m) => sess[p] # "lobby"
        /\ \A m, n \in Matches : InSquad(p, m) /\ InSquad(p, n) => m = n

MembersInv == \A m \in Matches : members[m] \subseteq ToSet(squad[m])

OneSquadInv == LobbyInv /\ SteadyInv /\ MembersInv

\* Steps that form no match.
LEMMA SteadyKept ==
    ASSUME OneSquadInv, LobbyInv', UNCHANGED squad,
           \A p \in Steady : /\ handler'[p] # "cancel"
                             /\ p \in waiting' \cup Enqueuing'
                                    => p \in waiting \cup Enqueuing \/ sess[p] = "lobby"
                             /\ sess'[p] = "lobby" => sess[p] = "lobby",
           \A m \in Matches : \A p \in members'[m] : p \in members[m] \/ InSquad(p, m)
    PROVE  OneSquadInv'
<1>1. SteadyInv'
  BY DEF OneSquadInv, SteadyInv, InSquad
<1>2. MembersInv'
  BY DEF OneSquadInv, MembersInv, InSquad
<1> QED
  BY <1>1, <1>2 DEF OneSquadInv

\* A steady player is one that does not cancel.
LEMMA SteadyIsPlayer == ASSUME NEW p \in Steady PROVE p \in Players /\ p \notin Cancellers
BY DEF Steady

\* A disconnect puts nobody into a second squad.
LEMMA DisconnectedKeepsSquads ==
    ASSUME OneSquadInv, LobbyInv', NEW q \in Players, Disconnected(q), UNCHANGED <<handler, squad, members>>
    PROVE  OneSquadInv'
<1>1. sess' = [sess EXCEPT ![q] = "disconnected"] /\ waiting' = waiting \ {q}
  BY DisconnectedEffect DEF OneSquadInv
<1>2. \A p \in Steady : /\ handler'[p] # "cancel"
                        /\ p \in waiting' \cup Enqueuing' => p \in waiting \cup Enqueuing
                        /\ sess'[p] = "lobby" => sess[p] = "lobby"
  BY <1>1 DEF OneSquadInv, SteadyInv, Enqueuing, Steady, LobbyInv, MatchmakingTypeOK
<1> QED
  BY <1>2, SteadyKept

\* A squad is made of players that are in no other.
LEMMA EnqueueKeepsSquads ==
    ASSUME OneSquadInv, LobbyInv', NEW p \in Players, Enqueue(p)
    PROVE  OneSquadInv'
<1> MatchmakingTypeOK
  BY DEF OneSquadInv, LobbyInv
<1>1. /\ UNCHANGED <<sess, members>> /\ handler[p] = "enqueue"
      /\ handler' = [handler EXCEPT ![p] = "idle"]
  BY DEF Enqueue, roomVars
<1>2. p \in Enqueuing /\ Enqueuing' = Enqueuing \ {p} /\ p \notin waiting
  BY <1>1 DEF Enqueuing, Enqueue, MatchmakingTypeOK
<1>3. \A q \in Steady : handler'[q] # "cancel"
  BY <1>1 DEF OneSquadInv, SteadyInv, Steady, MatchmakingTypeOK
<1>4. CASE UNCHANGED matchVars /\ waiting' = waiting \cup {p}
  BY <1>1, <1>2, <1>3, <1>4, SteadyKept DEF matchVars
<1>5. CASE ~(UNCHANGED matchVars /\ waiting' = waiting \cup {p})
  <2> DEFINE s == Append(queue, p)
  <2>1. /\ Cardinality(Formed) + 1 \in Matches
        /\ squad' = [squad EXCEPT ![Cardinality(Formed) + 1] = s]
        /\ waiting' = {} /\ ToSet(s) = waiting \cup {p}
        /\ Formed = 1..Cardinality(Formed)
    BY <1>5, EnqueueEffect DEF OneSquadInv
  <2> HIDE DEF s
  <2>2. PICK n \in Matches : n = Cardinality(Formed) + 1
    BY <2>1
  <2>3. squad[n] = <<>> /\ members[n] = {}
    <3>1. PICK k \in 0..MaxMatches : Formed = 1..k
      BY DEF OneSquadInv, LobbyInv, Numbered
    <3>2. n \notin Formed
      BY <2>1, <2>2, <3>1, FS_Interval, MatchmakingAssumption
    <3> QED
      BY <3>2 DEF OneSquadInv, LobbyInv, Squads, Formed
  <2>4. /\ ToSet(squad'[n]) = waiting \cup {p}
        /\ \A m \in Matches : m # n => squad'[m] = squad[m]
    BY <2>1, <2>2 DEF MatchmakingTypeOK
  <2>5. \A q \in Steady, m \in Matches :
            InSquad(q, m)' <=> IF m = n THEN q \in waiting \cup {p} ELSE InSquad(q, m)
    BY <2>4 DEF InSquad
  <2>6. \A q \in Steady : q \in waiting \cup {p} => q \in waiting \cup Enqueuing
    BY <1>2
  <2>7. \A q \in Steady : q \in Enqueuing' => q \notin waiting \cup {p}
    BY <1>2 DEF OneSquadInv, LobbyInv, Queued, Enqueuing
  <2>8. \A q \in Steady : q \in waiting \cup {p} => sess[q] # "lobby"
    BY <1>2 DEF OneSquadInv, LobbyInv, Queued
  <2>9. SteadyInv'
    <3>1. ASSUME NEW q \in Steady
          PROVE  /\ q \in waiting' \cup Enqueuing' => \A m \in Matches : ~InSquad(q, m)'
                 /\ \A m \in Matches : InSquad(q, m)' => sess'[q] # "lobby"
                 /\ \A m, i \in Matches : InSquad(q, m)' /\ InSquad(q, i)' => m = i
      <4>1. /\ q \in waiting \cup Enqueuing => \A m \in Matches : ~InSquad(q, m)
            /\ \A m \in Matches : InSquad(q, m) => sess[q] # "lobby"
            /\ \A m, i \in Matches : InSquad(q, m) /\ InSquad(q, i) => m = i
        BY DEF OneSquadInv, SteadyInv
      <4> QED
        BY <1>1, <1>2, <2>1, <2>5, <2>6, <2>7, <2>8, <4>1
    <3> QED
      BY <1>3, <3>1 DEF SteadyInv
  <2>10. MembersInv'
    BY <1>1, <2>3, <2>4 DEF OneSquadInv, MembersInv
  <2> QED
    BY <2>9, <2>10 DEF OneSquadInv
<1> QED
  BY <1>4, <1>5

\* Every step keeps a steady player in one squad at most.
LEMMA StepsKeepOneSquad == OneSquadInv /\ [Next]_vars => OneSquadInv'
<1> SUFFICES ASSUME OneSquadInv, [Next]_vars PROVE OneSquadInv'
  OBVIOUS
<1>1. LobbyInv'
  BY StepsKeepLobby DEF OneSquadInv
<1> MatchmakingTypeOK /\ LobbyInv
  BY DEF OneSquadInv, LobbyInv
<1>2. CASE UNCHANGED vars
  BY <1>1, <1>2 DEF vars, sessionVars, lobbyVars, matchVars, roomVars, OneSquadInv, SteadyInv,
                    MembersInv, InSquad, Enqueuing
<1>3. CASE \E p \in Players : MatchRequest(p)
  <2>1. PICK p \in Players : MatchRequest(p)
    BY <1>3
  <2>2. /\ sess[p] = "lobby" /\ sess' = [sess EXCEPT ![p] = "matching"]
        /\ handler' = [handler EXCEPT ![p] = "enqueue"]
        /\ UNCHANGED <<waiting, squad, members>>
    BY <2>1 DEF MatchRequest, MayRequest, lobbyVars, matchVars, roomVars
  <2>3. \A q \in Steady : /\ handler'[q] # "cancel"
                          /\ q \in Enqueuing' => q \in Enqueuing \/ sess[q] = "lobby"
                          /\ sess'[q] = "lobby" => sess[q] = "lobby"
    BY <2>2 DEF OneSquadInv, SteadyInv, Enqueuing, Steady, MatchmakingTypeOK
  <2> QED
    BY <1>1, <2>2, <2>3, SteadyKept
<1>4. CASE \E p \in Players : Enqueue(p)
  BY <1>1, <1>4, EnqueueKeepsSquads
<1>5. CASE \E p \in Players : CancelRequest(p) \/ CancelMatch(p)
  <2>1. PICK p \in Players : CancelRequest(p) \/ CancelMatch(p)
    BY <1>5
  <2>2. p \notin Steady
    BY <2>1 DEF CancelRequest, CancelMatch, Steady, OneSquadInv, SteadyInv
  <2>3. /\ UNCHANGED <<squad, members>> /\ waiting' \subseteq waiting
        /\ \A q \in Players : q # p => sess'[q] = sess[q]
    BY <2>1, TransitionTypes DEF CancelRequest, CancelMatch, StillWaiting, lobbyVars, matchVars, roomVars
  <2>4. \A q \in Players : q # p => handler'[q] = handler[q]
    BY <2>1 DEF CancelRequest, CancelMatch, MatchmakingTypeOK
  <2>5. \A q \in Steady : /\ handler'[q] # "cancel"
                          /\ q \in Enqueuing' => q \in Enqueuing
                          /\ sess'[q] = sess[q]
    BY <2>2, <2>3, <2>4 DEF OneSquadInv, SteadyInv, Enqueuing, Steady
  <2> QED
    BY <1>1, <2>3, <2>5, SteadyKept
<1>6. CASE \E p \in Players : Disconnect(p)
  BY <1>1, <1>6, DisconnectedKeepsSquads DEF Disconnect, matchVars, roomVars
<1>7. CASE \/ \E p \in Players : Hangup(p)
           \/ \E p \in Players, m \in Matches : LeaveRoom(p, m)
           \/ \E m \in Matches : RoomCloses(m)
  <2>1. UNCHANGED <<sess, handler, waiting, squad>>
    BY <1>7 DEF Hangup, LeaveRoom, RoomCloses, sessionVars, lobbyVars, matchVars
  <2>2. \A m \in Matches : members'[m] \subseteq members[m]
    BY <1>7 DEF Hangup, LeaveRoom, RoomCloses, roomVars, MatchmakingTypeOK
  <2> QED
    BY <1>1, <2>1, <2>2, SteadyKept DEF OneSquadInv, SteadyInv, Enqueuing
<1>8. CASE \E m \in Matches : CreateMatch(m)
  <2>1. PICK m \in Matches : CreateMatch(m)
    BY <1>8
  <2>2. /\ UNCHANGED <<handler, squad>> /\ Current(m) \in Players /\ InSquad(Current(m), m)
    BY <2>1, CreateMatchGoesOn, CurrentIsPlayer DEF InSquad, ToSet, Current
  <2>3. \A n \in Matches : \A p \in members'[n] : p \in members[n] \/ InSquad(p, n)
    <3>1. \/ UNCHANGED members
          \/ members' = [members EXCEPT ![m] = @ \cup {Current(m)}]
          \/ members' = [members EXCEPT ![m] = {}]
      BY <2>1 DEF CreateMatch, CreateRoom, CheckState, JoinRoom, BindRoom, EnterRoom, CheckConnection,
                  OpenStage, Announce, FailMatch, CloseRoom, roomVars
    <3>2. \A n \in Matches : members'[n] \subseteq members[n] \/ (n = m /\ members'[n] = members[n] \cup {Current(m)})
      BY <3>1 DEF MatchmakingTypeOK
    <3> QED
      BY <2>2, <3>2
  <2>4. CASE Announce(m) /\ conn[Current(m)] = "closing"
    BY <1>1, <2>2, <2>4, DisconnectedKeepsSquads DEF Announce, roomVars
  <2>5. CASE ~(Announce(m) /\ conn[Current(m)] = "closing")
    <3>1. UNCHANGED waiting /\ \A q \in Players : sess'[q] = "lobby" => sess[q] = "lobby"
      <4>1. CASE EnterRoom(m)
        BY <2>2, <4>1, TransitionTypes DEF EnterRoom, lobbyVars
      <4>2. CASE ~EnterRoom(m)
        BY <2>1, <2>5, <4>2
           DEF CreateMatch, CreateRoom, CheckState, JoinRoom, BindRoom, CheckConnection, OpenStage,
               Announce, FailMatch, CloseRoom, sessionVars, lobbyVars
      <4> QED
        BY <4>1, <4>2
    <3> QED
      BY <1>1, <2>2, <2>3, <3>1, SteadyKept, SteadyIsPlayer DEF OneSquadInv, SteadyInv, Enqueuing
  <2> QED
    BY <2>4, <2>5
<1> QED
  BY <1>2, <1>3, <1>4, <1>5, <1>6, <1>7, <1>8 DEF Next

\* At first there are no squads.
LEMMA OneSquadAtFirst == Init => OneSquadInv
BY LobbyAtFirst DEF Init, OneSquadInv, SteadyInv, MembersInv, InSquad, ToSet, Enqueuing, Steady

\* handleMatchRequest, createMatch and router.Join: a player whose client does
\* not cancel never is in the rooms of two matches.
THEOREM OneRoomPerPlayer == Spec => []PlayerInOneRoom
<1>1. OneSquadInv => PlayerInOneRoom
  BY DEF OneSquadInv, SteadyInv, MembersInv, InSquad, PlayerInOneRoom
<1> QED
  BY <1>1, OneSquadAtFirst, StepsKeepOneSquad, PTL DEF Spec

-----------------------------------------------------------------------------
(* What a match leaves behind *)

\* A session that was disconnected, and one on its way out of a room, has lost
\* its connection; a room that is not open is empty.
EndedInv ==
    /\ \A p \in Players : sess[p] = "disconnected" => conn[p] = "closed"
    /\ \A p \in Players, m \in Matches : <<p, m>> \in leaving => conn[p] = "closed"
    /\ \A m \in Matches : room[m] # "open" => members[m] = {}

\* The player createMatch is at: what it has seen and done still holds, unless
\* the connection has ended.
Busy(m) ==
    /\ pc[m] = "create" => turn[m] = 1
    /\ pc[m] # "none" /\ Current(m) \in Steady =>
           /\ pc[m] \in {"join", "bind", "enter"} => sess[Current(m)] \in {"matching", "disconnected"}
           /\ pc[m] = "alive" => sess[Current(m)] \in {"in_room", "disconnected"}
           /\ pc[m] \in {"enter", "alive"} /\ conn[Current(m)] # "closed" => bound[Current(m)] = m

\* createMatch is through with player number k.
Passed(m, k) ==
    \/ pc[m] \in {"check", "join", "bind", "enter", "alive"} /\ k < turn[m]
    \/ pc[m] \in {"start", "announce", "done"}

Held(p, m) ==
    \/ <<p, m>> \in leaving
    \/ bound[p] = m /\ sess[p] = "in_room" /\ conn[p] # "closed"

\* The members of the room it is through with are bound to it or on their way out.
Left(m) ==
    \A k \in 1..PlayersPerMatch, p \in Steady :
        Passed(m, k) /\ p = squad[m][k] /\ p \in members[m] => Held(p, m)

SettledInv == OneSquadInv /\ EndedInv /\ \A m \in Matches : Busy(m) /\ Left(m)

\* The participant createMatch is at belongs to its squad.
LEMMA CurrentInSquad ==
    ASSUME LobbyInv, NEW m \in Matches, pc[m] # "none"
    PROVE  InSquad(Current(m), m)
BY CurrentIsPlayer DEF InSquad, ToSet, Current

\* Every place of a formed squad holds one of its players.
LEMMA SquadPlaces ==
    ASSUME LobbyInv, NEW m \in Matches, pc[m] # "none", NEW k \in 1..PlayersPerMatch
    PROVE  InSquad(squad[m][k], m)
BY DEF InSquad, ToSet, LobbyInv, Squads, MatchmakingTypeOK

\* A match that does not go on, while others do.
LEMMA MatchKept ==
    ASSUME SettledInv, NEW m \in Matches,
           pc'[m] = pc[m], turn'[m] = turn[m], squad'[m] = squad[m], members'[m] \subseteq members[m],
           \A p \in Steady : InSquad(p, m) =>
               /\ sess'[p] = sess[p] \/ sess'[p] = "disconnected"
               /\ conn'[p] # "closed" => conn[p] # "closed" /\ bound'[p] = bound[p]
               /\ p \in members'[m] /\ Held(p, m) => Held(p, m)'
    PROVE  Busy(m)' /\ Left(m)'
<1> LobbyInv /\ Busy(m) /\ Left(m)
  BY DEF SettledInv, OneSquadInv
<1>1. Busy(m)'
  <2>1. CASE pc[m] # "none" /\ Current(m) \in Steady
    <3>1. PICK p \in Steady : p = Current(m) /\ InSquad(p, m)
      BY <2>1, CurrentInSquad
    <3>2. p = Current(m)'
      BY <3>1 DEF Current
    <3> QED
      BY <2>1, <3>1, <3>2 DEF Busy
  <2>2. CASE ~(pc[m] # "none" /\ Current(m) \in Steady)
    <3>1. Current(m)' = Current(m)
      BY DEF Current
    <3> QED
      BY <2>2, <3>1 DEF Busy
  <2> QED
    BY <2>1, <2>2
<1>2. Left(m)'
  <2> SUFFICES ASSUME NEW k \in 1..PlayersPerMatch, NEW p \in Steady,
                      Passed(m, k), p = squad[m][k], p \in members'[m]
               PROVE  Held(p, m)'
    BY DEF Left, Passed
  <2>1. InSquad(p, m)
    BY SquadPlaces DEF Passed
  <2>2. Held(p, m)
    BY DEF Left
  <2> QED
    BY <2>1, <2>2
<1> QED
  BY <1>1, <1>2

\* The steps in which no match goes on.
LEMMA SettledKept ==
    ASSUME SettledInv, OneSquadInv', EndedInv', UNCHANGED matchVars,
           \A m \in Matches : members'[m] \subseteq members[m],
           \A p \in Steady, m \in Matches : InSquad(p, m) =>
               /\ sess'[p] = sess[p] \/ sess'[p] = "disconnected"
               /\ conn'[p] # "closed" => conn[p] # "closed" /\ bound'[p] = bound[p]
               /\ p \in members'[m] /\ Held(p, m) => Held(p, m)'
    PROVE  SettledInv'
<1> SUFFICES ASSUME NEW m \in Matches PROVE Busy(m)' /\ Left(m)'
  BY DEF SettledInv
<1>1. pc'[m] = pc[m] /\ turn'[m] = turn[m] /\ squad'[m] = squad[m]
  BY DEF matchVars
<1> QED
  BY <1>1, MatchKept

\* A disconnect keeps what is known of the sessions that have ended.
LEMMA EndedAfterDisconnect ==
    ASSUME SettledInv, NEW q \in Players, Disconnected(q), UNCHANGED <<room, members>>
    PROVE  EndedInv'
<1>1. sess' = [sess EXCEPT ![q] = "disconnected"] /\ conn' = [conn EXCEPT ![q] = "closed"]
  BY DisconnectedEffect DEF SettledInv, OneSquadInv
<1>2. \A p \in Players, m \in Matches : <<p, m>> \in leaving' => <<p, m>> \in leaving \/ p = q
  BY DEF Disconnected, LeaveTask
<1> QED
  BY <1>1, <1>2 DEF SettledInv, EndedInv, OneSquadInv, LobbyInv, MatchmakingTypeOK

\* A member that is held stays held when its connection ends: disconnected()
\* starts the goroutine that makes it leave.
LEMMA HeldAfterDisconnect ==
    ASSUME SettledInv, NEW q \in Players, Disconnected(q), UNCHANGED bound,
           NEW p \in Players, NEW m \in Matches, p \in members[m], Held(p, m)
    PROVE  Held(p, m)'
<1>1. sess' = [sess EXCEPT ![q] = "disconnected"] /\ conn' = [conn EXCEPT ![q] = "closed"]
  BY DisconnectedEffect DEF SettledInv, OneSquadInv
<1>2. leaving \subseteq leaving'
  BY DEF Disconnected
<1>3. CASE p # q
  BY <1>1, <1>2, <1>3 DEF Held, SettledInv, OneSquadInv, LobbyInv, MatchmakingTypeOK
<1>4. CASE p = q /\ <<p, m>> \notin leaving
  <2>1. bound[p] = m /\ m # 0 /\ room[m] = "open"
    BY <1>4 DEF Held, SettledInv, EndedInv, Matches
  <2> QED
    BY <1>4, <2>1 DEF Disconnected, LeaveTask, Held
<1> QED
  BY <1>2, <1>3, <1>4 DEF Held

\* A step of a reader or a connection leaves no ghost in a settled room:
\* whoever goes has its leave under way.
LEMMA SessionStepsKeepSettled ==
    ASSUME SettledInv, OneSquadInv', NEW p \in Players,
           \/ MatchRequest(p) \/ CancelRequest(p) \/ CancelMatch(p) \/ Hangup(p) \/ Disconnect(p)
           \/ \E m \in Matches : LeaveRoom(p, m)
    PROVE  SettledInv'
<1> MatchmakingTypeOK /\ OneSquadInv /\ LobbyInv
  BY DEF SettledInv, OneSquadInv, LobbyInv
<1>1. CASE MatchRequest(p)
  <2>1. /\ sess[p] = "lobby" /\ sess' = [sess EXCEPT ![p] = "matching"]
        /\ UNCHANGED <<bound, conn, leaving, matchVars, room, members>>
    BY <1>1 DEF MatchRequest, MayRequest, roomVars
  <2>2. EndedInv'
    BY <2>1 DEF SettledInv, EndedInv, MatchmakingTypeOK
  <2>3. \A q \in Steady, m \in Matches : InSquad(q, m) => sess'[q] = sess[q]
    BY <2>1 DEF OneSquadInv, SteadyInv, Steady, MatchmakingTypeOK
  <2> QED
    BY <2>1, <2>2, <2>3, SettledKept DEF Held
<1>2. CASE CancelRequest(p) \/ CancelMatch(p)
  <2>1. p \notin Steady
    BY <1>2 DEF CancelRequest, CancelMatch, Steady, OneSquadInv, SteadyInv
  <2>2. /\ UNCHANGED <<bound, conn, leaving, matchVars, room, members>>
        /\ \A q \in Players : q # p => sess'[q] = sess[q]
        /\ sess'[p] \in {sess[p], "lobby"}
    BY <1>2, TransitionTypes DEF CancelRequest, CancelMatch, roomVars
  <2>3. EndedInv'
    BY <2>2 DEF SettledInv, EndedInv
  <2>4. \A q \in Steady : sess'[q] = sess[q]
    BY <2>1, <2>2, SteadyIsPlayer
  <2> QED
    BY <2>2, <2>3, <2>4, SettledKept DEF Held
<1>3. CASE Hangup(p)
  <2>1. /\ UNCHANGED <<sess, bound, leaving, matchVars, room, members>>
        /\ \A q \in Players : conn'[q] = "closed" <=> conn[q] = "closed"
    BY <1>3 DEF Hangup, roomVars, MatchmakingTypeOK
  <2>2. EndedInv'
    BY <2>1 DEF SettledInv, EndedInv
  <2> QED
    BY <2>1, <2>2, SettledKept, SteadyIsPlayer DEF Held
<1>4. CASE Disconnect(p)
  <2>1. /\ Disconnected(p) /\ UNCHANGED <<bound, matchVars, room, members>>
        /\ sess' = [sess EXCEPT ![p] = "disconnected"] /\ conn' = [conn EXCEPT ![p] = "closed"]
    BY <1>4, DisconnectedEffect DEF Disconnect, roomVars
  <2>2. EndedInv'
    BY <2>1, EndedAfterDisconnect
  <2>3. \A q \in Steady : /\ sess'[q] = sess[q] \/ sess'[q] = "disconnected"
                          /\ conn'[q] # "closed" => conn[q] # "closed"
    BY <2>1, SteadyIsPlayer DEF MatchmakingTypeOK
  <2>4. \A q \in Steady, m \in Matches : q \in members'[m] /\ Held(q, m) => Held(q, m)'
    BY <2>1, HeldAfterDisconnect, SteadyIsPlayer
  <2> QED
    BY <2>1, <2>2, <2>3, <2>4, SettledKept
<1>5. CASE \E m \in Matches : LeaveRoom(p, m)
  <2>1. PICK n \in Matches : LeaveRoom(p, n)
    BY <1>5
  <2>2. /\ UNCHANGED <<sess, conn, matchVars, room>> /\ conn[p] = "closed"
        /\ leaving' = leaving \ {<<p, n>>}
        /\ bound' = [bound EXCEPT ![p] = 0]
        /\ members' = [members EXCEPT ![n] = @ \ {p}]
    BY <2>1 DEF LeaveRoom, SettledInv, EndedInv
  <2>3. \A m \in Matches : /\ members'[m] \subseteq members[m]
                           /\ p \in members'[m] => m # n
    BY <2>2 DEF MatchmakingTypeOK
  <2>4. EndedInv'
    BY <2>2, <2>3 DEF SettledInv, EndedInv
  <2>5. \A q \in Players : q # p => bound'[q] = bound[q]
    BY <2>2 DEF MatchmakingTypeOK
  <2>6. \A q \in Steady, m \in Matches : q \in members'[m] /\ Held(q, m) => Held(q, m)'
    BY <2>2, <2>3, <2>5, SteadyIsPlayer DEF Held
  <2> QED
    BY <2>2, <2>3, <2>4, <2>5, <2>6, SettledKept, SteadyIsPlayer
<1> QED
  BY <1>1, <1>2, <1>3, <1>4, <1>5

\* Forming a new match disturbs no settled room.
LEMMA EnqueueKeepsSettled ==
    ASSUME SettledInv, OneSquadInv', NEW p \in Players, Enqueue(p)
    PROVE  SettledInv'
<1> MatchmakingTypeOK /\ OneSquadInv /\ LobbyInv
  BY DEF SettledInv, OneSquadInv, LobbyInv
<1>1. UNCHANGED <<sess, bound, conn, room, members, leaving>>
  BY DEF Enqueue, roomVars
<1>2. EndedInv'
  BY <1>1 DEF SettledInv, EndedInv
<1>3. CASE UNCHANGED matchVars
  BY <1>1, <1>2, <1>3, SettledKept DEF Held
<1>4. CASE ~UNCHANGED matchVars
  <2>1. /\ Cardinality(Formed) + 1 \in Matches
        /\ squad' = [squad EXCEPT ![Cardinality(Formed) + 1] = Append(queue, p)]
        /\ pc' = [pc EXCEPT ![Cardinality(Formed) + 1] = "create"] /\ UNCHANGED turn
        /\ Formed = 1..Cardinality(Formed)
    BY <1>4, EnqueueEffect
  <2>2. PICK n \in Matches : n = Cardinality(Formed) + 1
    BY <2>1
  <2>3. turn[n] = 1
    <3>1. PICK k \in 0..MaxMatches : Formed = 1..k
      BY DEF LobbyInv, Numbered
    <3>2. n \notin Formed
      BY <2>1, <2>2, <3>1, FS_Interval, MatchmakingAssumption
    <3> QED
      BY <3>2 DEF LobbyInv, Squads, Formed
  <2>4. \A m \in Matches : m # n => pc'[m] = pc[m] /\ squad'[m] = squad[m] /\ turn'[m] = turn[m]
    BY <2>1, <2>2 DEF MatchmakingTypeOK
  <2>5. pc'[n] = "create" /\ turn'[n] = 1
    BY <2>1, <2>2, <2>3 DEF MatchmakingTypeOK
  <2>6. ASSUME NEW m \in Matches PROVE Busy(m)' /\ Left(m)'
    <3>1. CASE m = n
      BY <2>5, <3>1 DEF Busy, Left, Passed
    <3>2. CASE m # n
      BY <1>1, <2>4, <3>2, MatchKept DEF Held
    <3> QED
      BY <3>1, <3>2
  <2> QED
    BY <1>2, <2>6 DEF SettledInv
<1> QED
  BY <1>3, <1>4

\* A room that closes has no members left to be wrong about.
LEMMA RoomClosesKeepsSettled ==
    ASSUME SettledInv, OneSquadInv', NEW n \in Matches, RoomCloses(n)
    PROVE  SettledInv'
<1>1. /\ UNCHANGED <<sess, bound, conn, matchVars, leaving>>
      /\ room' = [room EXCEPT ![n] = "closed"] /\ members' = [members EXCEPT ![n] = {}]
  BY DEF RoomCloses, sessionVars
<1>2. EndedInv' /\ \A m \in Matches : members'[m] \subseteq members[m]
  BY <1>1 DEF SettledInv, EndedInv, OneSquadInv, LobbyInv, MatchmakingTypeOK
<1> QED
  BY <1>1, <1>2, SettledKept DEF Held

\* What createMatch does to one match is of no consequence for another.
LEMMA OtherMatchesKept ==
    ASSUME SettledInv, NEW m \in Matches, CreateMatch(m), NEW n \in Matches, n # m
    PROVE  Busy(n)' /\ Left(n)'
<1> MatchmakingTypeOK /\ OneSquadInv /\ LobbyInv
  BY DEF SettledInv, OneSquadInv, LobbyInv
<1>1. /\ pc'[n] = pc[n] /\ turn'[n] = turn[n] /\ squad'[n] = squad[n] /\ members'[n] = members[n]
      /\ pc[m] # "none" /\ Current(m) \in Players
  BY CreateMatchGoesOn, CurrentIsPlayer
<1>2. \A p \in Steady : InSquad(p, n) => p # Current(m)
  BY <1>1, CurrentInSquad DEF OneSquadInv, SteadyInv
<1>3. \A p \in Steady : InSquad(p, n) =>
          /\ sess'[p] = sess[p] \/ sess'[p] = "disconnected"
          /\ conn'[p] # "closed" => conn[p] # "closed" /\ bound'[p] = bound[p]
          /\ p \in members'[n] /\ Held(p, n) => Held(p, n)'
  <2>1. CASE BindRoom(m)
    <3>1. UNCHANGED <<sess, conn, leaving>> /\ \A p \in Players : p # Current(m) => bound'[p] = bound[p]
      BY <2>1 DEF BindRoom, MatchmakingTypeOK
    <3> QED
      BY <1>2, <3>1, SteadyIsPlayer DEF Held
  <2>2. CASE EnterRoom(m)
    <3>1. UNCHANGED <<bound, conn, leaving>> /\ \A p \in Players : p # Current(m) => sess'[p] = sess[p]
      BY <1>1, <2>2, TransitionTypes DEF EnterRoom
    <3> QED
      BY <1>2, <3>1, SteadyIsPlayer DEF Held
  <2>3. CASE FailMatch(m)
    <3>1. /\ UNCHANGED <<sess, bound, leaving>>
          /\ \A p \in Players : conn'[p] = "closed" <=> conn[p] = "closed"
      BY <1>1, <2>3, FailEffect
    <3> QED
      BY <3>1, SteadyIsPlayer DEF Held
  <2>4. CASE Announce(m) /\ conn[Current(m)] = "closing"
    <3>1. Disconnected(Current(m)) /\ UNCHANGED bound
      BY <2>4 DEF Announce
    <3>2. /\ sess' = [sess EXCEPT ![Current(m)] = "disconnected"]
          /\ conn' = [conn EXCEPT ![Current(m)] = "closed"]
      BY <1>1, <3>1, DisconnectedEffect
    <3>3. \A p \in Steady : p # Current(m) => sess'[p] = sess[p] /\ conn'[p] = conn[p]
      BY <3>2, SteadyIsPlayer DEF MatchmakingTypeOK
    <3>4. \A p \in Steady : p \in members[n] /\ Held(p, n) => Held(p, n)'
      BY <1>1, <3>1, HeldAfterDisconnect, SteadyIsPlayer
    <3> QED
      BY <1>1, <1>2, <3>1, <3>3, <3>4
  <2>5. CASE ~(BindRoom(m) \/ EnterRoom(m) \/ FailMatch(m) \/ (Announce(m) /\ conn[Current(m)] = "closing"))
    <3>1. UNCHANGED <<sess, bound, conn, leaving>>
      BY <2>5 DEF CreateMatch, CreateRoom, CheckState, JoinRoom, CheckConnection, OpenStage,
                  Announce, CloseRoom, sessionVars
    <3> QED
      BY <3>1 DEF Held
  <2> QED
    BY <2>1, <2>2, <2>3, <2>4, <2>5
<1> QED
  BY <1>1, <1>3, MatchKept

\* createMatch revives no session that has ended.
LEMMA CreateMatchKeepsEnded ==
    ASSUME SettledInv, NEW m \in Matches, CreateMatch(m)
    PROVE  EndedInv'
<1> MatchmakingTypeOK /\ OneSquadInv /\ LobbyInv /\ EndedInv
  BY DEF SettledInv, OneSquadInv, LobbyInv
<1>0. Current(m) \in Players
  BY CreateMatchGoesOn, CurrentIsPlayer
<1>1. CASE CreateRoom(m)
  BY <1>1 DEF CreateRoom, EndedInv, sessionVars, MatchmakingTypeOK
<1>2. CASE JoinRoom(m)
  <2>1. /\ UNCHANGED <<sess, conn, leaving, room>>
        /\ \A n \in Matches : n # m => members'[n] = members[n]
        /\ room[m] # "open" => members' = members
    BY <1>2, CreateMatchGoesOn DEF JoinRoom, sessionVars
  <2> QED
    BY <2>1 DEF EndedInv
<1>3. CASE CheckState(m) \/ BindRoom(m) \/ CheckConnection(m) \/ OpenStage(m)
  BY <1>3 DEF CheckState, BindRoom, CheckConnection, OpenStage, EndedInv, sessionVars, roomVars
<1>4. CASE EnterRoom(m)
  <2>1. /\ UNCHANGED <<conn, leaving, room, members>>
        /\ \A p \in Players : sess'[p] = sess[p] \/ sess'[p] = "in_room"
    BY <1>0, <1>4, TransitionTypes DEF EnterRoom, roomVars
  <2> QED
    BY <2>1 DEF EndedInv
<1>5. CASE Announce(m)
  <2>1. CASE conn[Current(m)] = "closing"
    BY <1>0, <1>5, <2>1, EndedAfterDisconnect DEF Announce, roomVars
  <2>2. CASE conn[Current(m)] # "closing"
    BY <1>5, <2>2 DEF Announce, roomVars, EndedInv
  <2> QED
    BY <2>1, <2>2
<1>6. CASE FailMatch(m)
  <2>1. /\ UNCHANGED <<sess, leaving, room, members>>
        /\ \A p \in Players : conn[p] = "closed" => conn'[p] = "closed"
    BY <1>6, FailEffect
  <2>2. leaving \subseteq Players \X Matches
    BY DEF MatchmakingTypeOK
  <2> QED
    BY <2>1, <2>2 DEF EndedInv
<1>7. CASE CloseRoom(m)
  <2>1. /\ UNCHANGED <<sess, conn, leaving>>
        /\ \A n \in Matches : n # m => members'[n] = members[n] /\ room'[n] = room[n]
        /\ members'[m] = {}
    BY <1>7 DEF CloseRoom, sessionVars, MatchmakingTypeOK
  <2> QED
    BY <2>1 DEF EndedInv
<1> QED
  BY <1>1, <1>2, <1>3, <1>4, <1>5, <1>6, <1>7 DEF CreateMatch

\* The match that goes on: each step of createMatch hands its player on.
LEMMA OwnMatchKept ==
    ASSUME SettledInv, NEW m \in Matches, CreateMatch(m)
    PROVE  Busy(m)' /\ Left(m)'
<1> MatchmakingTypeOK /\ OneSquadInv /\ LobbyInv /\ EndedInv /\ Busy(m) /\ Left(m)
  BY DEF SettledInv, OneSquadInv, LobbyInv
<1>0. /\ pc[m] # "none" /\ squad' = squad
      /\ turn[m] \in 1..PlayersPerMatch /\ Len(squad[m]) = PlayersPerMatch
      /\ Current(m) = squad[m][turn[m]] /\ Current(m) \in Players
      /\ \A k \in 1..PlayersPerMatch : squad[m][k] = Current(m) => k = turn[m]
  <2>1. pc[m] # "none" /\ squad' = squad
    BY CreateMatchGoesOn
  <2>2. /\ turn[m] \in 1..PlayersPerMatch /\ Len(squad[m]) = PlayersPerMatch
        /\ squad[m] \in Seq(Players) /\ Injective(squad[m])
    BY <2>1 DEF LobbyInv, Squads, MatchmakingTypeOK
  <2>3. Current(m) = squad[m][turn[m]] /\ Current(m) \in Players
    BY <2>1, CurrentIsPlayer DEF Current
  <2>4. \A k \in 1..PlayersPerMatch : squad[m][k] = squad[m][turn[m]] => k = turn[m]
    BY <2>2 DEF Injective
  <2> QED
    BY <2>1, <2>2, <2>3, <2>4
<1>1. CASE CreateRoom(m) \/ CheckState(m) \/ OpenStage(m)
  <2>1. /\ UNCHANGED <<sess, conn, bound, leaving, members, turn>>
        /\ \/ pc[m] = "create" /\ pc'[m] \in {"check", "fail"}
           \/ pc[m] = "check" /\ pc'[m] = "join" /\ sess[Current(m)] = "matching"
           \/ pc[m] = "check" /\ pc'[m] = "fail"
           \/ pc[m] = "start" /\ pc'[m] \in {"announce", "fail"}
    BY <1>1 DEF CreateRoom, CheckState, OpenStage, Goto, sessionVars, roomVars, MatchmakingTypeOK
  <2>2. Current(m)' = Current(m)
    BY <1>0, <2>1 DEF Current
  <2>3. Busy(m)'
    BY <2>1, <2>2 DEF Busy
  <2>4. \A k \in 1..PlayersPerMatch : Passed(m, k)' => Passed(m, k)
    BY <1>0, <2>1 DEF Passed, Busy
  <2> QED
    BY <1>0, <2>1, <2>3, <2>4 DEF Left, Held
<1>2. CASE JoinRoom(m)
  <2>1. /\ UNCHANGED <<sess, conn, bound, leaving, turn>> /\ pc[m] = "join"
        /\ pc'[m] \in {"bind", "fail"}
        /\ members'[m] \subseteq members[m] \cup {Current(m)}
    BY <1>2 DEF JoinRoom, Goto, sessionVars, MatchmakingTypeOK
  <2>2. Current(m)' = Current(m)
    BY <1>0, <2>1 DEF Current
  <2>3. Busy(m)'
    BY <2>1, <2>2 DEF Busy
  <2>4. \A k \in 1..PlayersPerMatch :
            Passed(m, k)' => Passed(m, k) /\ k # turn[m] /\ squad[m][k] # Current(m)
    BY <1>0, <2>1 DEF Passed
  <2> QED
    BY <1>0, <2>1, <2>3, <2>4 DEF Left, Held
<1>3. CASE BindRoom(m) \/ EnterRoom(m)
  <2>1. /\ UNCHANGED <<conn, leaving, members, turn>>
        /\ \/ /\ pc[m] = "bind" /\ pc'[m] = "enter" /\ sess' = sess /\ bound'[Current(m)] = m
              /\ \A p \in Players : p # Current(m) => bound'[p] = bound[p]
           \/ /\ pc[m] = "enter" /\ pc'[m] = "alive" /\ bound' = bound
              /\ sess' = IF CanTransition(sess[Current(m)], "in_room")
                         THEN [sess EXCEPT ![Current(m)] = "in_room"] ELSE sess
    BY <1>0, <1>3 DEF BindRoom, EnterRoom, Transition, Goto, roomVars, MatchmakingTypeOK
  <2>2. Current(m)' = Current(m)
    BY <1>0, <2>1 DEF Current
  <2>3. \A p \in Players : p # Current(m) => bound'[p] = bound[p] /\ sess'[p] = sess[p]
    BY <1>0, <2>1 DEF MatchmakingTypeOK
  <2>4. Busy(m)'
    <3>1. CASE pc[m] = "bind"
      BY <2>1, <2>2, <3>1 DEF Busy
    <3>2. CASE pc[m] = "enter"
      <4>1. sess[Current(m)] \in {"matching", "disconnected"} => sess'[Current(m)] = "in_room"
        BY <1>0, <2>1, <3>2 DEF CanTransition, MatchmakingTypeOK
      <4> QED
        BY <2>1, <2>2, <3>2, <4>1 DEF Busy
    <3> QED
      BY <2>1, <3>1, <3>2
  <2>5. \A k \in 1..PlayersPerMatch :
            Passed(m, k)' => Passed(m, k) /\ k # turn[m] /\ squad[m][k] # Current(m)
    BY <1>0, <2>1 DEF Passed
  <2> QED
    BY <1>0, <2>1, <2>3, <2>4, <2>5, SteadyIsPlayer DEF Left, Held
<1>4. CASE CheckConnection(m)
  <2>1. UNCHANGED <<sess, conn, bound, leaving, members>> /\ pc[m] = "alive"
    BY <1>4 DEF CheckConnection, sessionVars, roomVars
  <2>2. CASE Goto(m, "fail")
    <3>1. pc'[m] = "fail"
      BY <2>2 DEF Goto, MatchmakingTypeOK
    <3> QED
      BY <3>1 DEF Busy, Left, Passed
  <2>3. CASE ~Lost(Current(m)) /\ NextPlayer(m, "check", "start")
    <3>1. \/ pc'[m] = "check" /\ turn'[m] = turn[m] + 1
          \/ pc'[m] = "start" /\ turn[m] = PlayersPerMatch
      BY <1>0, <2>3, MatchmakingAssumption DEF NextPlayer, Goto, MatchmakingTypeOK
    <3>2. Busy(m)'
      BY <3>1 DEF Busy
    <3>3. Current(m) \in Steady => Held(Current(m), m)
      <4>1. conn[Current(m)] # "closed"
        BY <2>3 DEF Lost
      <4>2. sess[Current(m)] # "disconnected"
        BY <1>0, <4>1 DEF EndedInv
      <4> QED
        BY <2>1, <4>1, <4>2 DEF Busy, Held
    <3>4. \A k \in 1..PlayersPerMatch : Passed(m, k)' => Passed(m, k) \/ k = turn[m]
      BY <1>0, <2>1, <3>1 DEF Passed
    <3>5. Left(m)'
      BY <1>0, <2>1, <3>3, <3>4 DEF Left, Held
    <3> QED
      BY <3>2, <3>5
  <2> QED
    BY <1>4, <2>2, <2>3 DEF CheckConnection
<1>5. CASE Announce(m)
  <2>1. pc[m] = "announce" /\ pc'[m] \in {"announce", "done"} /\ UNCHANGED <<bound, members>>
    BY <1>5 DEF Announce, NextPlayer, Goto, roomVars, MatchmakingTypeOK
  <2>2. Busy(m)'
    BY <2>1 DEF Busy
  <2>3. \A p \in Steady : p \in members[m] /\ Held(p, m) => Held(p, m)'
    <3>1. CASE conn[Current(m)] = "closing"
      BY <1>0, <1>5, <2>1, <3>1, HeldAfterDisconnect, SteadyIsPlayer DEF Announce
    <3>2. CASE conn[Current(m)] # "closing"
      BY <1>5, <2>1, <3>2 DEF Announce, Held
    <3> QED
      BY <3>1, <3>2
  <2>4. \A k \in 1..PlayersPerMatch : Passed(m, k)
    BY <2>1 DEF Passed
  <2> QED
    BY <1>0, <2>1, <2>2, <2>3, <2>4 DEF Left
<1>6. CASE FailMatch(m)
  <2>1. pc'[m] = "close"
    BY <1>6 DEF FailMatch, Goto, MatchmakingTypeOK
  <2> QED
    BY <2>1 DEF Busy, Left, Passed
<1>7. CASE CloseRoom(m)
  <2>1. pc'[m] = "done" /\ members'[m] = {}
    BY <1>7 DEF CloseRoom, Goto, MatchmakingTypeOK
  <2> QED
    BY <2>1 DEF Busy, Left, Passed
<1> QED
  BY <1>1, <1>2, <1>3, <1>4, <1>5, <1>6, <1>7 DEF CreateMatch

\* Every step keeps the settled rooms true to their players.
LEMMA StepsKeepSettled == SettledInv /\ [Next]_vars => SettledInv'
<1> SUFFICES ASSUME SettledInv, [Next]_vars PROVE SettledInv'
  OBVIOUS
<1>1. OneSquadInv'
  BY StepsKeepOneSquad DEF SettledInv
<1>2. CASE UNCHANGED vars
  <2>1. EndedInv'
    BY <1>2 DEF vars, sessionVars, roomVars, SettledInv, EndedInv
  <2> QED
    BY <1>1, <1>2, <2>1, SettledKept DEF vars, sessionVars, roomVars, Held
<1>3. ASSUME NEW m \in Matches, CreateMatch(m) PROVE SettledInv'
  BY <1>1, <1>3, CreateMatchKeepsEnded, OwnMatchKept, OtherMatchesKept DEF SettledInv
<1>4. ASSUME NEW m \in Matches, RoomCloses(m) PROVE SettledInv'
  BY <1>1, <1>4, RoomClosesKeepsSettled
<1>5. ASSUME NEW p \in Players, Enqueue(p) PROVE SettledInv'
  BY <1>1, <1>5, EnqueueKeepsSettled
<1>6. ASSUME NEW p \in Players,
             \/ MatchRequest(p) \/ CancelRequest(p) \/ CancelMatch(p) \/ Hangup(p) \/ Disconnect(p)
             \/ \E m \in Matches : LeaveRoom(p, m)
      PROVE  SettledInv'
  BY <1>1, <1>6, SessionStepsKeepSettled
<1> QED
  BY <1>2, <1>3, <1>4, <1>5, <1>6 DEF Next

\* createMatch, router.Join, disconnected and leaveRoom: a match leaves no
\* member behind that is not bound to its room, whenever connections end.
THEOREM RoomHoldsItsPlayers == Spec => []SettledRoomHoldsItsPlayers
<1>1. Init => SettledInv
  BY OneSquadAtFirst DEF Init, SettledInv, EndedInv, Busy, Left, Passed
<1>2. SettledInv => SettledRoomHoldsItsPlayers
  <2> SUFFICES ASSUME SettledInv, NEW m \in Matches, pc[m] = "done", NEW p \in members[m] \cap Steady
               PROVE  Held(p, m)
    BY DEF SettledRoomHoldsItsPlayers, Held
  <2>1. /\ p \in ToSet(squad[m]) /\ Len(squad[m]) = PlayersPerMatch /\ squad[m] \in Seq(Players)
    BY DEF SettledInv, OneSquadInv, MembersInv, LobbyInv, Squads, MatchmakingTypeOK
  <2>2. PICK k \in 1..PlayersPerMatch : p = squad[m][k]
    BY <2>1 DEF ToSet
  <2>3. Passed(m, k)
    BY DEF Passed
  <2> QED
    BY <2>2, <2>3 DEF SettledInv, Left
<1> QED
  BY <1>1, <1>2, StepsKeepSettled, PTL DEF Spec
=============================================================================
