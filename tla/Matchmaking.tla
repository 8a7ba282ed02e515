---------------------------- MODULE Matchmaking ----------------------------
(***************************************************************************)
(* How a logged-in player gets into a room and out of it again:            *)
(* server/internal/lobby (Matchmaker), server/internal/session (Session),  *)
(* server/internal/router (Join, Leave) and the handlers and goroutines of *)
(* server/cmd/gameserver that use them.                                    *)
(*                                                                         *)
(* Each connection has a reader goroutine that handles one message at a    *)
(* time; each match has a createMatch goroutine.  A step is one critical   *)
(* section or one call: what another goroutine does between a look at      *)
(* Session.State and the use of it is an interleaving of this module.      *)
(* A Room is reduced to what RoomProofs shows of it: it answers a join and *)
(* a leave in one step, or closes.  Rewards and rematches are left out: a  *)
(* session that has entered a room stays in state in_room.                 *)
(***************************************************************************)
EXTENDS Integers, Sequences, FiniteSets, SequencesExt

CONSTANTS Players,         \* one session and one connection each
          Cancellers,      \* bound: the players whose client sends MatchCancel
          PlayersPerMatch, \* of the Matchmaker, and Capacity of a room
          MaxMatches       \* bound: matches formed

ASSUME MatchmakingAssumption ==
    /\ IsFiniteSet(Players) /\ Cancellers \subseteq Players
    /\ PlayersPerMatch \in Nat \ {0}
    /\ MaxMatches \in Nat

Matches == 1..MaxMatches

VARIABLES sess,    \* Session.state
          bound,   \* Session.roomID, 0 for none
          conn,    \* open; closing: IsClosed; closed: disconnected() has run
          handler, \* what the reader goroutine is in the middle of
          queue,   \* Matchmaker.waiting
          waiting, \* gameApplication.waiting
          squad,   \* players of each match that was formed
          pc,      \* its createMatch goroutine
          turn,    \* index in squad of the player createMatch is at
          room,    \* the room of each match
          members, \* the sessions that room has joined
          leaving, \* leaveRoom goroutines, as <<player, match>>
          unheard  \* history: the players that could not be told of a failure

sessionVars == <<sess, bound, conn, handler>>
lobbyVars   == <<queue, waiting>>
matchVars   == <<squad, pc, turn>>
roomVars    == <<room, members>>
vars        == <<sessionVars, lobbyVars, matchVars, roomVars, leaving, unheard>>

Init ==
    /\ sess = [p \in Players |-> "lobby"] /\ bound = [p \in Players |-> 0]
    /\ conn = [p \in Players |-> "open"] /\ handler = [p \in Players |-> "idle"]
    /\ queue = <<>> /\ waiting = {}
    /\ squad = [m \in Matches |-> <<>>] /\ pc = [m \in Matches |-> "none"]
    /\ turn = [m \in Matches |-> 1]
    /\ room = [m \in Matches |-> "none"] /\ members = [m \in Matches |-> {}]
    /\ leaving = {} /\ unheard = {}

\* canTransition, between the states of this module.
CanTransition(from, to) ==
    \/ to = "disconnected"
    \/ to = "lobby" /\ from = "matching"
    \/ to = "matching" /\ from = "lobby"
    \/ to = "in_room" /\ from \in {"matching", "disconnected"}

\* Transition does nothing where it is not legal.
Transition(p, to) ==
    sess' = IF CanTransition(sess[p], to) THEN [sess EXCEPT ![p] = to] ELSE sess

-----------------------------------------------------------------------------
(* Messages, handled by the connection's reader *)

Formed == {m \in Matches : pc[m] # "none"}

\* Every request under way may form a match: the bound leaves room for it.
RoomForMatches ==
    Cardinality(Formed) + Cardinality({p \in Players : handler[p] = "enqueue"}) < MaxMatches

\* Mutant: a player that is matching already is queued once more.
MayRequest_Matching(p) == sess[p] \in {"lobby", "matching"}

\* In state matching the request does nothing; in a room it asks for a rematch.
MayRequest(p) == sess[p] = "lobby"

\* handleMatchRequest up to a.mu.
MatchRequest(p) ==
    /\ conn[p] # "closed" /\ handler[p] = "idle"
    /\ MayRequest(p)
    /\ RoomForMatches
    /\ sess' = [sess EXCEPT ![p] = "matching"]
    /\ handler' = [handler EXCEPT ![p] = "enqueue"]
    /\ unheard' = unheard \ {p}
    /\ UNCHANGED <<bound, conn, lobbyVars, matchVars, roomVars, leaving>>

SquadIsShort(q) == Len(q) < PlayersPerMatch

\* The squad that Enqueue takes out of the queue, and what it leaves there.
Oldest(q) == SubSeq(q, 1, PlayersPerMatch)
Younger(q) == SubSeq(q, PlayersPerMatch + 1, Len(q))

\* handleMatchRequest under a.mu.  Its two error returns (already queued,
\* participant disappeared) cannot be taken: see QueueMatchesWaiting.
Enqueue(p) ==
    LET q == Append(queue, p)
        m == Cardinality(Formed) + 1
    IN  /\ handler[p] = "enqueue"
        /\ p \notin waiting
        /\ \/ /\ SquadIsShort(q)
              /\ queue' = q /\ waiting' = waiting \cup {p}
              /\ UNCHANGED matchVars
           \/ /\ ~SquadIsShort(q)
              /\ queue' = Younger(q)
              /\ waiting' = (waiting \cup {p}) \ ToSet(Oldest(q))
              /\ squad' = [squad EXCEPT ![m] = Oldest(q)]
              /\ pc' = [pc EXCEPT ![m] = "create"]
              /\ UNCHANGED turn
        /\ handler' = [handler EXCEPT ![p] = "idle"]
        /\ UNCHANGED <<sess, bound, conn, roomVars, leaving, unheard>>

\* handleMatchCancel up to a.mu.
CancelRequest(p) ==
    /\ p \in Cancellers
    /\ conn[p] # "closed" /\ handler[p] = "idle"
    /\ sess[p] = "matching"
    /\ handler' = [handler EXCEPT ![p] = "cancel"]
    /\ UNCHANGED <<sess, bound, conn, lobbyVars, matchVars, roomVars, leaving, unheard>>

\* Mutant: only the matcher forgets the player.
StillWaiting_Kept(p) == waiting

StillWaiting(p) == waiting \ {p}

\* Matchmaker.Cancel: the queue without the player's element.
Dequeued(p) ==
    LET place == CHOOSE k \in DOMAIN queue : queue[k] = p
    IN  IF p \in ToSet(queue) THEN RemoveAt(queue, place) ELSE queue

\* handleMatchCancel under a.mu, whether or not the player is still queued.
CancelMatch(p) ==
    /\ handler[p] = "cancel"
    /\ queue' = Dequeued(p) /\ waiting' = StillWaiting(p)
    /\ Transition(p, "lobby")
    /\ handler' = [handler EXCEPT ![p] = "idle"]
    /\ UNCHANGED <<bound, conn, matchVars, roomVars, leaving, unheard>>

-----------------------------------------------------------------------------
(* The end of a connection *)

\* The peer hangs up, or the server refuses one of its messages.
Hangup(p) ==
    /\ conn[p] = "open"
    /\ conn' = [conn EXCEPT ![p] = "closing"]
    /\ UNCHANGED <<sess, bound, handler, lobbyVars, matchVars, roomVars, leaving, unheard>>

\* A room is taken out of gameApplication.rooms as it closes: the moment that
\* its close watcher needs for it makes no difference to a session that is gone.
LeaveTask(p) ==
    IF bound[p] # 0 /\ room[bound[p]] = "open" THEN {<<p, bound[p]>>} ELSE {}

\* disconnected(): the room to leave is the one the session is bound to now.
Disconnected(p) ==
    /\ conn' = [conn EXCEPT ![p] = "closed"]
    /\ queue' = Dequeued(p) /\ waiting' = waiting \ {p}
    /\ Transition(p, "disconnected")
    /\ leaving' = leaving \cup LeaveTask(p)

\* run calls it when the reader has ended.
Disconnect(p) ==
    /\ conn[p] = "closing" /\ handler[p] = "idle"
    /\ Disconnected(p)
    /\ UNCHANGED <<bound, handler, matchVars, roomVars, unheard>>

\* router.Leave, retried by leaveRoom until the room takes it or is closed.
LeaveRoom(p, m) ==
    /\ <<p, m>> \in leaving
    /\ leaving' = leaving \ {<<p, m>>}
    /\ bound' = [bound EXCEPT ![p] = 0]
    /\ members' = [members EXCEPT ![m] = @ \ {p}]
    /\ UNCHANGED <<sess, conn, handler, lobbyVars, matchVars, room, unheard>>

\* A room closes: idle, congested or with the server.
RoomCloses(m) ==
    /\ room[m] = "open"
    /\ room' = [room EXCEPT ![m] = "closed"] /\ members' = [members EXCEPT ![m] = {}]
    /\ UNCHANGED <<sessionVars, lobbyVars, matchVars, leaving, unheard>>

-----------------------------------------------------------------------------
(* createMatch *)

Current(m) == squad[m][turn[m]]

Goto(m, next) == pc' = [pc EXCEPT ![m] = next]

NextPlayer(m, next, last) ==
    IF turn[m] < Len(squad[m])
    THEN Goto(m, next) /\ turn' = [turn EXCEPT ![m] = @ + 1]
    ELSE Goto(m, last) /\ turn' = [turn EXCEPT ![m] = 1]

\* newActiveRoom may fail.
CreateRoom(m) ==
    /\ pc[m] = "create"
    /\ \/ room' = [room EXCEPT ![m] = "open"] /\ Goto(m, "check")
       \/ Goto(m, "fail") /\ UNCHANGED room
    /\ UNCHANGED <<sessionVars, lobbyVars, squad, turn, members, leaving, unheard>>

CheckState(m) ==
    /\ pc[m] = "check"
    /\ Goto(m, IF sess[Current(m)] = "matching" THEN "join" ELSE "fail")
    /\ UNCHANGED <<sessionVars, lobbyVars, squad, turn, roomVars, leaving, unheard>>

\* router.Join: the room's receipt.
JoinRoom(m) ==
    /\ pc[m] = "join"
    /\ \/ /\ room[m] = "open"
          /\ members' = [members EXCEPT ![m] = @ \cup {Current(m)}]
          /\ Goto(m, "bind")
       \/ /\ room[m] = "closed"
          /\ Goto(m, "fail")
          /\ UNCHANGED members
    /\ UNCHANGED <<sessionVars, lobbyVars, squad, turn, room, leaving, unheard>>

\* router.Join: BindRoom.
BindRoom(m) ==
    /\ pc[m] = "bind"
    /\ bound' = [bound EXCEPT ![Current(m)] = m]
    /\ Goto(m, "enter")
    /\ UNCHANGED <<sess, conn, handler, lobbyVars, squad, turn, roomVars, leaving, unheard>>

\* router.Join: Transition, whose result nobody looks at.
EnterRoom(m) ==
    /\ pc[m] = "enter"
    /\ Transition(Current(m), "in_room")
    /\ Goto(m, "alive")
    /\ UNCHANGED <<bound, conn, handler, lobbyVars, squad, turn, roomVars, leaving, unheard>>

\* Mutant: nobody looks at the connection once the player is in.
Lost_Unchecked(p) == FALSE

Lost(p) == conn[p] # "open"

CheckConnection(m) ==
    /\ pc[m] = "alive"
    /\ \/ Lost(Current(m)) /\ Goto(m, "fail") /\ UNCHANGED turn
       \/ ~Lost(Current(m)) /\ NextPlayer(m, "check", "start")
    /\ UNCHANGED <<sessionVars, lobbyVars, squad, roomVars, leaving, unheard>>

\* startOpeningStage: the World starts a stage for at least one player.
OpenStage(m) ==
    /\ pc[m] = "start"
    /\ Goto(m, IF room[m] = "open" /\ members[m] # {} THEN "announce" ELSE "fail")
    /\ UNCHANGED <<sessionVars, lobbyVars, squad, turn, roomVars, leaving, unheard>>

\* MatchFound; a connection that cannot take it is closed.
Announce(m) ==
    LET p == Current(m)
    IN  /\ pc[m] = "announce"
        /\ IF conn[p] = "closing" THEN Disconnected(p)
           ELSE UNCHANGED <<conn, lobbyVars, sess, leaving>>
        /\ NextPlayer(m, "announce", "done")
        /\ UNCHANGED <<bound, handler, squad, roomVars, unheard>>

\* Mutant: only the players that have joined are told.
Told_Joined(m) == {squad[m][k] : k \in 1..turn[m]}

Told(m) == ToSet(squad[m])

\* sendDisconnect: its Send refuses the frame when the reliable queue is full,
\* and then the connection is not closed either.
SendDisconnect(players, refused) ==
    conn' = [p \in Players |-> IF p \in players \ refused /\ conn[p] = "open"
                               THEN "closing" ELSE conn[p]]

\* failMatch: every player is sent a Disconnect; nobody looks at the error of
\* one that could not be sent.
FailMatch(m) ==
    /\ pc[m] = "fail"
    /\ \E refused \in SUBSET {p \in Told(m) : conn[p] = "open"} :
          /\ SendDisconnect(Told(m), refused)
          /\ unheard' = unheard \cup refused
    /\ Goto(m, "close")
    /\ UNCHANGED <<sess, bound, handler, lobbyVars, squad, turn, roomVars, leaving>>

\* Close of the room, unless there is none.
CloseRoom(m) ==
    /\ pc[m] = "close"
    /\ room' = [room EXCEPT ![m] = IF @ = "open" THEN "closed" ELSE @]
    /\ members' = [members EXCEPT ![m] = {}]
    /\ Goto(m, "done")
    /\ UNCHANGED <<sessionVars, lobbyVars, squad, turn, leaving, unheard>>

CreateMatch(m) ==
    \/ CreateRoom(m) \/ CheckState(m) \/ JoinRoom(m) \/ BindRoom(m) \/ EnterRoom(m)
    \/ CheckConnection(m) \/ OpenStage(m) \/ Announce(m) \/ FailMatch(m) \/ CloseRoom(m)

Next ==
    \/ \E p \in Players : MatchRequest(p) \/ Enqueue(p) \/ CancelRequest(p) \/ CancelMatch(p)
    \/ \E p \in Players : Hangup(p) \/ Disconnect(p)
    \/ \E p \in Players, m \in Matches : LeaveRoom(p, m)
    \/ \E m \in Matches : RoomCloses(m) \/ CreateMatch(m)

Spec == Init /\ [][Next]_vars

-----------------------------------------------------------------------------
(* Properties *)

\* Types; the matcher never holds a whole squad.
MatchmakingTypeOK ==
    /\ sess \in [Players -> {"lobby", "matching", "in_room", "disconnected"}]
    /\ bound \in [Players -> 0..MaxMatches]
    /\ conn \in [Players -> {"open", "closing", "closed"}]
    /\ handler \in [Players -> {"idle", "enqueue", "cancel"}]
    /\ queue \in Seq(Players) /\ Len(queue) < PlayersPerMatch
    /\ waiting \in SUBSET Players
    /\ squad \in [Matches -> Seq(Players)]
    /\ pc \in [Matches -> {"none", "create", "check", "join", "bind", "enter", "alive",
                           "start", "announce", "fail", "close", "done"}]
    /\ turn \in [Matches -> 1..PlayersPerMatch]
    /\ room \in [Matches -> {"none", "open", "closed"}]
    /\ members \in [Matches -> SUBSET Players]
    /\ leaving \in SUBSET (Players \X Matches) /\ unheard \in SUBSET Players

\* The matcher's queue and the application's waiting table hold the same
\* players, each once, and never one that is about to be queued: no request is
\* refused as already queued, and no matched participant has disappeared.
QueueMatchesWaiting ==
    /\ ToSet(queue) = waiting /\ Len(queue) = Cardinality(waiting)
    /\ \A p \in waiting : handler[p] # "enqueue"

\* A match that still has to look at its player p.
InHands(p) == \E m \in Formed : p \in ToSet(squad[m]) /\ pc[m] \notin {"close", "done"}

\* Nobody is forgotten in state matching, unless by a full queue: with its
\* connection alive a player is in the queue, in the hands of a createMatch or of
\* its own reader, or its reliable queue was full when its match failed.  That
\* one nobody tells, closes or matches, until it cancels or hangs up, where
\* server.go:176 would have a connection that cannot keep up disconnected.
NobodyForgotten ==
    \A p \in Players : (sess[p] = "matching" /\ conn[p] = "open" /\ handler[p] = "idle")
                           => p \in waiting \/ InHands(p) \/ p \in unheard

\* The players whose client never cancels: what a cancel may do to the others
\* is the subject of JoinedSessionIsInRoom.
Steady == Players \ Cancellers

\* A player belongs to one room at a time.
PlayerInOneRoom ==
    \A p \in Steady : \A m, n \in Matches : p \in members[m] \cap members[n] => m = n

\* What a match leaves behind, also after a failure half-way: each member of its
\* room is bound to it, in state in_room and connected, or a goroutine is on its
\* way to make it leave, however the end of its connection fell in between.
SettledRoomHoldsItsPlayers ==
    \A m \in Matches : pc[m] = "done" =>
        \A p \in members[m] \cap Steady :
            \/ <<p, m>> \in leaving
            \/ bound[p] = m /\ sess[p] = "in_room" /\ conn[p] # "closed"

\* router.go: once the room confirmed the join, the session is bound and
\* switched to InRoom ("房间确认成功后，再绑定 roomID 并切换到 InRoom").
JoinedSessionIsInRoom ==
    \A m \in Matches : pc[m] = "alive" => sess[Current(m)] \in {"in_room", "disconnected"}
=============================================================================
