-------------------------------- MODULE Rematch --------------------------------
(***************************************************************************)
(* A team that has finished a match moves to a new room:                   *)
(* handleRematchRequest, the createRematch goroutine, the deferred sinks   *)
(* that hold a new room's events back until MatchFound has been sent       *)
(* (server/cmd/gameserver), the event dispatchers and close watchers of    *)
(* the rooms (server/internal/router), and connections that end meanwhile. *)
(*                                                                         *)
(* A step is one critical section of a.mu or of a sink, one call of a      *)
(* room, or one message handed over.  Room 1 is the one createMatch made;  *)
(* room n > 1 is made by the n-th createRematch.  Of a room's events only  *)
(* their order matters: the first is StageStarted, the last the end of the *)
(* match (TeamDefeated, or StageCleared with activeRoom.completed, which   *)
(* only delays the first request that is heard).                           *)
(***************************************************************************)
EXTENDS Integers, Sequences, FiniteSets

CONSTANTS Players,     \* the team: one connection and one session each
          MaxRooms,    \* bound: rooms made
          MaxEvents,   \* bound: events of a match, its end included
          Emits,       \* bound: how many of them each room emits
          Leavers,     \* bound: players whose peer may hang up or be slow
          MaxDeferred  \* maxDeferredEvents

ASSUME RematchAssumption ==
    /\ IsFiniteSet(Players) /\ Leavers \subseteq Players
    /\ MaxRooms \in Nat \ {0} /\ MaxEvents \in Nat \ {0, 1} /\ MaxDeferred \in Nat
    /\ Emits \in [1..MaxRooms -> 1..MaxEvents]

AllRooms == 1..MaxRooms

VARIABLES conn,       \* open; doomed: open, with a `go Close()` on its way;
                      \* closing: IsClosed; gone: disconnected() has run
          bound,      \* Session.roomID, 0 for none
          leaving,    \* leaveRoom and leaveFormerRoom goroutines
          phase,      \* the stage of each room: none, waiting, playing, ended, closed
          members,    \* Room.members
          emitted,    \* number of events each room has emitted
          channel,    \* Room.Events
          cancelled,  \* rooms whose Close was called
          rooms,      \* gameApplication.rooms
          rematching, \* rooms whose activeRoom.rematching is set
          sinks,      \* EventDispatcher.sinks
          released,   \* deferredEventSink.released
          pending,    \* deferredEventSink.pending
          builder,    \* the createRematch goroutine that makes each room
          former,     \* its oldID
          todo,       \* the players its current loop has not come to
          heard       \* history: what each connection was sent

playerVars == <<conn, bound, leaving>>
roomVars   == <<phase, members, emitted, channel, cancelled>>
sinkVars   == <<sinks, released, pending>>
buildVars  == <<builder, former, todo>>
vars       == <<playerVars, roomVars, sinkVars, buildVars, rooms, rematching, heard>>

\* The match in room 1 is about to end: its players have had all events but the
\* last.  MatchFound is number 0 of a room's messages, its events follow.
Message(r, k) == [room |-> r, nth |-> k]

First(r, one, other) == IF r = 1 THEN one ELSE other

Init ==
    /\ conn = [p \in Players |-> "open"] /\ bound = [p \in Players |-> 1] /\ leaving = {}
    /\ phase = [r \in AllRooms |-> First(r, "playing", "none")]
    /\ members = [r \in AllRooms |-> First(r, Players, {})]
    /\ emitted = [r \in AllRooms |-> First(r, MaxEvents - 1, 0)]
    /\ channel = [r \in AllRooms |-> <<>>]
    /\ cancelled = {} /\ rooms = {1} /\ rematching = {}
    /\ sinks = [r \in AllRooms |-> First(r, Players, {})]
    /\ released = [r \in AllRooms |-> First(r, Players, {})]
    /\ pending = [r \in AllRooms |-> [p \in Players |-> <<>>]]
    /\ builder = [r \in AllRooms |-> First(r, "done", "none")]
    /\ former = [r \in AllRooms |-> 0] /\ todo = [r \in AllRooms |-> {}]
    /\ heard = [p \in Players |-> [k \in 1..MaxEvents |-> Message(1, k - 1)]]

-----------------------------------------------------------------------------
(* The rooms *)

Alive(r) == phase[r] \in {"waiting", "playing", "ended"}

\* A fight outlasts what is left to do of the rematch that led to it.
Announced(r) == builder[r] = "done"

\* The events of a match; the last one is its end.
Emit(r) ==
    /\ phase[r] = "playing" /\ emitted[r] < Emits[r]
    /\ emitted[r] + 1 = MaxEvents => Announced(r)
    /\ emitted' = [emitted EXCEPT ![r] = @ + 1]
    /\ channel' = [channel EXCEPT ![r] = Append(@, emitted[r] + 1)]
    /\ phase' = [phase EXCEPT ![r] = IF emitted[r] + 1 = MaxEvents THEN "ended" ELSE @]
    /\ UNCHANGED <<playerVars, members, cancelled, sinkVars, buildVars, rooms, rematching, heard>>

Close(r) ==
    /\ Alive(r)
    /\ phase' = [phase EXCEPT ![r] = "closed"] /\ members' = [members EXCEPT ![r] = {}]
    /\ UNCHANGED <<playerVars, emitted, channel, cancelled, sinkVars, buildVars, rooms, rematching,
                   heard>>

\* The room goroutine finishes: it was told to, or it has been empty.
CloseUnused(r) == (r \in cancelled \/ members[r] = {}) /\ Close(r)

\* The dispatcher is behind with the events.
CloseCongested(r) == channel[r] # <<>> /\ Close(r)

\* CloseWatcher.Run and its callback.  The client may hang up on the Disconnect
\* it sends, as it may at any other time.
CloseWatcherRun(r) ==
    /\ phase[r] = "closed" /\ r \in rooms
    /\ rooms' = rooms \ {r}
    /\ UNCHANGED <<playerVars, roomVars, sinkVars, buildVars, rematching, heard>>

-----------------------------------------------------------------------------
(* Reliable messages *)

\* IsClosed is false.
Open(p) == conn[p] \in {"open", "doomed"}

\* closingSink.Send: what a closing connection does not take is lost with it.
Sent(p, messages) == IF Open(p) THEN heard[p] \o messages ELSE heard[p]

\* `go Close()` for the players a message was dropped for.  Until that goroutine
\* runs the connection is open like any other.
GoClose(dropped) ==
    conn' = [p \in Players |-> IF p \in dropped /\ conn[p] = "open" THEN "doomed" ELSE conn[p]]

Overflows(r, p) == p \notin released[r] /\ Len(pending[r][p]) = MaxDeferred

\* EventDispatcher.Dispatch of one event: each sink passes it on, keeps it, or
\* drops it and has the connection closed, when the reliable queue is full
\* (`refused`) or when it can keep no more.
Dispatch(r) ==
    LET e       == Message(r, Head(channel[r]))
        through == sinks[r] \cap released[r]
        full    == {p \in sinks[r] : Overflows(r, p)}
    IN  /\ channel[r] # <<>>
        /\ channel' = [channel EXCEPT ![r] = Tail(@)]
        /\ \E refused \in SUBSET (through \cap Leavers) :
              /\ heard' = [p \in Players |-> IF p \in through \ refused THEN Sent(p, <<e>>)
                                             ELSE heard[p]]
              /\ GoClose(refused \cup full)
        /\ pending' = [pending EXCEPT ![r] =
               [p \in Players |-> IF p \in sinks[r] \ released[r] /\ ~Overflows(r, p)
                                  THEN Append(@[p], e) ELSE @[p]]]
        /\ UNCHANGED <<bound, leaving, phase, members, emitted, cancelled, sinks, released,
                       buildVars, rooms, rematching>>

-----------------------------------------------------------------------------
(* The end of a connection *)

\* The peer hangs up, or the server refuses one of its messages.
Hangup(p) ==
    /\ p \in Leavers /\ conn[p] = "open"
    /\ conn' = [conn EXCEPT ![p] = "closing"]
    /\ UNCHANGED <<bound, leaving, roomVars, sinkVars, buildVars, rooms, rematching, heard>>

\* The goroutine of `go Close()`; the peer may have hung up before it.
CloseConnection(p) ==
    /\ conn[p] = "doomed"
    /\ conn' = [conn EXCEPT ![p] = "closing"]
    /\ UNCHANGED <<bound, leaving, roomVars, sinkVars, buildVars, rooms, rematching, heard>>

\* disconnected(): the room to leave is the one the session is bound to now.
Disconnected(p) ==
    LET r == bound[p]
    IN  /\ conn[p] = "closing"
        /\ conn' = [conn EXCEPT ![p] = "gone"]
        /\ \/ /\ r \in rooms
              /\ sinks' = [sinks EXCEPT ![r] = @ \ {p}]
              /\ leaving' = leaving \cup {[player |-> p, room |-> r, call |-> "leaveRoom"]}
           \/ r \notin rooms /\ UNCHANGED <<sinks, leaving>>
        /\ UNCHANGED <<bound, roomVars, released, pending, buildVars, rooms, rematching,
                       heard>>

\* Mutant: the former room is left as any other, with the binding cleared.
Unbinds_Always(t) == TRUE

\* router.Leave clears the binding as soon as the command is queued;
\* leaveFormerRoom must not: the session is bound to the new room by then.
Unbinds(t) == t.call = "leaveRoom"

QueueLeave(t) ==
    /\ t \in leaving /\ t.call # "queued"
    /\ leaving' = (leaving \ {t}) \cup {[t EXCEPT !.call = "queued"]}
    /\ bound' = IF Unbinds(t) THEN [bound EXCEPT ![t.player] = 0] ELSE bound
    /\ UNCHANGED <<conn, roomVars, sinkVars, buildVars, rooms, rematching, heard>>

\* The receipt; a closed room has nobody in it.
ApplyLeave(t) ==
    /\ t \in leaving /\ t.call = "queued"
    /\ leaving' = leaving \ {t}
    /\ members' = [members EXCEPT ![t.room] = @ \ {t.player}]
    /\ UNCHANGED <<conn, bound, phase, emitted, channel, cancelled, sinkVars, buildVars,
                   rooms, rematching, heard>>

LeaveRoom(p, r) == \E t \in leaving : t.player = p /\ t.room = r /\ (QueueLeave(t) \/ ApplyLeave(t))

-----------------------------------------------------------------------------
(* handleRematchRequest and createRematch *)

Made == {r \in AllRooms : builder[r] # "none"}

Team(r) == {q \in Players : Open(q) /\ bound[q] = r}

\* Mutant: the flag is not looked at.
MayRematch_Always(r) == r \in rooms

MayRematch(r) == r \in rooms /\ r \notin rematching

\* Under a.mu; a request that changes nothing is no step.
HandleRematchRequest(p) ==
    LET r == bound[p]
        n == Cardinality(Made) + 1
    IN  /\ conn[p] # "gone" /\ r # 0 /\ MayRematch(r)
        /\ phase[r] = "ended" /\ Team(r) = Players
        /\ n <= MaxRooms
        /\ rematching' = rematching \cup {r}
        /\ builder' = [builder EXCEPT ![n] = "create"] /\ former' = [former EXCEPT ![n] = r]
        /\ UNCHANGED <<playerVars, roomVars, sinkVars, todo, rooms, heard>>

Goto(n, next) == builder' = [builder EXCEPT ![n] = next]

\* The end of a loop over the players, or its next turn.
Enters(n, next) == Goto(n, next) /\ todo' = [todo EXCEPT ![n] = Players]

Turn(n, p, next) ==
    IF todo[n] = {p} THEN Enters(n, next)
    ELSE todo' = [todo EXCEPT ![n] = @ \ {p}] /\ UNCHANGED builder

\* The deferred function that lets another request through.
Cleared(r) == rematching \ {r}

\* newActiveRoom may fail, and leaves nothing to close.  (The number is free
\* again then: the next attempt takes it.)
CreateRoom(n) ==
    /\ builder[n] = "create"
    /\ \/ /\ Enters(n, "join")
          /\ phase' = [phase EXCEPT ![n] = "waiting"] /\ rooms' = rooms \cup {n}
          /\ UNCHANGED rematching
       \/ /\ Goto(n, "none")
          /\ rematching' = Cleared(former[n])
          /\ UNCHANGED <<todo, phase, rooms>>
    /\ UNCHANGED <<playerVars, members, emitted, channel, cancelled, sinkVars, former, heard>>

JoinRoom(n, p) ==
    /\ builder[n] = "join" /\ p \in todo[n]
    /\ \/ /\ Alive(n)
          /\ members' = [members EXCEPT ![n] = @ \cup {p}]
          /\ Turn(n, p, "subscribe")
       \/ ~Alive(n) /\ Goto(n, "fail") /\ UNCHANGED <<members, todo>>
    /\ UNCHANGED <<playerVars, phase, emitted, channel, cancelled, sinkVars, former, rooms,
                   rematching, heard>>

\* Mutant: the events go straight to the connection.
Deferred_Not(n) == released' = [released EXCEPT ![n] = Players]

Deferred(n) == UNCHANGED released

Subscribe(n) ==
    /\ builder[n] = "subscribe"
    /\ sinks' = [sinks EXCEPT ![n] = Players]
    /\ Deferred(n)
    /\ Goto(n, "start")
    /\ UNCHANGED <<playerVars, roomVars, pending, former, todo, rooms, rematching, heard>>

\* startOpeningStage.
StartStage(n) ==
    /\ builder[n] = "start"
    /\ \/ /\ Alive(n) /\ members[n] # {}
          /\ phase' = [phase EXCEPT ![n] = "playing"]
          /\ emitted' = [emitted EXCEPT ![n] = 1]
          /\ channel' = [channel EXCEPT ![n] = <<1>>]
          /\ Goto(n, "commit")
       \/ ~(Alive(n) /\ members[n] # {}) /\ Goto(n, "fail") /\ UNCHANGED <<phase, emitted, channel>>
    /\ UNCHANGED <<playerVars, members, cancelled, sinkVars, former, todo, rooms, rematching, heard>>

\* The connection is registered and open, the session in the former room.
StillThere(p, old) == Open(p) /\ bound[p] = old

\* The move, under a.mu: both players or nobody.
Commit(n) ==
    LET old == former[n]
        ok  == {old, n} \subseteq rooms /\ \A p \in Players : StillThere(p, old)
    IN  /\ builder[n] = "commit"
        /\ \/ /\ ok
              /\ sinks' = [sinks EXCEPT ![old] = {}]
              /\ bound' = [p \in Players |-> n]
              /\ Enters(n, "announce")
           \/ ~ok /\ Goto(n, "fail") /\ UNCHANGED <<sinks, bound, todo>>
        /\ UNCHANGED <<conn, leaving, roomVars, released, pending, former, rooms,
                       rematching, heard>>

\* MatchFound; a connection that does not take it is closed there and then, not
\* by a goroutine.
Announce(n, p) ==
    /\ builder[n] = "announce" /\ p \in todo[n]
    /\ \/ heard' = [heard EXCEPT ![p] = Sent(p, <<Message(n, 0)>>)] /\ UNCHANGED conn
       \/ /\ p \in Leavers /\ Open(p)
          /\ conn' = [conn EXCEPT ![p] = "closing"]
          /\ UNCHANGED heard
    /\ Turn(n, p, "release")
    /\ UNCHANGED <<bound, leaving, roomVars, sinkVars, former, rooms, rematching>>

\* deferredEventSink.Release: what comes after a frame that is refused is lost.
Release(n, p) ==
    /\ builder[n] = "release" /\ p \in todo[n]
    /\ \E k \in 0..Len(pending[n][p]) :
          LET all == k = Len(pending[n][p])
          IN  /\ all \/ p \in Leavers
              /\ heard' = [heard EXCEPT ![p] = Sent(p, SubSeq(pending[n][p], 1, k))]
              /\ GoClose(IF all THEN {} ELSE {p})
    /\ pending' = [pending EXCEPT ![n][p] = <<>>]
    /\ released' = [released EXCEPT ![n] = @ \cup {p}]
    /\ Turn(n, p, "leave")
    /\ UNCHANGED <<bound, leaving, roomVars, sinks, former, rooms, rematching>>

LeaveFormer(n) ==
    /\ builder[n] = "leave"
    /\ leaving' = leaving \cup
           {[player |-> p, room |-> former[n], call |-> "leaveFormerRoom"] : p \in Players}
    /\ Goto(n, "done")
    /\ UNCHANGED <<conn, bound, roomVars, sinkVars, former, todo, rooms, rematching, heard>>

\* Mutant: the new room is left open.
Closing_None(n) == {}

Closing(n) == {n}

\* The deferred functions of a rematch that has not succeeded: the new room is
\* closed, then another request is let through.
Fail(n) ==
    /\ builder[n] = "fail"
    /\ cancelled' = cancelled \cup Closing(n)
    /\ Goto(n, "reset")
    /\ UNCHANGED <<playerVars, phase, members, emitted, channel, sinkVars, former, todo, rooms,
                   rematching, heard>>

Reset(n) ==
    /\ builder[n] = "reset"
    /\ rematching' = Cleared(former[n])
    /\ Goto(n, "done")
    /\ UNCHANGED <<playerVars, roomVars, sinkVars, former, todo, rooms, heard>>

CreateRematch(n) ==
    \/ CreateRoom(n) \/ Subscribe(n) \/ StartStage(n) \/ Commit(n) \/ LeaveFormer(n)
    \/ Fail(n) \/ Reset(n)
    \/ \E p \in Players : JoinRoom(n, p) \/ Announce(n, p) \/ Release(n, p)

Next ==
    \/ \E r \in AllRooms : \/ Emit(r) \/ CloseUnused(r) \/ CloseCongested(r) \/ CloseWatcherRun(r)
                           \/ Dispatch(r) \/ CreateRematch(r)
    \/ \E p \in Players : \/ Hangup(p) \/ CloseConnection(p) \/ Disconnected(p)
                          \/ HandleRematchRequest(p)
    \/ \E p \in Players, r \in AllRooms : LeaveRoom(p, r)

Spec == Init /\ [][Next]_vars

\* Goroutines run to their end, and an unused room closes.
FairSpec ==
    /\ Spec
    /\ \A r \in AllRooms : /\ WF_vars(CreateRematch(r)) /\ WF_vars(CloseUnused(r))
                           /\ \A p \in Players : WF_vars(LeaveRoom(p, r))

-----------------------------------------------------------------------------
(* Properties *)

\* What may come after m on a connection: a later event of the same room, or
\* the MatchFound of a later one.
Later(e, m) ==
    \/ e.room = m.room /\ e.nth > m.nth
    \/ e.room > m.room /\ e.nth = 0

\* What may come right after m: the next event, with nothing missing.
Follows(e, m) == Later(e, m) /\ (e.room = m.room => e.nth = m.nth + 1)

\* A connection that is closed, or is about to be.
Ending(p) == conn[p] # "open"

\* Each connection is sent MatchFound, then events of that room from StageStarted
\* on, in order; nothing of the former room comes after it, whenever the
\* dispatchers and createRematch get to run.  An event may be missing only on a
\* connection whose close is on its way: none goes on as if nothing was lost.
MatchFoundFirst ==
    \A p \in Players : \A k \in 2..Len(heard[p]) :
        /\ Later(heard[p][k], heard[p][k - 1])
        /\ Follows(heard[p][k], heard[p][k - 1]) \/ Ending(p)

\* A rematch moves the whole team or nobody, and a session is never left
\* without a room: the departure from the former room cannot undo the binding
\* to the new one.
TeamStaysTogether ==
    \A p \in Players : conn[p] # "gone" =>
        /\ bound[p] # 0
        /\ Alive(bound[p]) => p \in members[bound[p]]
        /\ \A q \in Players : conn[q] # "gone" => bound[q] = bound[p]

\* A finished room whose flag is up is being left: one goroutine is at work on
\* its rematch, or its players have moved, so that no request is turned away
\* for good and no two rooms are made for one.
RematchingIsOwned ==
    \A r \in AllRooms :
        LET workers == {n \in AllRooms : former[n] = r /\ builder[n] \notin {"none", "done"}}
        IN  /\ Cardinality(workers) <= 1
            /\ r \in rematching => workers # {} \/ \A p \in Players : bound[p] # r

\* Players that a room still counts although their connection is gone or their
\* session is bound to another one.
Stray == {p \in Players : \E r \in AllRooms : p \in members[r] /\ (conn[p] = "gone" \/ bound[p] # r)}

\* No player stays in a room it has been moved out of or disconnected from, nor
\* in a new one that comes to nothing.
NobodyStaysBehind == []<>(Stray = {})
=============================================================================
