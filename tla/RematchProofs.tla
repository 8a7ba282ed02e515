---------------------------- MODULE RematchProofs ----------------------------
(***************************************************************************)
(* Proofs about Rematch for every team, every number of rooms and events,  *)
(* and every limit of the deferred sinks.                                  *)
(***************************************************************************)
EXTENDS Rematch, FiniteSetTheorems, SequenceTheorems, TLAPS

\* A createRematch that can still give up, and one that has moved the team.
Moving == {"create", "join", "subscribe", "start", "commit", "fail", "reset"}
Moved  == {"announce", "release", "leave"}

\* Types of the variables that say where everybody is.
PlaceTypeOK ==
    /\ conn \in [Players -> {"open", "doomed", "closing", "gone"}]
    /\ bound \in [Players -> 0..MaxRooms]
    /\ leaving \subseteq [player : Players, room : AllRooms,
                          call : {"leaveRoom", "leaveFormerRoom", "queued"}]
    /\ phase \in [AllRooms -> {"none", "waiting", "playing", "ended", "closed"}]
    /\ members \in [AllRooms -> SUBSET Players]
    /\ emitted \in [AllRooms -> Nat]
    /\ rooms \subseteq AllRooms /\ rematching \subseteq AllRooms
    /\ builder \in [AllRooms -> {"none", "done"} \cup Moving \cup Moved]
    /\ former \in [AllRooms -> 0..MaxRooms]
    /\ todo \in [AllRooms -> SUBSET Players]

\* Rooms are numbered in the order they are made, and one is made at a time:
\* a match ends only once everything about its rematch is done, and the flag
\* keeps its players from asking for two.
OneBuilder ==
    /\ builder[1] = "done"
    /\ \E k \in AllRooms : /\ Made = 1..k
                           /\ \A n \in 1..k : n < k => builder[n] = "done"
    /\ \A r \in AllRooms : phase[r] = "ended" => builder[r] = "done"
    /\ \A r \in rematching : builder[r] = "done"

\* The goroutine that makes room n has the flag of the room the team is in,
\* until it has moved the team to n.
BuilderInv ==
    \A n \in AllRooms :
        /\ builder[n] \in Moving \cup Moved => /\ former[n] \in rematching
                                               /\ former[n] < n
        /\ builder[n] \in Moving => \A p \in Players : bound[p] \in {former[n], 0}
        /\ builder[n] \in Moved  => \A p \in Players : bound[p] \in {n, 0}

\* A flag that nobody works for belongs to a room its team has left.
FlagInv ==
    \A r \in rematching :
        \/ \E n \in AllRooms : former[n] = r /\ builder[n] \in Moving \cup Moved
        \/ \A p \in Players : bound[p] # r

OwnerInv == PlaceTypeOK /\ OneBuilder /\ BuilderInv /\ FlagInv

-----------------------------------------------------------------------------
\* Only the room made last can have somebody at work on it.
LEMMA OnlyTheLast ==
    ASSUME OwnerInv, NEW m \in AllRooms, NEW n \in AllRooms,
           builder[m] \in Moving \cup Moved, builder[n] \in Moving \cup Moved
    PROVE  m = n
<1>1. PICK k \in AllRooms : Made = 1..k /\ \A i \in 1..k : i < k => builder[i] = "done"
  BY DEF OwnerInv, OneBuilder
<1>2. m \in Made /\ n \in Made
  BY DEF Made, Moving, Moved
<1>3. \A i \in 1..k : i < k => builder[i] \notin Moving \cup Moved
  BY <1>1 DEF Moving, Moved
<1>4. m = k /\ n = k
  BY <1>1, <1>2, <1>3 DEF AllRooms
<1> QED
  BY <1>4

\* A request that is granted finds nobody at work.
LEMMA RequestFindsNobody ==
    ASSUME OwnerInv, NEW p \in Players, HandleRematchRequest(p), NEW n \in AllRooms
    PROVE  /\ builder[n] \in {"none", "done"}
           /\ builder[bound[p]] = "done" /\ bound[p] \in AllRooms
<1> DEFINE r == bound[p]
<1>1. /\ r \in rooms /\ r \notin rematching /\ phase[r] = "ended"
      /\ r \in AllRooms /\ r # 0
  BY DEF HandleRematchRequest, MayRematch, OwnerInv, PlaceTypeOK
<1>2. builder[r] = "done"
  BY <1>1 DEF OwnerInv, OneBuilder
<1>3. builder[n] \notin Moving
  BY <1>1 DEF OwnerInv, BuilderInv
<1>4. builder[n] \notin Moved
  BY <1>1, <1>2 DEF OwnerInv, BuilderInv, Moved
<1> QED
  BY <1>1, <1>2, <1>3, <1>4 DEF OwnerInv, PlaceTypeOK

\* The number of the room it is going to make is the next one.
LEMMA RequestTakesTheNext ==
    ASSUME OwnerInv, NEW p \in Players, HandleRematchRequest(p)
    PROVE  \E k \in AllRooms :
              /\ Made = 1..k /\ Cardinality(Made) + 1 = k + 1 /\ k + 1 \in AllRooms
              /\ \A i \in 1..k : builder[i] = "done"
              /\ builder[k + 1] = "none"
<1>1. PICK k \in AllRooms : Made = 1..k /\ \A i \in 1..k : i < k => builder[i] = "done"
  BY DEF OwnerInv, OneBuilder
<1>2. k \in Nat /\ k >= 1
  BY DEF AllRooms
<1>3. Cardinality(Made) = k
  BY <1>1, <1>2, FS_Interval
<1>4. k + 1 \in AllRooms
  BY <1>2, <1>3, RematchAssumption DEF HandleRematchRequest, AllRooms
<1>5. \A i \in 1..k : builder[i] = "done"
  <2> SUFFICES ASSUME NEW i \in 1..k PROVE builder[i] = "done"
    OBVIOUS
  <2>1. i \in Made /\ i \in AllRooms
    BY <1>1, <1>2 DEF Made
  <2> QED
    BY <2>1, RequestFindsNobody DEF Made
<1>6. builder[k + 1] = "none"
  BY <1>1, <1>2, <1>4 DEF Made
<1> QED
  BY <1>1, <1>3, <1>4, <1>5, <1>6

-----------------------------------------------------------------------------
\* What a step may do to the table of builders without disturbing its order.
LEMMA BuilderAdvances ==
    ASSUME OwnerInv, NEW n \in AllRooms, builder[n] \in Moving \cup Moved,
           NEW next \in {"done"} \cup Moving \cup Moved,
           builder' = [builder EXCEPT ![n] = next],
           \A r \in AllRooms : phase'[r] = "ended" => phase[r] = "ended" \/ builder[r] = "done",
           rematching' \subseteq rematching
    PROVE  OneBuilder'
<1>1. PICK k \in AllRooms : Made = 1..k /\ \A i \in 1..k : i < k => builder[i] = "done"
  BY DEF OwnerInv, OneBuilder
<1>2. n # 1
  BY DEF OwnerInv, OneBuilder, Moving, Moved
<1>3. Made' = Made
  BY DEF Made, Moving, Moved, OwnerInv, PlaceTypeOK
<1>4. \A i \in AllRooms : builder[i] = "done" => builder'[i] = "done"
  BY DEF Moving, Moved, OwnerInv, PlaceTypeOK
<1>5. \A i \in 1..k : i < k => builder'[i] = "done"
  BY <1>1, <1>4 DEF AllRooms
<1> QED
  BY <1>1, <1>3, <1>4, <1>5, RematchAssumption DEF OwnerInv, OneBuilder, AllRooms

\* A step that leaves the builders alone.
LEMMA BuildersRest ==
    ASSUME OwnerInv, UNCHANGED <<builder, rematching>>,
           \A r \in AllRooms : phase'[r] = "ended" => phase[r] = "ended" \/ builder[r] = "done"
    PROVE  OneBuilder'
BY DEF OwnerInv, OneBuilder, Made

-----------------------------------------------------------------------------
\* The steps in which the builder that is at work stays in its half of the
\* work, or in which it is not involved at all.
LEMMA OwnerKept ==
    ASSUME OwnerInv, PlaceTypeOK', OneBuilder', UNCHANGED <<rematching, former>>,
           \A p \in Players : bound'[p] \in {bound[p], 0},
           \A n \in AllRooms : /\ builder'[n] \in Moving <=> builder[n] \in Moving
                               /\ builder'[n] \in Moved <=> builder[n] \in Moved
    PROVE  OwnerInv'
<1>1. BuilderInv'
  BY DEF OwnerInv, BuilderInv
<1>2. FlagInv'
  <2> SUFFICES ASSUME NEW r \in rematching'
               PROVE  \/ \E n \in AllRooms : former'[n] = r /\ builder'[n] \in Moving \cup Moved
                      \/ \A p \in Players : bound'[p] # r
    BY DEF FlagInv
  <2>1. r \in rematching /\ r # 0
    BY DEF OwnerInv, PlaceTypeOK, AllRooms
  <2> QED
    BY <2>1 DEF OwnerInv, FlagInv
<1> QED
  BY <1>1, <1>2 DEF OwnerInv

\* The builder of n goes from one call to the next.
Advances(n) ==
    /\ UNCHANGED <<rematching, former, bound>>
    /\ \/ builder[n] \in Moving /\ \E next \in Moving : builder' = [builder EXCEPT ![n] = next]
       \/ builder[n] \in Moved /\ \E next \in Moved : builder' = [builder EXCEPT ![n] = next]
    /\ \A r \in AllRooms : phase'[r] = "ended" => phase[r] = "ended"

\* A builder that goes on without leaving its part of createRematch keeps
\* the flags owned.
LEMMA AdvanceKeepsOwner ==
    ASSUME OwnerInv, PlaceTypeOK', NEW n \in AllRooms, Advances(n)
    PROVE  OwnerInv'
<1>1. PICK next \in Moving \cup Moved :
          /\ builder' = [builder EXCEPT ![n] = next]
          /\ \/ builder[n] \in Moving /\ next \in Moving
             \/ builder[n] \in Moved /\ next \in Moved
  BY DEF Advances, Moving, Moved
<1>2. OneBuilder'
  BY <1>1, BuilderAdvances DEF Advances
<1>3. \A i \in AllRooms : /\ builder'[i] \in Moving <=> builder[i] \in Moving
                          /\ builder'[i] \in Moved <=> builder[i] \in Moved
  BY <1>1 DEF OwnerInv, PlaceTypeOK, Moving, Moved
<1>4. \A p \in Players : bound'[p] \in {bound[p], 0}
  BY DEF Advances
<1> QED
  BY <1>2, <1>3, <1>4, OwnerKept DEF Advances

\* Steps of the rooms, the connections and their departures.
LEMMA OthersKeepOwner ==
    ASSUME OwnerInv, PlaceTypeOK', UNCHANGED <<rematching, former, builder>>,
           \A p \in Players : bound'[p] \in {bound[p], 0},
           \A r \in AllRooms : phase'[r] = "ended" => phase[r] = "ended" \/ builder[r] = "done"
    PROVE  OwnerInv'
<1>1. OneBuilder'
  BY BuildersRest
<1> QED
  BY <1>1, OwnerKept

\* A turn of the loop over the players keeps the types of the builder.
LEMMA TurnTypes ==
    ASSUME PlaceTypeOK, NEW n \in AllRooms, NEW p, NEW next \in Moving \cup Moved,
           Turn(n, p, next)
    PROVE  /\ builder' \in [AllRooms -> {"none", "done"} \cup Moving \cup Moved]
           /\ todo' \in [AllRooms -> SUBSET Players]
           /\ \/ builder' = [builder EXCEPT ![n] = next]
              \/ builder' = builder
BY DEF Turn, Enters, Goto, PlaceTypeOK

-----------------------------------------------------------------------------
\* The first room satisfies the types.
LEMMA TypesAtFirst == Init => PlaceTypeOK
BY RematchAssumption DEF Init, PlaceTypeOK, First, AllRooms, Moving, Moved

\* What a room does by itself keeps the types.
LEMMA RoomStepsKeepTypes ==
    ASSUME PlaceTypeOK, NEW r \in AllRooms,
           \/ Emit(r) \/ CloseUnused(r) \/ CloseCongested(r) \/ CloseWatcherRun(r) \/ Dispatch(r)
    PROVE  PlaceTypeOK'
<1>1. CASE Emit(r)
  BY <1>1 DEF Emit, PlaceTypeOK, playerVars, sinkVars, buildVars
<1>2. CASE CloseUnused(r) \/ CloseCongested(r)
  BY <1>2 DEF CloseUnused, CloseCongested, Close, PlaceTypeOK, playerVars, sinkVars, buildVars
<1>3. CASE CloseWatcherRun(r)
  BY <1>3 DEF CloseWatcherRun, PlaceTypeOK, playerVars, roomVars, sinkVars, buildVars
<1>4. CASE Dispatch(r)
  <2>1. conn' \in [Players -> {"open", "doomed", "closing", "gone"}]
    BY <1>4 DEF Dispatch, GoClose, PlaceTypeOK
  <2> QED
    BY <1>4, <2>1 DEF Dispatch, PlaceTypeOK, buildVars
<1> QED
  BY <1>1, <1>2, <1>3, <1>4

\* What a connection or the leave of a player does keeps the types.
LEMMA PlayerStepsKeepTypes ==
    ASSUME PlaceTypeOK, NEW p \in Players,
           \/ Hangup(p) \/ CloseConnection(p) \/ Disconnected(p)
           \/ \E r \in AllRooms : LeaveRoom(p, r)
    PROVE  PlaceTypeOK'
<1>1. CASE Hangup(p) \/ CloseConnection(p)
  BY <1>1 DEF Hangup, CloseConnection, PlaceTypeOK, roomVars, sinkVars, buildVars
<1>2. CASE Disconnected(p)
  <2>1. leaving' \subseteq [player : Players, room : AllRooms,
                            call : {"leaveRoom", "leaveFormerRoom", "queued"}]
    BY <1>2 DEF Disconnected, PlaceTypeOK
  <2> QED
    BY <1>2, <2>1 DEF Disconnected, PlaceTypeOK, roomVars, buildVars
<1>3. CASE \E r \in AllRooms : LeaveRoom(p, r)
  <2>1. PICK t \in leaving : QueueLeave(t) \/ ApplyLeave(t)
    BY <1>3 DEF LeaveRoom
  <2>2. CASE QueueLeave(t)
    <3>1. leaving' \subseteq [player : Players, room : AllRooms,
                              call : {"leaveRoom", "leaveFormerRoom", "queued"}]
      BY <2>2 DEF QueueLeave, PlaceTypeOK
    <3>2. bound' \in [Players -> 0..MaxRooms]
      BY <2>2, RematchAssumption DEF QueueLeave, PlaceTypeOK
    <3> QED
      BY <2>2, <3>1, <3>2 DEF QueueLeave, PlaceTypeOK, roomVars, sinkVars, buildVars
  <2>3. CASE ApplyLeave(t)
    BY <2>3 DEF ApplyLeave, PlaceTypeOK, sinkVars, buildVars
  <2> QED
    BY <2>1, <2>2, <2>3
<1> QED
  BY <1>1, <1>2, <1>3

\* Every step of createRematch keeps the types.
LEMMA BuilderStepsKeepTypes ==
    ASSUME OwnerInv, NEW n \in AllRooms, CreateRematch(n)
    PROVE  PlaceTypeOK'
<1> USE DEF OwnerInv
<1>1. CASE CreateRoom(n)
  BY <1>1 DEF CreateRoom, Enters, Goto, Cleared, PlaceTypeOK, playerVars, sinkVars, Moving
<1>2. CASE Subscribe(n) \/ Fail(n)
  BY <1>2 DEF Subscribe, Fail, Goto, PlaceTypeOK, playerVars, roomVars, sinkVars, Moving
<1>3. CASE StartStage(n)
  BY <1>3 DEF StartStage, Goto, PlaceTypeOK, playerVars, sinkVars, Moving
<1>4. CASE Commit(n)
  <2>1. bound' \in [Players -> 0..MaxRooms]
    BY <1>4, RematchAssumption DEF Commit, PlaceTypeOK, AllRooms
  <2>2. todo' \in [AllRooms -> SUBSET Players]
    BY <1>4 DEF Commit, Enters, PlaceTypeOK
  <2>3. builder' \in [AllRooms -> {"none", "done"} \cup Moving \cup Moved]
    BY <1>4 DEF Commit, Enters, Goto, PlaceTypeOK, Moving, Moved
  <2> QED
    BY <1>4, <2>1, <2>2, <2>3 DEF Commit, PlaceTypeOK, roomVars
<1>5. CASE LeaveFormer(n)
  <2>1. former[n] \in AllRooms
    BY <1>5 DEF LeaveFormer, BuilderInv, Moved, PlaceTypeOK
  <2> QED
    BY <1>5, <2>1 DEF LeaveFormer, Goto, PlaceTypeOK, roomVars, sinkVars
<1>6. CASE Reset(n)
  BY <1>6 DEF Reset, Goto, Cleared, PlaceTypeOK, playerVars, roomVars, sinkVars
<1>7. CASE \E p \in Players : JoinRoom(n, p) \/ Announce(n, p) \/ Release(n, p)
  <2>1. PICK p \in Players : JoinRoom(n, p) \/ Announce(n, p) \/ Release(n, p)
    BY <1>7
  <2>2. CASE JoinRoom(n, p) /\ Alive(n)
    BY <2>2, TurnTypes DEF JoinRoom, PlaceTypeOK, playerVars, sinkVars, Goto, Moving
  <2>3. CASE JoinRoom(n, p) /\ ~Alive(n)
    BY <2>3 DEF JoinRoom, PlaceTypeOK, playerVars, sinkVars, Goto, Moving
  <2>4. CASE Announce(n, p) \/ Release(n, p)
    <3>1. conn' \in [Players -> {"open", "doomed", "closing", "gone"}]
      BY <2>4 DEF Announce, Release, GoClose, PlaceTypeOK
    <3> QED
      BY <2>4, <3>1, TurnTypes DEF Announce, Release, PlaceTypeOK, roomVars, Moved
  <2> QED
    BY <2>1, <2>2, <2>3, <2>4
<1> QED
  BY <1>1, <1>2, <1>3, <1>4, <1>5, <1>6, <1>7 DEF CreateRematch

\* A request for a rematch keeps the types.
LEMMA RequestKeepsTypes ==
    ASSUME OwnerInv, NEW p \in Players, HandleRematchRequest(p)
    PROVE  PlaceTypeOK'
<1>1. bound[p] \in AllRooms
  BY RequestFindsNobody, RequestTakesTheNext
<1>2. rematching' \subseteq AllRooms /\ former' \in [AllRooms -> 0..MaxRooms]
  BY <1>1 DEF OwnerInv, PlaceTypeOK, HandleRematchRequest
<1> QED
  BY <1>2 DEF HandleRematchRequest, OwnerInv, PlaceTypeOK, playerVars, roomVars, sinkVars, Moving

-----------------------------------------------------------------------------
\* Every step of createRematch keeps each flag owned: it is lowered by the
\* goroutine that raised it, or left up over an empty team.
LEMMA BuilderStepsKeepOwner ==
    ASSUME OwnerInv, NEW n \in AllRooms, CreateRematch(n)
    PROVE  OwnerInv'
<1>1. PlaceTypeOK'
  BY BuilderStepsKeepTypes
<1>2. CASE CreateRoom(n) /\ builder'[n] = "join"
  <2>1. /\ builder[n] = "create" /\ builder' = [builder EXCEPT ![n] = "join"]
        /\ UNCHANGED <<rematching, former, bound>>
        /\ phase' = [phase EXCEPT ![n] = "waiting"]
    BY <1>2 DEF CreateRoom, Enters, Goto, playerVars, OwnerInv, PlaceTypeOK
  <2>2. \A r \in AllRooms : phase'[r] = "ended" => phase[r] = "ended"
    BY <2>1 DEF OwnerInv, PlaceTypeOK
  <2>3. Advances(n)
    BY <2>1, <2>2 DEF Advances, Moving
  <2> QED
    BY <1>1, <2>3, AdvanceKeepsOwner
<1>3. CASE CreateRoom(n) /\ builder'[n] # "join"
  <2>1. /\ builder[n] = "create" /\ builder' = [builder EXCEPT ![n] = "none"]
        /\ rematching' = rematching \ {former[n]}
        /\ UNCHANGED <<former, bound, phase>>
    BY <1>3 DEF CreateRoom, Enters, Goto, Cleared, playerVars, OwnerInv, PlaceTypeOK
  <2>2. \A i \in AllRooms : i # n => builder'[i] = builder[i] /\ builder[i] \notin Moving \cup Moved
    BY <2>1, OnlyTheLast DEF OwnerInv, PlaceTypeOK, Moving
  <2>3. builder'[n] = "none"
    BY <2>1 DEF OwnerInv, PlaceTypeOK
  <2>4. \E k \in AllRooms : /\ Made' = 1..k
                            /\ \A i \in 1..k : i < k => builder'[i] = "done"
    <3>1. PICK k \in AllRooms : Made = 1..k /\ \A i \in 1..k : i < k => builder[i] = "done"
      BY DEF OwnerInv, OneBuilder
    <3>2. n = k /\ n # 1
      BY <2>1, <3>1 DEF Made, OwnerInv, OneBuilder, AllRooms
    <3>3. Made' = Made \ {n}
      BY <2>2, <2>3 DEF Made
    <3>4. n \in Nat /\ n > 1 /\ n <= MaxRooms /\ MaxRooms \in Nat
      BY <3>2, RematchAssumption DEF AllRooms
    <3>5. n - 1 \in AllRooms /\ Made' = 1..(n - 1)
      BY <3>1, <3>2, <3>3, <3>4 DEF AllRooms
    <3>6. \A i \in 1..(n - 1) : builder'[i] = "done"
      BY <2>2, <3>1, <3>2, <3>4 DEF AllRooms
    <3> QED
      BY <3>5, <3>6
  <2>5. OneBuilder'
    <3>1. builder'[1] = "done"
      BY <2>1, <2>2, RematchAssumption DEF OwnerInv, OneBuilder, AllRooms
    <3>2. \A r \in AllRooms : phase'[r] = "ended" => builder'[r] = "done"
      BY <2>1, <2>2 DEF OwnerInv, OneBuilder
    <3>3. \A r \in rematching' : builder'[r] = "done"
      BY <2>1, <2>2 DEF OwnerInv, OneBuilder, PlaceTypeOK
    <3> QED
      BY <2>4, <3>1, <3>2, <3>3 DEF OneBuilder
  <2>6. BuilderInv'
    BY <2>2, <2>3 DEF BuilderInv, Moving, Moved
  <2>7. FlagInv'
    BY <2>1, <2>2, <2>3 DEF OwnerInv, FlagInv
  <2> QED
    BY <1>1, <2>5, <2>6, <2>7 DEF OwnerInv
<1>4. CASE Subscribe(n)
  <2>1. Advances(n)
    BY <1>4 DEF Advances, Subscribe, Goto, playerVars, roomVars, Moving
  <2> QED
    BY <1>1, <2>1, AdvanceKeepsOwner
<1>5. CASE StartStage(n)
  <2>1. PICK next \in {"commit", "fail"} : builder' = [builder EXCEPT ![n] = next]
    BY <1>5 DEF StartStage, Goto
  <2>2. \A r \in AllRooms : phase'[r] = "ended" => phase[r] = "ended"
    BY <1>5 DEF StartStage, OwnerInv, PlaceTypeOK
  <2>3. builder[n] = "start" /\ UNCHANGED <<rematching, former, bound>>
    BY <1>5 DEF StartStage, playerVars
  <2>4. Advances(n)
    BY <2>1, <2>2, <2>3 DEF Advances, Moving
  <2> QED
    BY <1>1, <2>4, AdvanceKeepsOwner
<1>6. CASE Commit(n) /\ builder'[n] = "fail"
  <2>1. /\ builder[n] = "commit" /\ builder' = [builder EXCEPT ![n] = "fail"]
        /\ UNCHANGED <<rematching, former, bound, phase>>
    BY <1>6 DEF Commit, Enters, Goto, roomVars, OwnerInv, PlaceTypeOK
  <2>2. Advances(n)
    BY <2>1 DEF Advances, Moving
  <2> QED
    BY <1>1, <2>2, AdvanceKeepsOwner
<1>7. CASE Commit(n) /\ builder'[n] # "fail"
  <2>1. /\ builder[n] = "commit" /\ builder' = [builder EXCEPT ![n] = "announce"]
        /\ bound' = [p \in Players |-> n]
        /\ UNCHANGED <<rematching, former, phase>>
    BY <1>7 DEF Commit, Enters, Goto, roomVars, OwnerInv, PlaceTypeOK
  <2>2. \A i \in AllRooms : i # n => builder'[i] = builder[i] /\ builder[i] \notin Moving \cup Moved
    BY <2>1, OnlyTheLast DEF OwnerInv, PlaceTypeOK, Moving
  <2>3. builder'[n] = "announce"
    BY <2>1 DEF OwnerInv, PlaceTypeOK
  <2>4. OneBuilder'
    BY <2>1, BuilderAdvances DEF Moving, Moved
  <2>5. BuilderInv'
    BY <2>1, <2>2, <2>3 DEF OwnerInv, BuilderInv, Moving, Moved
  <2>6. FlagInv'
    <3> SUFFICES ASSUME NEW r \in rematching
                 PROVE  \/ \E i \in AllRooms : former'[i] = r /\ builder'[i] \in Moving \cup Moved
                        \/ \A p \in Players : bound'[p] # r
      BY <2>1 DEF FlagInv
    <3>1. r # n
      BY <2>1 DEF OwnerInv, OneBuilder
    <3> QED
      BY <2>1, <3>1
  <2> QED
    BY <1>1, <2>4, <2>5, <2>6 DEF OwnerInv
<1>8. CASE LeaveFormer(n) \/ Reset(n)
  <2>1. /\ builder[n] \in {"leave", "reset"} /\ builder' = [builder EXCEPT ![n] = "done"]
        /\ builder[n] = "leave" => rematching' = rematching
        /\ builder[n] = "reset" => rematching' = rematching \ {former[n]}
        /\ UNCHANGED <<former, bound, phase>>
    BY <1>8 DEF LeaveFormer, Reset, Goto, Cleared, playerVars, roomVars
  <2>2. \A i \in AllRooms : i # n => builder'[i] = builder[i] /\ builder[i] \notin Moving \cup Moved
    BY <2>1, OnlyTheLast DEF OwnerInv, PlaceTypeOK, Moving, Moved
  <2>3. builder'[n] = "done"
    BY <2>1 DEF OwnerInv, PlaceTypeOK
  <2>4. OneBuilder'
    BY <2>1, BuilderAdvances DEF Moving, Moved
  <2>5. BuilderInv'
    BY <2>2, <2>3 DEF BuilderInv, Moving, Moved
  <2>6. FlagInv'
    <3> SUFFICES ASSUME NEW r \in rematching' PROVE \A p \in Players : bound'[p] # r
      BY DEF FlagInv
    <3>1. r \in rematching /\ (builder[n] = "reset" => former[n] # r)
      BY <2>1
    <3>2. CASE \A p \in Players : bound[p] # r
      BY <2>1, <3>2
    <3>3. CASE \E i \in AllRooms : former[i] = r /\ builder[i] \in Moving \cup Moved
      <4>1. former[n] = r /\ builder[n] = "leave"
        BY <2>1, <2>2, <3>1, <3>3
      <4>2. \A p \in Players : bound[p] \in {n, 0} /\ r < n /\ r # 0
        BY <3>1, <4>1 DEF OwnerInv, BuilderInv, Moved, PlaceTypeOK, AllRooms
      <4>3. r \in Nat /\ n \in Nat
        BY <3>1 DEF OwnerInv, PlaceTypeOK, AllRooms
      <4> QED
        BY <2>1, <4>2, <4>3
    <3> QED
      BY <3>1, <3>2, <3>3 DEF OwnerInv, FlagInv
  <2> QED
    BY <1>1, <2>4, <2>5, <2>6 DEF OwnerInv
<1>9. CASE Fail(n)
  <2>1. Advances(n)
    BY <1>9 DEF Advances, Fail, Goto, playerVars, Moving
  <2> QED
    BY <1>1, <2>1, AdvanceKeepsOwner
<1>10. CASE \E p \in Players : JoinRoom(n, p) \/ Announce(n, p) \/ Release(n, p)
  <2>1. PICK p \in Players : JoinRoom(n, p) \/ Announce(n, p) \/ Release(n, p)
    BY <1>10
  <2>2. UNCHANGED <<rematching, former, bound, phase>>
    BY <2>1 DEF JoinRoom, Announce, Release, playerVars, roomVars
  <2>3. \A r \in AllRooms : phase'[r] = "ended" => phase[r] = "ended" \/ builder[r] = "done"
    BY <2>2
  <2>4. \/ builder' = builder
        \/ builder[n] = "join" /\ \E next \in {"subscribe", "fail"} : builder' = [builder EXCEPT ![n] = next]
        \/ builder[n] = "announce" /\ builder' = [builder EXCEPT ![n] = "release"]
        \/ builder[n] = "release" /\ builder' = [builder EXCEPT ![n] = "leave"]
    BY <2>1 DEF JoinRoom, Announce, Release, Turn, Enters, Goto
  <2>5. CASE builder' = builder
    BY <1>1, <2>2, <2>3, <2>5, OthersKeepOwner
  <2>6. CASE builder' # builder
    <3>1. Advances(n)
      BY <2>2, <2>4, <2>6 DEF Advances, Moving, Moved
    <3> QED
      BY <1>1, <3>1, AdvanceKeepsOwner
  <2> QED
    BY <2>5, <2>6
<1> QED
  BY <1>2, <1>3, <1>4, <1>5, <1>6, <1>7, <1>8, <1>9, <1>10 DEF CreateRematch

\* A request that is granted starts a goroutine for the room that comes next.
LEMMA RequestKeepsOwner ==
    ASSUME OwnerInv, NEW p \in Players, HandleRematchRequest(p)
    PROVE  OwnerInv'
<1> DEFINE r == bound[p]
<1>1. PICK k \in AllRooms :
          /\ Made = 1..k /\ Cardinality(Made) + 1 = k + 1 /\ k + 1 \in AllRooms
          /\ \A i \in 1..k : builder[i] = "done"
          /\ builder[k + 1] = "none"
  BY RequestTakesTheNext
<1>2. /\ builder' = [builder EXCEPT ![k + 1] = "create"]
      /\ former' = [former EXCEPT ![k + 1] = r]
      /\ rematching' = rematching \cup {r}
      /\ UNCHANGED <<bound, phase>>
      /\ \A q \in Players : bound[q] = r
  BY <1>1 DEF HandleRematchRequest, Team, playerVars, roomVars
<1>3. builder[r] = "done" /\ r \in AllRooms /\ r < k + 1
  <2>1. builder[r] = "done" /\ r \in AllRooms
    BY RequestFindsNobody, <1>1
  <2> QED
    BY <2>1, <1>1 DEF Made, AllRooms
<1>4. /\ builder'[k + 1] = "create" /\ former'[k + 1] = r
      /\ \A i \in AllRooms : i # k + 1 => /\ builder'[i] = builder[i] /\ former'[i] = former[i]
                                          /\ builder[i] \notin Moving \cup Moved
  <2>1. \A i \in AllRooms : builder[i] \in {"none", "done"}
    BY RequestFindsNobody
  <2> QED
    BY <1>1, <1>2, <2>1 DEF OwnerInv, PlaceTypeOK, Moving, Moved
<1>5. OneBuilder'
  <2>1. Made' = 1..(k + 1)
    <3>1. Made' = Made \cup {k + 1}
      BY <1>1, <1>4 DEF Made
    <3> QED
      BY <3>1, <1>1 DEF AllRooms
  <2>2. \A i \in 1..(k + 1) : i < k + 1 => builder'[i] = "done"
    <3> SUFFICES ASSUME NEW i \in 1..(k + 1), i < k + 1 PROVE builder'[i] = "done"
      OBVIOUS
    <3>1. i \in 1..k /\ i \in AllRooms /\ i # k + 1
      BY <1>1, RematchAssumption DEF AllRooms
    <3> QED
      BY <1>1, <1>4, <3>1
  <2>3. builder'[1] = "done" /\ \A i \in AllRooms : builder[i] = "done" => builder'[i] = "done"
    BY <1>1, <1>4, RematchAssumption DEF OwnerInv, OneBuilder, AllRooms
  <2> QED
    BY <1>1, <1>2, <1>3, <2>1, <2>2, <2>3 DEF OwnerInv, OneBuilder
<1>6. BuilderInv'
  BY <1>2, <1>3, <1>4 DEF BuilderInv, Moving, Moved
<1>7. FlagInv'
  <2> SUFFICES ASSUME NEW s \in rematching', s # r
               PROVE  \A q \in Players : bound'[q] # s
    BY <1>1, <1>2, <1>4 DEF FlagInv, Moving
  <2> QED
    BY <1>2
<1> QED
  BY RequestKeepsTypes, <1>5, <1>6, <1>7 DEF OwnerInv

\* What a room does by itself touches no flag.
LEMMA RoomStepsKeepOwner ==
    ASSUME OwnerInv, NEW r \in AllRooms,
           \/ Emit(r) \/ CloseUnused(r) \/ CloseCongested(r) \/ CloseWatcherRun(r) \/ Dispatch(r)
    PROVE  OwnerInv'
<1>1. PlaceTypeOK'
  BY RoomStepsKeepTypes DEF OwnerInv
<1>2. UNCHANGED <<rematching, former, builder, bound>>
  BY DEF Emit, CloseUnused, CloseCongested, Close, CloseWatcherRun, Dispatch, playerVars, buildVars
<1>3. \A s \in AllRooms : phase'[s] = "ended" => phase[s] = "ended" \/ builder[s] = "done"
  BY DEF Emit, Announced, CloseUnused, CloseCongested, Close, CloseWatcherRun, Dispatch, roomVars,
         OwnerInv, PlaceTypeOK
<1>4. \A p \in Players : bound'[p] \in {bound[p], 0}
  BY <1>2
<1> QED
  BY <1>1, <1>2, <1>3, <1>4, OthersKeepOwner

\* A player that goes touches no flag, and binds nobody back.
LEMMA PlayerStepsKeepOwner ==
    ASSUME OwnerInv, NEW p \in Players,
           \/ Hangup(p) \/ CloseConnection(p) \/ Disconnected(p)
           \/ \E r \in AllRooms : LeaveRoom(p, r)
    PROVE  OwnerInv'
<1>1. PlaceTypeOK'
  BY PlayerStepsKeepTypes DEF OwnerInv
<1>2. UNCHANGED <<rematching, former, builder, phase>>
  BY DEF Hangup, CloseConnection, Disconnected, LeaveRoom, QueueLeave, ApplyLeave, roomVars, buildVars
<1>3. \A q \in Players : bound'[q] \in {bound[q], 0}
  BY DEF Hangup, CloseConnection, Disconnected, LeaveRoom, QueueLeave, ApplyLeave, OwnerInv,
         PlaceTypeOK
<1>4. \A s \in AllRooms : phase'[s] = "ended" => phase[s] = "ended" \/ builder[s] = "done"
  BY <1>2
<1> QED
  BY <1>1, <1>2, <1>3, <1>4, OthersKeepOwner

\* At first no flag is up and nobody is at work.
LEMMA OwnerAtFirst == Init => OwnerInv
<1> SUFFICES ASSUME Init PROVE OwnerInv
  OBVIOUS
<1>1. 1 \in AllRooms /\ builder = [r \in AllRooms |-> IF r = 1 THEN "done" ELSE "none"]
  BY RematchAssumption DEF Init, First, AllRooms
<1>2. Made = 1..1
  BY <1>1 DEF Made, AllRooms
<1>3. OneBuilder
  BY <1>1, <1>2 DEF OneBuilder, Init, First
<1>4. BuilderInv /\ FlagInv
  BY <1>1 DEF BuilderInv, FlagInv, Init, Moving, Moved
<1> QED
  BY <1>3, <1>4, TypesAtFirst DEF OwnerInv

\* Every step keeps the flags owned.
LEMMA StepsKeepOwner == OwnerInv /\ [Next]_vars => OwnerInv'
<1> SUFFICES ASSUME OwnerInv, [Next]_vars PROVE OwnerInv'
  OBVIOUS
<1>1. CASE UNCHANGED vars
  BY <1>1 DEF vars, playerVars, roomVars, sinkVars, buildVars, OwnerInv, PlaceTypeOK, OneBuilder,
              BuilderInv, FlagInv, Made
<1>2. CASE Next
  BY <1>2, RoomStepsKeepOwner, BuilderStepsKeepOwner, RequestKeepsOwner, PlayerStepsKeepOwner
     DEF Next
<1> QED
  BY <1>1, <1>2

\* The ownership invariant holds in every reachable state.
LEMMA OwnerIsInvariant == Spec => []OwnerInv
BY OwnerAtFirst, StepsKeepOwner, PTL DEF Spec

\* createRematch and the rematching flag: at most one goroutine makes a room for
\* a finished one, and a flag that is up is cleared or its team has moved.
THEOREM Ownership == Spec => []RematchingIsOwned
<1>1. OwnerInv => RematchingIsOwned
  <2> SUFFICES ASSUME OwnerInv, NEW r \in AllRooms
               PROVE  LET workers == {n \in AllRooms :
                                          former[n] = r /\ builder[n] \notin {"none", "done"}}
                      IN  /\ Cardinality(workers) <= 1
                          /\ r \in rematching => workers # {} \/ \A p \in Players : bound[p] # r
    BY DEF RematchingIsOwned
  <2> DEFINE workers == {n \in AllRooms : former[n] = r /\ builder[n] \notin {"none", "done"}}
  <2>1. \A n \in AllRooms : builder[n] \notin {"none", "done"} <=> builder[n] \in Moving \cup Moved
    BY DEF OwnerInv, PlaceTypeOK, Moving, Moved
  <2>2. \A m, n \in workers : m = n
    BY <2>1, OnlyTheLast
  <2>3. Cardinality(workers) <= 1
    <3>1. CASE workers = {}
      BY <3>1, FS_EmptySet
    <3>2. CASE workers # {}
      <4>1. PICK n \in workers : TRUE
        BY <3>2
      <4>2. workers = {n}
        BY <2>2
      <4>3. Cardinality({n}) = 1
        BY FS_Singleton
      <4> QED
        BY <4>2, <4>3
    <3> QED
      BY <3>1, <3>2
  <2>4. r \in rematching => workers # {} \/ \A p \in Players : bound[p] # r
    BY <2>1 DEF OwnerInv, FlagInv
  <2> QED
    BY <2>3, <2>4
<1> QED
  BY <1>1, OwnerIsInvariant, PTL

-----------------------------------------------------------------------------
(* Where the players are *)

\* A departure that is under way is that of a player who is gone, or from a room
\* the player has been moved out of: only the former may clear the binding.
LeaveInv ==
    \A t \in leaving : \/ conn[t.player] = "gone"
                       \/ t.call # "leaveRoom" /\ t.room < bound[t.player]

\* A room that is being made holds the players its builder has joined.
JoinInv ==
    \A n \in AllRooms, p \in Players : Alive(n) /\ conn[p] # "gone" =>
        /\ builder[n] = "join" => p \in members[n] \cup todo[n]
        /\ builder[n] \in {"subscribe", "start", "commit"} => p \in members[n]

PlaceInv == OwnerInv /\ LeaveInv /\ JoinInv /\ TeamStaysTogether

\* The steps that neither move nor remove a player who is not gone.
LEMMA PlaceKept ==
    ASSUME PlaceInv, OwnerInv', UNCHANGED <<bound, leaving>>,
           \A p \in Players : conn'[p] = "gone" <=> conn[p] = "gone",
           \A r \in AllRooms : Alive(r)' => Alive(r) /\ members'[r] = members[r],
           \A n \in AllRooms :
               /\ builder'[n] = "join" => builder[n] = "join" /\ todo'[n] = todo[n]
               /\ builder'[n] \in {"subscribe", "start", "commit"}
                      => builder[n] \in {"subscribe", "start", "commit"}
    PROVE  PlaceInv'
<1>1. LeaveInv'
  BY DEF PlaceInv, LeaveInv, OwnerInv, PlaceTypeOK
<1>2. JoinInv'
  BY DEF PlaceInv, JoinInv
<1>3. TeamStaysTogether'
  <2>1. \A p \in Players : conn[p] # "gone" => bound[p] \in AllRooms
    BY DEF PlaceInv, TeamStaysTogether, OwnerInv, PlaceTypeOK, AllRooms
  <2> QED
    BY <2>1 DEF PlaceInv, TeamStaysTogether
<1> QED
  BY <1>1, <1>2, <1>3 DEF PlaceInv

\* A room that closes takes its members with it and moves nobody.
LEMMA RoomStepsKeepPlace ==
    ASSUME PlaceInv, NEW r \in AllRooms,
           \/ Emit(r) \/ CloseUnused(r) \/ CloseCongested(r) \/ CloseWatcherRun(r) \/ Dispatch(r)
    PROVE  PlaceInv'
<1>1. OwnerInv'
  BY RoomStepsKeepOwner DEF PlaceInv
<1>2. UNCHANGED <<bound, leaving, builder, todo>>
  BY DEF Emit, CloseUnused, CloseCongested, Close, CloseWatcherRun, Dispatch, playerVars, buildVars
<1>3. \A p \in Players : conn'[p] = "gone" <=> conn[p] = "gone"
  BY DEF Emit, CloseUnused, CloseCongested, Close, CloseWatcherRun, Dispatch, GoClose, playerVars,
         PlaceInv, OwnerInv, PlaceTypeOK
<1>4. \A s \in AllRooms : Alive(s)' => Alive(s) /\ members'[s] = members[s]
  BY DEF Emit, CloseUnused, CloseCongested, Close, CloseWatcherRun, Dispatch, roomVars, Alive,
         PlaceInv, OwnerInv, PlaceTypeOK
<1> QED
  BY <1>1, <1>2, <1>3, <1>4, PlaceKept

\* A request for a rematch moves nobody yet.
LEMMA RequestKeepsPlace ==
    ASSUME PlaceInv, NEW p \in Players, HandleRematchRequest(p)
    PROVE  PlaceInv'
<1>1. OwnerInv'
  BY RequestKeepsOwner DEF PlaceInv
<1>2. UNCHANGED <<bound, leaving, conn, phase, members, todo>>
  BY DEF HandleRematchRequest, playerVars, roomVars
<1>3. \A n \in AllRooms : builder'[n] \in {builder[n], "create"}
  BY DEF HandleRematchRequest, PlaceInv, OwnerInv, PlaceTypeOK
<1> QED
  BY <1>1, <1>2, <1>3, PlaceKept DEF Alive

\* The leave of a former room takes out a player that has moved on, never
\* one that is bound there.
LEMMA PlayerStepsKeepPlace ==
    ASSUME PlaceInv, NEW p \in Players,
           \/ Hangup(p) \/ CloseConnection(p) \/ Disconnected(p)
           \/ \E r \in AllRooms : LeaveRoom(p, r)
    PROVE  PlaceInv'
<1>1. OwnerInv'
  BY PlayerStepsKeepOwner DEF PlaceInv
<1>2. CASE Hangup(p) \/ CloseConnection(p)
  <2>1. \A q \in Players : conn'[q] = "gone" <=> conn[q] = "gone"
    BY <1>2 DEF Hangup, CloseConnection, PlaceInv, OwnerInv, PlaceTypeOK
  <2> QED
    BY <1>1, <1>2, <2>1, PlaceKept DEF Hangup, CloseConnection, roomVars, buildVars, Alive
<1>3. CASE Disconnected(p)
  <2>1. /\ conn'[p] = "gone" /\ \A q \in Players : conn'[q] # "gone" => conn[q] # "gone"
        /\ \A q \in Players : conn[q] = "gone" => conn'[q] = "gone"
    BY <1>3 DEF Disconnected, PlaceInv, OwnerInv, PlaceTypeOK
  <2>2. UNCHANGED <<bound, phase, members, builder, todo>>
    BY <1>3 DEF Disconnected, roomVars, buildVars
  <2>3. \A t \in leaving' : t \in leaving \/ t.player = p
    BY <1>3 DEF Disconnected
  <2>4. LeaveInv'
    <3> SUFFICES ASSUME NEW t \in leaving', t \in leaving
                 PROVE  \/ conn'[t.player] = "gone"
                        \/ t.call # "leaveRoom" /\ t.room < bound'[t.player]
      BY <2>1, <2>3 DEF LeaveInv
    <3>1. t.player \in Players
      BY DEF PlaceInv, OwnerInv, PlaceTypeOK
    <3> QED
      BY <2>1, <2>2, <3>1 DEF PlaceInv, LeaveInv
  <2>5. JoinInv'
    BY <2>1, <2>2 DEF PlaceInv, JoinInv, Alive
  <2>6. TeamStaysTogether'
    BY <2>1, <2>2 DEF PlaceInv, TeamStaysTogether, Alive
  <2> QED
    BY <1>1, <2>4, <2>5, <2>6 DEF PlaceInv
<1>4. CASE \E r \in AllRooms : LeaveRoom(p, r)
  <2>1. PICK t \in leaving : t.player = p /\ (QueueLeave(t) \/ ApplyLeave(t))
    BY <1>4 DEF LeaveRoom
  <2>2. t \in [player : Players, room : AllRooms, call : {"leaveRoom", "leaveFormerRoom", "queued"}]
    BY DEF PlaceInv, OwnerInv, PlaceTypeOK
  <2>3. \/ conn[p] = "gone"
        \/ t.call # "leaveRoom" /\ t.room < bound[p]
    BY <2>1 DEF PlaceInv, LeaveInv
  <2>4. CASE QueueLeave(t)
    <3>1. /\ UNCHANGED <<conn, phase, members, builder, todo>>
          /\ leaving' = (leaving \ {t}) \cup {[t EXCEPT !.call = "queued"]}
          /\ bound' = IF Unbinds(t) THEN [bound EXCEPT ![t.player] = 0] ELSE bound
      BY <2>4 DEF QueueLeave, roomVars, buildVars
    <3>2. \A q \in Players : conn[q] # "gone" => bound'[q] = bound[q]
      BY <2>1, <2>3, <3>1 DEF Unbinds, PlaceInv, OwnerInv, PlaceTypeOK
    <3>3. LeaveInv'
      <4> SUFFICES ASSUME NEW u \in leaving', conn'[u.player] # "gone"
                   PROVE  u.call # "leaveRoom" /\ u.room < bound'[u.player]
        BY DEF LeaveInv
      <4>1. CASE u \in leaving
        <5>1. u.player \in Players
          BY <4>1 DEF PlaceInv, OwnerInv, PlaceTypeOK
        <5> QED
          BY <3>1, <3>2, <4>1, <5>1 DEF PlaceInv, LeaveInv
      <4>2. CASE u = [t EXCEPT !.call = "queued"]
        <5>1. u.player = p /\ u.room = t.room /\ u.call = "queued"
          BY <2>1, <2>2, <4>2
        <5> QED
          BY <2>3, <3>1, <3>2, <5>1
      <4> QED
        BY <3>1, <4>1, <4>2
    <3>4. JoinInv'
      BY <3>1 DEF PlaceInv, JoinInv, Alive
    <3>5. TeamStaysTogether'
      BY <3>1, <3>2 DEF PlaceInv, TeamStaysTogether, Alive
    <3> QED
      BY <1>1, <3>3, <3>4, <3>5 DEF PlaceInv
  <2>5. CASE ApplyLeave(t)
    <3>1. /\ UNCHANGED <<conn, bound, phase, builder, todo>>
          /\ leaving' = leaving \ {t}
          /\ members' = [members EXCEPT ![t.room] = @ \ {p}]
      BY <2>1, <2>5 DEF ApplyLeave, buildVars
    <3>2. \A r \in AllRooms, q \in Players :
              q \in members[r] /\ (q # p \/ r # t.room) => q \in members'[r]
      BY <2>2, <3>1 DEF PlaceInv, OwnerInv, PlaceTypeOK
    <3>3. LeaveInv'
      BY <3>1 DEF PlaceInv, LeaveInv
    <3>4. JoinInv'
      <4> SUFFICES ASSUME NEW n \in AllRooms, builder[n] \in {"join", "subscribe", "start", "commit"},
                          conn[p] # "gone"
                   PROVE  n # t.room
        BY <3>1, <3>2 DEF PlaceInv, JoinInv, Alive
      <4>1. bound[p] = former[n] /\ former[n] < n
        BY DEF PlaceInv, TeamStaysTogether, OwnerInv, BuilderInv, Moving
      <4> QED
        BY <2>2, <2>3, <4>1 DEF PlaceInv, OwnerInv, PlaceTypeOK, AllRooms
    <3>5. TeamStaysTogether'
      <4>1. conn[p] # "gone" => bound[p] # t.room
        BY <2>2, <2>3 DEF PlaceInv, OwnerInv, PlaceTypeOK, AllRooms
      <4>2. \A q \in Players : conn[q] # "gone" => bound[q] \in AllRooms
        BY DEF PlaceInv, TeamStaysTogether, OwnerInv, PlaceTypeOK, AllRooms
      <4> QED
        BY <3>1, <3>2, <4>1, <4>2 DEF PlaceInv, TeamStaysTogether, Alive
    <3> QED
      BY <1>1, <3>3, <3>4, <3>5 DEF PlaceInv
  <2> QED
    BY <2>1, <2>4, <2>5
<1> QED
  BY <1>2, <1>3, <1>4

\* createRematch binds the whole team in one step, and undoes a failed
\* room only for players that were not bound to it.
LEMMA BuilderStepsKeepPlace ==
    ASSUME PlaceInv, NEW n \in AllRooms, CreateRematch(n)
    PROVE  PlaceInv'
<1>1. OwnerInv'
  BY BuilderStepsKeepOwner DEF PlaceInv
<1>2. CASE CreateRoom(n) /\ builder'[n] = "join"
  <2>1. /\ builder[n] = "create" /\ builder' = [builder EXCEPT ![n] = "join"]
        /\ todo' = [todo EXCEPT ![n] = Players]
        /\ phase' = [phase EXCEPT ![n] = "waiting"]
        /\ UNCHANGED <<conn, bound, leaving, members>>
    BY <1>2 DEF CreateRoom, Enters, Goto, playerVars, PlaceInv, OwnerInv, PlaceTypeOK
  <2>2. LeaveInv'
    BY <2>1 DEF PlaceInv, LeaveInv
  <2>3. JoinInv'
    BY <2>1 DEF PlaceInv, JoinInv, Alive, OwnerInv, PlaceTypeOK
  <2>4. \A p \in Players : bound[p] # n
    BY <2>1 DEF PlaceInv, OwnerInv, BuilderInv, Moving, PlaceTypeOK, AllRooms
  <2>5. TeamStaysTogether'
    BY <2>1, <2>4 DEF PlaceInv, TeamStaysTogether, Alive, OwnerInv, PlaceTypeOK
  <2> QED
    BY <1>1, <2>2, <2>3, <2>5 DEF PlaceInv
<1>3. CASE CreateRoom(n) /\ builder'[n] # "join"
  <2>1. builder' = [builder EXCEPT ![n] = "none"] /\ UNCHANGED <<conn, bound, leaving, members, phase, todo>>
    BY <1>3 DEF CreateRoom, Enters, Goto, playerVars, PlaceInv, OwnerInv, PlaceTypeOK
  <2>2. \A i \in AllRooms : builder'[i] \in {builder[i], "none"}
    BY <2>1 DEF PlaceInv, OwnerInv, PlaceTypeOK
  <2> QED
    BY <1>1, <2>1, <2>2, PlaceKept DEF Alive
<1>4. CASE Subscribe(n) \/ Fail(n) \/ Reset(n)
  <2>1. /\ UNCHANGED <<conn, bound, leaving, members, phase, todo>>
        /\ \/ builder[n] = "subscribe" /\ builder' = [builder EXCEPT ![n] = "start"]
           \/ builder' = [builder EXCEPT ![n] = "reset"]
           \/ builder' = [builder EXCEPT ![n] = "done"]
    BY <1>4 DEF Subscribe, Fail, Reset, Goto, playerVars, roomVars
  <2>2. \A i \in AllRooms : /\ builder'[i] = "join" => builder[i] = "join"
                            /\ builder'[i] \in {"subscribe", "start", "commit"}
                                   => builder[i] \in {"subscribe", "start", "commit"}
    BY <2>1 DEF PlaceInv, OwnerInv, PlaceTypeOK
  <2> QED
    BY <1>1, <2>1, <2>2, PlaceKept DEF Alive
<1>5. CASE StartStage(n)
  <2>1. /\ UNCHANGED <<conn, bound, leaving, members, todo>>
        /\ builder[n] = "start"
        /\ builder' = [builder EXCEPT ![n] = "commit"] \/ builder' = [builder EXCEPT ![n] = "fail"]
        /\ phase' = phase \/ (Alive(n) /\ phase' = [phase EXCEPT ![n] = "playing"])
    BY <1>5 DEF StartStage, Goto, playerVars
  <2>2. \A i \in AllRooms : /\ builder'[i] = "join" => builder[i] = "join"
                            /\ builder'[i] \in {"subscribe", "start", "commit"}
                                   => builder[i] \in {"subscribe", "start", "commit"}
    BY <2>1 DEF PlaceInv, OwnerInv, PlaceTypeOK
  <2>3. \A r \in AllRooms : Alive(r)' => Alive(r)
    BY <2>1 DEF Alive, PlaceInv, OwnerInv, PlaceTypeOK
  <2> QED
    BY <1>1, <2>1, <2>2, <2>3, PlaceKept
<1>6. CASE Commit(n) /\ builder'[n] = "fail"
  <2>1. builder' = [builder EXCEPT ![n] = "fail"] /\ UNCHANGED <<conn, bound, leaving, members, phase, todo>>
    BY <1>6 DEF Commit, Enters, Goto, roomVars, PlaceInv, OwnerInv, PlaceTypeOK
  <2>2. \A i \in AllRooms : builder'[i] \in {builder[i], "fail"}
    BY <2>1 DEF PlaceInv, OwnerInv, PlaceTypeOK
  <2> QED
    BY <1>1, <2>1, <2>2, PlaceKept DEF Alive
<1>7. CASE Commit(n) /\ builder'[n] # "fail"
  <2>1. /\ builder[n] = "commit" /\ builder' = [builder EXCEPT ![n] = "announce"]
        /\ todo' = [todo EXCEPT ![n] = Players]
        /\ bound' = [p \in Players |-> n]
        /\ \A p \in Players : bound[p] = former[n]
        /\ UNCHANGED <<conn, leaving, members, phase>>
    BY <1>7 DEF Commit, StillThere, Enters, Goto, roomVars, PlaceInv, OwnerInv, PlaceTypeOK
  <2>2. former[n] \in Nat /\ n \in Nat /\ former[n] < n /\ n # 0
    BY <2>1 DEF PlaceInv, OwnerInv, BuilderInv, Moving, PlaceTypeOK, AllRooms
  <2>3. LeaveInv'
    <3> SUFFICES ASSUME NEW t \in leaving, conn[t.player] # "gone"
                 PROVE  t.call # "leaveRoom" /\ t.room < bound'[t.player]
      BY <2>1 DEF LeaveInv
    <3>1. t.player \in Players /\ t.room \in Nat
      BY DEF PlaceInv, OwnerInv, PlaceTypeOK, AllRooms
    <3>2. t.call # "leaveRoom" /\ t.room < former[n]
      BY <2>1, <3>1 DEF PlaceInv, LeaveInv
    <3> QED
      BY <2>1, <2>2, <3>1, <3>2
  <2>4. JoinInv'
    BY <2>1 DEF PlaceInv, JoinInv, Alive, OwnerInv, PlaceTypeOK
  <2>5. TeamStaysTogether'
    BY <2>1, <2>2 DEF PlaceInv, TeamStaysTogether, JoinInv, Alive
  <2> QED
    BY <1>1, <2>3, <2>4, <2>5 DEF PlaceInv
<1>8. CASE LeaveFormer(n)
  <2>1. /\ UNCHANGED <<conn, bound, members, phase, todo>>
        /\ builder[n] = "leave" /\ builder' = [builder EXCEPT ![n] = "done"]
        /\ leaving' = leaving \cup
               {[player |-> p, room |-> former[n], call |-> "leaveFormerRoom"] : p \in Players}
    BY <1>8 DEF LeaveFormer, Goto, roomVars
  <2>2. former[n] < n /\ \A p \in Players : bound[p] \in {n, 0}
    BY <2>1 DEF PlaceInv, OwnerInv, BuilderInv, Moved
  <2>3. LeaveInv'
    <3> SUFFICES ASSUME NEW t \in leaving', t \notin leaving, conn[t.player] # "gone"
                 PROVE  t.call # "leaveRoom" /\ t.room < bound[t.player]
      BY <2>1 DEF PlaceInv, LeaveInv
    <3>1. PICK p \in Players : t = [player |-> p, room |-> former[n], call |-> "leaveFormerRoom"]
      BY <2>1
    <3>2. bound[p] = n
      BY <2>2, <3>1 DEF PlaceInv, TeamStaysTogether
    <3> QED
      BY <2>2, <3>1, <3>2
  <2>4. JoinInv'
    BY <2>1 DEF PlaceInv, JoinInv, Alive, OwnerInv, PlaceTypeOK
  <2>5. TeamStaysTogether'
    BY <2>1 DEF PlaceInv, TeamStaysTogether, Alive
  <2> QED
    BY <1>1, <2>3, <2>4, <2>5 DEF PlaceInv
<1>9. CASE \E p \in Players : JoinRoom(n, p) /\ Alive(n)
  <2>1. PICK p \in Players : JoinRoom(n, p) /\ Alive(n)
    BY <1>9
  <2>2. /\ UNCHANGED <<conn, bound, leaving, phase>>
        /\ builder[n] = "join" /\ p \in todo[n]
        /\ members' = [members EXCEPT ![n] = @ \cup {p}]
        /\ \/ /\ todo[n] = {p} /\ builder' = [builder EXCEPT ![n] = "subscribe"]
           \/ /\ builder' = builder /\ todo' = [todo EXCEPT ![n] = @ \ {p}]
    BY <2>1 DEF JoinRoom, Turn, Enters, Goto, playerVars
  <2>3. JoinInv'
    <3> SUFFICES ASSUME NEW r \in AllRooms, NEW q \in Players, Alive(r), conn[q] # "gone"
                 PROVE  /\ builder'[r] = "join" => q \in members'[r] \cup todo'[r]
                        /\ builder'[r] \in {"subscribe", "start", "commit"} => q \in members'[r]
      BY <2>2 DEF JoinInv, Alive
    <3>1. CASE r = n
      BY <2>2, <3>1 DEF PlaceInv, JoinInv, OwnerInv, PlaceTypeOK
    <3>2. CASE r # n
      <4>1. builder[r] \notin Moving
        BY <2>2, <3>2, OnlyTheLast DEF PlaceInv, Moving
      <4>2. builder'[r] = builder[r]
        BY <2>2, <3>2 DEF PlaceInv, OwnerInv, PlaceTypeOK
      <4> QED
        BY <4>1, <4>2 DEF Moving
    <3> QED
      BY <3>1, <3>2
  <2>4. LeaveInv'
    BY <2>2 DEF PlaceInv, LeaveInv
  <2>5. TeamStaysTogether'
    BY <2>2 DEF PlaceInv, TeamStaysTogether, Alive, OwnerInv, PlaceTypeOK
  <2> QED
    BY <1>1, <2>3, <2>4, <2>5 DEF PlaceInv
<1>10. CASE \E p \in Players : JoinRoom(n, p) /\ ~Alive(n)
  <2>1. /\ UNCHANGED <<conn, bound, leaving, members, phase, todo>>
        /\ builder' = [builder EXCEPT ![n] = "fail"]
    BY <1>10 DEF JoinRoom, Goto, playerVars
  <2>2. \A i \in AllRooms : builder'[i] \in {builder[i], "fail"}
    BY <2>1 DEF PlaceInv, OwnerInv, PlaceTypeOK
  <2> QED
    BY <1>1, <2>1, <2>2, PlaceKept DEF Alive
<1>11. CASE \E p \in Players : Announce(n, p) \/ Release(n, p)
  <2>0. \A q \in Players : conn'[q] = "gone" <=> conn[q] = "gone"
    BY <1>11 DEF Announce, Release, GoClose, Open, PlaceInv, OwnerInv, PlaceTypeOK
  <2>1. /\ UNCHANGED <<bound, leaving, members, phase>>
        /\ builder[n] \in {"announce", "release"}
        /\ \/ builder' = builder
           \/ builder' = [builder EXCEPT ![n] = "release"]
           \/ builder' = [builder EXCEPT ![n] = "leave"]
        /\ \/ todo' = [todo EXCEPT ![n] = Players]
           \/ \E p \in Players : todo' = [todo EXCEPT ![n] = @ \ {p}]
    BY <1>11 DEF Announce, Release, Turn, Enters, Goto, roomVars
  <2>2. \A i \in AllRooms :
            /\ builder'[i] = "join" => builder[i] = "join" /\ todo'[i] = todo[i]
            /\ builder'[i] \in {"subscribe", "start", "commit"}
                   => builder[i] \in {"subscribe", "start", "commit"}
    BY <2>1 DEF PlaceInv, OwnerInv, PlaceTypeOK
  <2> QED
    BY <1>1, <2>0, <2>1, <2>2, PlaceKept DEF Alive
<1> QED
  BY <1>2, <1>3, <1>4, <1>5, <1>6, <1>7, <1>8, <1>9, <1>10, <1>11 DEF CreateRematch

\* The team starts in the first room together.
LEMMA PlaceAtFirst == Init => PlaceInv
<1> SUFFICES ASSUME Init PROVE PlaceInv
  OBVIOUS
<1>1. 1 \in AllRooms
  BY RematchAssumption DEF AllRooms
<1>2. LeaveInv /\ JoinInv
  BY DEF Init, LeaveInv, JoinInv, First, Alive
<1>3. TeamStaysTogether
  BY <1>1 DEF Init, First, TeamStaysTogether, Alive
<1> QED
  BY <1>2, <1>3, OwnerAtFirst DEF PlaceInv

\* Every step keeps the team together.
LEMMA StepsKeepPlace == PlaceInv /\ [Next]_vars => PlaceInv'
<1> SUFFICES ASSUME PlaceInv, [Next]_vars PROVE PlaceInv'
  OBVIOUS
<1>1. CASE UNCHANGED vars
  <2>1. OwnerInv'
    BY <1>1, StepsKeepOwner DEF PlaceInv
  <2> QED
    BY <1>1, <2>1 DEF vars, playerVars, roomVars, buildVars, PlaceInv, LeaveInv, JoinInv,
                      TeamStaysTogether, Alive
<1>2. CASE Next
  BY <1>2, RoomStepsKeepPlace, BuilderStepsKeepPlace, RequestKeepsPlace, PlayerStepsKeepPlace
     DEF Next
<1> QED
  BY <1>1, <1>2

\* createRematch, leaveFormerRoom, disconnected and leaveRoom: whoever is still
\* connected is in the same room as the rest of the team, session and room agree
\* on which one it is, and no late departure undoes a move.
THEOREM TeamMovesTogether == Spec => []TeamStaysTogether
<1>1. PlaceInv => TeamStaysTogether
  BY DEF PlaceInv
<1> QED
  BY <1>1, PlaceAtFirst, StepsKeepPlace, PTL DEF Spec

-----------------------------------------------------------------------------
(* What the players are told *)

Messages == [room : AllRooms, nth : Nat]

\* A room whose match has not begun, and one whose MatchFound is not complete.
Unstarted   == {"none", "create", "join", "subscribe", "start"}
Unannounced == Unstarted \cup {"commit", "fail", "reset", "announce"}

\* Types of the variables that hold messages.
MessageTypeOK ==
    /\ channel \in [AllRooms -> Seq(Nat)]
    /\ sinks \in [AllRooms -> SUBSET Players]
    /\ released \in [AllRooms -> SUBSET Players]
    /\ pending \in [AllRooms -> [Players -> Seq(Messages)]]
    /\ heard \in [Players -> Seq(Messages)]

\* The events of a room its dispatcher has handed out.
Dispatched(r) == emitted[r] - Len(channel[r])

LastOf(s) == s[Len(s)]

\* What may come after m on a connection in state c: it is later, and while the
\* connection is open nothing is missing.
Fits(e, m, c) == Later(e, m) /\ (c = "open" => Follows(e, m))

Chained(s, c) == \A k \in 2..Len(s) : Fits(s[k], s[k - 1], c)

\* m is an event of room r, or its MatchFound, among the first d; on an open
\* connection it is the d-th.
UpTo(m, c, r, d) == /\ m.room = r /\ m.nth \in 0..d
                    /\ c = "open" => m = Message(r, d)

\* The channel holds the events that are still to be dispatched, in order.
EventsInv ==
    \A r \in AllRooms :
        /\ Len(channel[r]) <= emitted[r]
        /\ \A i \in 1..Len(channel[r]) : channel[r][i] = Dispatched(r) + i
        /\ builder[r] \in Unstarted => /\ emitted[r] = 0 /\ phase[r] # "playing"
                                       /\ \A p \in Players : pending[r][p] = <<>>

\* No sink is released before every MatchFound has been sent.
SinkInv ==
    \A n \in AllRooms :
        /\ builder[n] \in Unannounced => released[n] = {}
        /\ builder[n] = "release" => released[n] \cap todo[n] = {}

\* What a deferred sink holds are events that have been dispatched, in order.
KeptInv ==
    \A p \in Players, r \in AllRooms :
        /\ Chained(pending[r][p], "closing")
        /\ \A i \in 1..Len(pending[r][p]) : /\ pending[r][p][i].room = r
                                            /\ pending[r][p][i].nth \in 1..Dispatched(r)

\* That of a connection not about to be closed holds all of them.
HeldInv ==
    \A p \in Players, r \in AllRooms : conn[p] = "open" /\ p \in sinks[r] \ released[r] =>
        /\ Len(pending[r][p]) = Dispatched(r)
        /\ \A i \in 1..Dispatched(r) : pending[r][p][i] = Message(r, i)

\* Where a connection that takes messages stands: only the room it is in talks to
\* it directly, and has told it its events up to the one dispatched last;
\* MatchFound comes from a later room.
HeardInv ==
    \A p \in Players : Open(p) =>
        LET last == LastOf(heard[p])
            r    == bound[p]
        IN  /\ heard[p] # <<>> /\ last.room <= r
            /\ builder[r] = "announce" => IF p \in todo[r] THEN last.room < r ELSE last = Message(r, 0)
            /\ builder[r] = "release" /\ p \in todo[r] => last = Message(r, 0)
            /\ \A n \in AllRooms :
                  /\ p \in sinks[n] \cap released[n] => n = r /\ UpTo(last, conn[p], n, Dispatched(n))
                  /\ builder[n] \in {"start", "commit", "announce", "release"} => p \in sinks[n]

MessageInv == /\ PlaceInv /\ MessageTypeOK /\ EventsInv /\ SinkInv /\ KeptInv /\ HeldInv /\ HeardInv
              /\ \A p \in Players : Chained(heard[p], conn[p])

\* What is said by a chain that is not empty is a message.
LEMMA LastIsMessage ==
    ASSUME NEW s \in Seq(Messages), s # <<>>
    PROVE  LastOf(s) \in Messages /\ LastOf(s).room \in Nat /\ LastOf(s).nth \in Nat
<1>1. Len(s) \in 1..Len(s)
  BY LenProperties, EmptySeq
<1>2. LastOf(s) \in Messages
  BY <1>1, ElementOfSeq DEF LastOf
<1> QED
  BY <1>2, RematchAssumption DEF Messages, AllRooms

\* Joining two chains that fit makes a chain.
LEMMA ChainGoesOn ==
    ASSUME NEW s \in Seq(Messages), NEW t \in Seq(Messages), NEW c,
           s # <<>>, Chained(s, c), Chained(t, c), t # <<>> => Fits(t[1], LastOf(s), c)
    PROVE  /\ s \o t \in Seq(Messages) /\ s \o t # <<>> /\ Chained(s \o t, c)
           /\ LastOf(s \o t) = IF t = <<>> THEN LastOf(s) ELSE LastOf(t)
<1>1. /\ s \o t \in Seq(Messages) /\ Len(s \o t) = Len(s) + Len(t)
      /\ \A i \in 1..Len(s) + Len(t) :
            (s \o t)[i] = IF i <= Len(s) THEN s[i] ELSE t[i - Len(s)]
  BY ConcatProperties
<1>2. Len(s) \in Nat \ {0} /\ Len(t) \in Nat /\ (t # <<>> => Len(t) # 0) /\ (t = <<>> => Len(t) = 0)
  BY EmptySeq, LenProperties
<1>3. s \o t # <<>>
  BY <1>1, <1>2, EmptySeq
<1>4. Chained(s \o t, c)
  <2> SUFFICES ASSUME NEW k \in 2..Len(s) + Len(t)
               PROVE  Fits((s \o t)[k], (s \o t)[k - 1], c)
    BY <1>1 DEF Chained
  <2>1. CASE k <= Len(s)
    BY <1>1, <1>2, <2>1 DEF Chained
  <2>2. CASE k = Len(s) + 1
    BY <1>1, <1>2, <2>2 DEF LastOf
  <2>3. CASE k > Len(s) + 1
    <3>1. k - Len(s) \in 2..Len(t) /\ (k - 1) - Len(s) = (k - Len(s)) - 1
      BY <1>2, <2>3
    <3>2. (s \o t)[k] = t[k - Len(s)] /\ (s \o t)[k - 1] = t[(k - Len(s)) - 1]
      BY <1>1, <1>2, <2>3, <3>1
    <3> QED
      BY <3>1, <3>2 DEF Chained
  <2> QED
    BY <1>2, <2>1, <2>2, <2>3
<1>5. LastOf(s \o t) = IF t = <<>> THEN LastOf(s) ELSE LastOf(t)
  <2>1. CASE t = <<>>
    BY <1>1, <1>2, <2>1 DEF LastOf
  <2>2. CASE t # <<>>
    <3>1. Len(s) + Len(t) \in 1..Len(s) + Len(t) /\ ~(Len(s) + Len(t) <= Len(s))
          /\ (Len(s) + Len(t)) - Len(s) = Len(t)
      BY <1>2, <2>2
    <3> QED
      BY <1>1, <2>2, <3>1 DEF LastOf
  <2> QED
    BY <2>1, <2>2
<1> QED
  BY <1>1, <1>3, <1>4, <1>5

\* The steps in which no message is sent, kept or dispatched.
LEMMA MessagesKept ==
    ASSUME MessageInv, PlaceInv', MessageTypeOK', EventsInv', UNCHANGED <<released, pending, heard>>,
           \A r \in AllRooms : Dispatched(r)' = Dispatched(r),
           \A p \in Players : Open(p)' =>
               /\ Open(p) /\ conn'[p] = conn[p] /\ bound'[p] = bound[p]
               /\ \A r \in AllRooms : p \in sinks'[r] <=> p \in sinks[r],
           \A n \in AllRooms :
               /\ builder'[n] \in {"announce", "release"} => builder'[n] = builder[n] /\ todo'[n] = todo[n]
               /\ builder'[n] \in Unannounced => builder[n] \in Unannounced
               /\ builder'[n] \in {"start", "commit"} => builder[n] \in {"start", "commit"}
    PROVE  MessageInv'
<1>1. SinkInv'
  BY DEF MessageInv, SinkInv
<1>2. HeldInv' /\ KeptInv'
  <2>1. \A p \in Players : conn'[p] = "open" => Open(p)'
    BY DEF Open
  <2> QED
    BY <2>1 DEF MessageInv, HeldInv, KeptInv
<1>3. HeardInv'
  <2> SUFFICES ASSUME NEW p \in Players, Open(p)'
               PROVE  LET last == LastOf(heard'[p])
                          r    == bound'[p]
                      IN  /\ heard'[p] # <<>> /\ last.room <= r
                          /\ builder'[r] = "announce" =>
                                IF p \in todo'[r] THEN last.room < r ELSE last = Message(r, 0)
                          /\ builder'[r] = "release" /\ p \in todo'[r] => last = Message(r, 0)
                          /\ \A n \in AllRooms :
                                /\ p \in sinks'[n] \cap released'[n]
                                       => n = r /\ UpTo(last, conn'[p], n, Dispatched(n)')
                                /\ builder'[n] \in {"start", "commit", "announce", "release"}
                                       => p \in sinks'[n]
    BY DEF HeardInv
  <2>1. Open(p) /\ conn'[p] = conn[p] /\ bound'[p] = bound[p] /\ bound[p] \in AllRooms
    BY DEF Open, MessageInv, PlaceInv, TeamStaysTogether, OwnerInv, PlaceTypeOK, AllRooms
  <2> QED
    BY <2>1 DEF MessageInv, HeardInv
<1>4. \A p \in Players : Chained(heard'[p], conn'[p])
  <2> SUFFICES ASSUME NEW p \in Players, NEW k \in 2..Len(heard[p])
               PROVE  Fits(heard[p][k], heard[p][k - 1], conn'[p])
    BY DEF Chained
  <2>1. conn'[p] = "open" => conn[p] = "open"
    BY DEF Open
  <2>2. Fits(heard[p][k], heard[p][k - 1], conn[p])
    BY DEF MessageInv, Chained
  <2> QED
    BY <2>1, <2>2 DEF Fits
<1> QED
  BY <1>1, <1>2, <1>3, <1>4 DEF MessageInv

\* A new event waits in the channel.
LEMMA EmitKeepsMessages ==
    ASSUME MessageInv, PlaceInv', NEW r \in AllRooms, Emit(r)
    PROVE  MessageInv'
<1>1. /\ phase[r] = "playing" /\ UNCHANGED <<conn, bound, sinkVars, builder, todo, heard>>
      /\ emitted' = [emitted EXCEPT ![r] = @ + 1]
      /\ channel' = [channel EXCEPT ![r] = Append(@, emitted[r] + 1)]
      /\ \A n \in AllRooms : phase'[n] = "playing" => phase[n] = "playing"
  BY DEF Emit, playerVars, buildVars, MessageInv, PlaceInv, OwnerInv, PlaceTypeOK
<1>2. /\ emitted[r] \in Nat /\ channel[r] \in Seq(Nat) /\ Len(channel[r]) \in Nat
      /\ emitted' \in [AllRooms -> Nat]
  BY <1>1, LenProperties DEF MessageInv, MessageTypeOK, PlaceInv, OwnerInv, PlaceTypeOK
<1>3. /\ channel'[r] \in Seq(Nat) /\ Len(channel'[r]) = Len(channel[r]) + 1
      /\ \A i \in 1..Len(channel[r]) : channel'[r][i] = channel[r][i]
      /\ channel'[r][Len(channel[r]) + 1] = emitted[r] + 1
  <2>1. channel'[r] = Append(channel[r], emitted[r] + 1)
    BY <1>1 DEF MessageInv, MessageTypeOK
  <2> QED
    BY <1>2, <2>1
<1>4. \A n \in AllRooms : n # r => channel'[n] = channel[n] /\ emitted'[n] = emitted[n]
  BY <1>1 DEF MessageInv, MessageTypeOK, PlaceInv, OwnerInv, PlaceTypeOK
<1>5. emitted'[r] = emitted[r] + 1
  BY <1>1 DEF MessageInv, PlaceInv, OwnerInv, PlaceTypeOK
<1>6. \A n \in AllRooms : Dispatched(n)' = Dispatched(n)
  <2>1. Dispatched(r)' = Dispatched(r)
    <3>1. Len(channel'[r]) = Len(channel[r]) + 1 /\ Len(channel[r]) \in Nat /\ emitted[r] \in Nat
      BY <1>2, <1>3
    <3> QED
      BY <1>5, <3>1 DEF Dispatched
  <2>2. \A n \in AllRooms : n # r => Dispatched(n)' = Dispatched(n)
    BY <1>4 DEF Dispatched
  <2> QED
    BY <2>1, <2>2
<1>7. MessageTypeOK'
  <2>1. channel' \in [AllRooms -> Seq(Nat)]
    BY <1>1, <1>3, <1>4 DEF MessageInv, MessageTypeOK
  <2> QED
    BY <1>1, <2>1 DEF MessageInv, MessageTypeOK, sinkVars
<1>8. EventsInv'
  <2> SUFFICES ASSUME NEW n \in AllRooms
               PROVE  /\ Len(channel'[n]) <= emitted'[n]
                      /\ \A i \in 1..Len(channel'[n]) : channel'[n][i] = Dispatched(n)' + i
                      /\ builder'[n] \in Unstarted => /\ emitted'[n] = 0 /\ phase'[n] # "playing"
                                                      /\ \A p \in Players : pending'[n][p] = <<>>
    BY DEF EventsInv
  <2>1. CASE n = r
    <3>1. builder[r] \notin Unstarted /\ Len(channel[r]) <= emitted[r]
          /\ \A i \in 1..Len(channel[r]) : channel[r][i] = Dispatched(r) + i
      BY <1>1 DEF MessageInv, EventsInv
    <3>2. \A i \in 1..Len(channel'[r]) : channel'[r][i] = Dispatched(r) + i
      <4> SUFFICES ASSUME NEW i \in 1..Len(channel[r]) + 1 PROVE channel'[r][i] = Dispatched(r) + i
        BY <1>3
      <4>1. CASE i = Len(channel[r]) + 1
        BY <1>2, <1>3, <4>1 DEF Dispatched
      <4>2. CASE i \in 1..Len(channel[r])
        BY <1>3, <3>1, <4>2
      <4> QED
        BY <1>2, <4>1, <4>2
    <3> QED
      BY <1>1, <1>2, <1>3, <1>5, <1>6, <2>1, <3>1, <3>2
  <2>2. CASE n # r
    BY <1>1, <1>4, <1>6, <2>2 DEF MessageInv, EventsInv, sinkVars
  <2> QED
    BY <2>1, <2>2
<1> QED
  BY <1>1, <1>6, <1>7, <1>8, MessagesKept DEF Open, sinkVars

\* The channels of rooms that emit and dispatch nothing.
LEMMA EventsKept ==
    ASSUME MessageInv, UNCHANGED <<channel, emitted, pending>>,
           \A n \in AllRooms : /\ builder'[n] \in Unstarted => builder[n] \in Unstarted
                               /\ phase'[n] = "playing" => phase[n] = "playing"
    PROVE  EventsInv' /\ \A n \in AllRooms : Dispatched(n)' = Dispatched(n)
BY DEF MessageInv, EventsInv, Dispatched

\* A connection that ends takes its sink with it, and no other.
LEMMA DisconnectedKeepsMessages ==
    ASSUME MessageInv, PlaceInv', NEW p \in Players, Disconnected(p)
    PROVE  MessageInv'
<1>0. MessageTypeOK /\ PlaceTypeOK
  BY DEF MessageInv, PlaceInv, OwnerInv
<1>1. UNCHANGED <<bound, released, pending, roomVars, builder, todo, heard>>
  BY DEF Disconnected, buildVars
<1>2. \A q \in Players : Open(q)' => Open(q) /\ conn'[q] = conn[q] /\ q # p
  BY <1>0 DEF Disconnected, Open, PlaceTypeOK
<1>3. \/ UNCHANGED sinks
      \/ sinks' = [sinks EXCEPT ![bound[p]] = @ \ {p}]
  BY DEF Disconnected
<1>4. /\ sinks' \in [AllRooms -> SUBSET Players]
      /\ \A n \in AllRooms, q \in Players : q # p => (q \in sinks'[n] <=> q \in sinks[n])
  BY <1>0, <1>3 DEF MessageTypeOK
<1>5. EventsInv' /\ \A n \in AllRooms : Dispatched(n)' = Dispatched(n)
  BY <1>1, EventsKept DEF roomVars
<1>6. MessageTypeOK'
  BY <1>0, <1>1, <1>4 DEF roomVars, MessageTypeOK
<1> QED
  BY <1>1, <1>2, <1>4, <1>5, <1>6, MessagesKept

\* Rooms that close, connections that end and requests say nothing to anybody.
LEMMA OtherStepsKeepMessages ==
    ASSUME MessageInv, PlaceInv',
           \/ \E r \in AllRooms : CloseUnused(r) \/ CloseCongested(r) \/ CloseWatcherRun(r)
           \/ \E p \in Players : \/ Hangup(p) \/ CloseConnection(p) \/ Disconnected(p)
                                 \/ HandleRematchRequest(p)
           \/ \E p \in Players, r \in AllRooms : LeaveRoom(p, r)
    PROVE  MessageInv'
<1>0. MessageTypeOK /\ PlaceTypeOK
  BY DEF MessageInv, PlaceInv, OwnerInv
<1>1. CASE \E r \in AllRooms : CloseUnused(r) \/ CloseCongested(r) \/ CloseWatcherRun(r)
  <2>1. /\ UNCHANGED <<conn, bound, sinkVars, channel, emitted, builder, todo, heard>>
        /\ \A n \in AllRooms : phase'[n] = "playing" => phase[n] = "playing"
    BY <1>0, <1>1 DEF CloseUnused, CloseCongested, Close, CloseWatcherRun, playerVars, buildVars,
                      roomVars, PlaceTypeOK
  <2> QED
    BY <1>0, <2>1, EventsKept, MessagesKept DEF Open, sinkVars, MessageTypeOK
<1>2. CASE \E p \in Players : Hangup(p) \/ CloseConnection(p)
  <2>1. /\ UNCHANGED <<bound, sinkVars, roomVars, builder, todo, heard>>
        /\ \A q \in Players : Open(q)' => Open(q) /\ conn'[q] = conn[q]
    BY <1>0, <1>2 DEF Hangup, CloseConnection, Open, buildVars, PlaceTypeOK
  <2>2. EventsInv' /\ \A n \in AllRooms : Dispatched(n)' = Dispatched(n)
    BY <2>1, EventsKept DEF sinkVars, roomVars
  <2>3. MessageTypeOK'
    BY <1>0, <2>1 DEF sinkVars, roomVars, MessageTypeOK
  <2> QED
    BY <2>1, <2>2, <2>3, MessagesKept DEF sinkVars
<1>3. CASE \E p \in Players : Disconnected(p)
  BY <1>3, DisconnectedKeepsMessages
<1>4. CASE \E p \in Players : HandleRematchRequest(p)
  <2>1. PICK p \in Players : HandleRematchRequest(p)
    BY <1>4
  <2>2. /\ UNCHANGED <<playerVars, sinkVars, roomVars, todo, heard>>
        /\ builder' = [builder EXCEPT ![Cardinality(Made) + 1] = "create"]
        /\ Cardinality(Made) + 1 \in AllRooms /\ builder[Cardinality(Made) + 1] = "none"
    <3>1. /\ Cardinality(Made) + 1 \in AllRooms /\ builder[Cardinality(Made) + 1] = "none"
      BY <2>1, RequestTakesTheNext DEF MessageInv, PlaceInv
    <3> QED
      BY <2>1, <3>1 DEF HandleRematchRequest
  <2>3. \A n \in AllRooms : builder'[n] = builder[n] \/ (builder'[n] = "create" /\ builder[n] = "none")
    BY <1>0, <2>2 DEF PlaceTypeOK
  <2> QED
    BY <1>0, <2>2, <2>3, EventsKept, MessagesKept
       DEF Open, playerVars, sinkVars, roomVars, MessageTypeOK, Unstarted, Unannounced
<1>5. CASE \E p \in Players, r \in AllRooms : LeaveRoom(p, r)
  <2>1. PICK t \in leaving : QueueLeave(t) \/ ApplyLeave(t)
    BY <1>5 DEF LeaveRoom
  <2>2. \A q \in Players : Open(q) => bound'[q] = bound[q]
    BY <1>0, <2>1 DEF Open, QueueLeave, Unbinds, ApplyLeave, MessageInv, PlaceInv, LeaveInv, PlaceTypeOK
  <2>3. UNCHANGED <<conn, sinkVars, phase, channel, emitted, builder, todo, heard>>
    BY <2>1 DEF QueueLeave, ApplyLeave, roomVars, buildVars
  <2> QED
    BY <1>0, <2>2, <2>3, EventsKept, MessagesKept DEF Open, sinkVars, MessageTypeOK
<1> QED
  BY <1>1, <1>2, <1>3, <1>4, <1>5

\* What a builder does before it moves the team, and after it has told it, is
\* not noticed by the players; the opening stage's first event goes into an
\* empty channel.
LEMMA QuietBuilderStepsKeepMessages ==
    ASSUME MessageInv, PlaceInv', NEW n \in AllRooms,
           \/ CreateRoom(n) \/ StartStage(n) \/ LeaveFormer(n) \/ Fail(n) \/ Reset(n)
           \/ \E p \in Players : JoinRoom(n, p)
           \/ Commit(n) /\ builder'[n] = "fail"
    PROVE  MessageInv'
<1>0. MessageTypeOK /\ PlaceTypeOK
  BY DEF MessageInv, PlaceInv, OwnerInv
<1>1. CASE CreateRoom(n)
  <2>1. /\ UNCHANGED <<conn, bound, sinkVars, channel, emitted, heard>>
        /\ builder[n] = "create"
        /\ \/ builder' = [builder EXCEPT ![n] = "join"] \/ builder' = [builder EXCEPT ![n] = "none"]
        /\ \A i \in AllRooms : i # n => todo'[i] = todo[i]
        /\ \A i \in AllRooms : phase'[i] = "playing" => phase[i] = "playing"
    BY <1>0, <1>1 DEF CreateRoom, Enters, Goto, playerVars, PlaceTypeOK
  <2>2. \A i \in AllRooms : i # n => builder'[i] = builder[i]
    BY <1>0, <2>1 DEF PlaceTypeOK
  <2>3. builder'[n] \in {"join", "none"}
    BY <1>0, <2>1 DEF PlaceTypeOK
  <2>4. \A i \in AllRooms :
            /\ builder'[i] \in {"announce", "release"} => builder'[i] = builder[i] /\ todo'[i] = todo[i]
            /\ builder'[i] \in Unannounced => builder[i] \in Unannounced
            /\ builder'[i] \in Unstarted => builder[i] \in Unstarted
            /\ builder'[i] \in {"start", "commit"} => builder[i] \in {"start", "commit"}
    BY <2>1, <2>2, <2>3 DEF Unstarted, Unannounced
  <2> QED
    BY <1>0, <2>1, <2>4, EventsKept, MessagesKept DEF Open, sinkVars, MessageTypeOK
<1>2. CASE \E p \in Players : JoinRoom(n, p)
  <2>1. /\ UNCHANGED <<conn, bound, sinkVars, phase, channel, emitted, heard>>
        /\ builder[n] = "join"
        /\ \/ builder' = [builder EXCEPT ![n] = "subscribe"] \/ builder' = [builder EXCEPT ![n] = "fail"]
           \/ builder' = builder
        /\ \A i \in AllRooms : i # n => todo'[i] = todo[i]
    BY <1>0, <1>2 DEF JoinRoom, Turn, Enters, Goto, playerVars, PlaceTypeOK
  <2>2. \A i \in AllRooms : i # n => builder'[i] = builder[i]
    BY <1>0, <2>1 DEF PlaceTypeOK
  <2>3. builder'[n] \in {"subscribe", "fail", "join"}
    BY <1>0, <2>1 DEF PlaceTypeOK
  <2>4. \A i \in AllRooms :
            /\ builder'[i] \in {"announce", "release"} => builder'[i] = builder[i] /\ todo'[i] = todo[i]
            /\ builder'[i] \in Unannounced => builder[i] \in Unannounced
            /\ builder'[i] \in Unstarted => builder[i] \in Unstarted
            /\ builder'[i] \in {"start", "commit"} => builder[i] \in {"start", "commit"}
    BY <2>1, <2>2, <2>3 DEF Unstarted, Unannounced
  <2> QED
    BY <1>0, <2>1, <2>4, EventsKept, MessagesKept DEF Open, sinkVars, MessageTypeOK
<1>3. CASE LeaveFormer(n) \/ Fail(n) \/ Reset(n) \/ (Commit(n) /\ builder'[n] = "fail")
  <2>1. /\ UNCHANGED <<conn, bound, sinkVars, phase, channel, emitted, heard, todo>>
        /\ \/ builder' = [builder EXCEPT ![n] = "done"]
           \/ /\ builder' = [builder EXCEPT ![n] = "reset"] /\ builder[n] = "fail"
           \/ /\ builder' = [builder EXCEPT ![n] = "fail"] /\ builder[n] = "commit"
    BY <1>0, <1>3 DEF LeaveFormer, Fail, Reset, Commit, Enters, Goto, playerVars, roomVars, sinkVars,
                      PlaceTypeOK
  <2>2. \A i \in AllRooms : \/ builder'[i] = builder[i]
                            \/ builder'[i] = "done"
                            \/ builder'[i] \in {"reset", "fail"} /\ builder[i] \in {"fail", "commit"}
    BY <1>0, <2>1 DEF PlaceTypeOK
  <2>3. \A i \in AllRooms :
            /\ builder'[i] \in Unannounced => builder[i] \in Unannounced
            /\ builder'[i] \in Unstarted => builder[i] \in Unstarted
            /\ builder'[i] \in {"announce", "release", "start", "commit"} => builder'[i] = builder[i]
    BY <2>2 DEF Unstarted, Unannounced
  <2> QED
    BY <1>0, <2>1, <2>3, EventsKept, MessagesKept DEF Open, sinkVars, MessageTypeOK
<1>4. CASE StartStage(n) /\ UNCHANGED <<phase, emitted, channel>>
  <2>1. /\ UNCHANGED <<conn, bound, sinkVars, heard, todo>>
        /\ builder[n] = "start"
        /\ \/ builder' = [builder EXCEPT ![n] = "commit"] \/ builder' = [builder EXCEPT ![n] = "fail"]
    BY <1>4 DEF StartStage, Goto, playerVars
  <2>2. \A i \in AllRooms : builder'[i] = builder[i]
                            \/ (builder'[i] \in {"commit", "fail"} /\ builder[i] = "start")
    BY <1>0, <2>1 DEF PlaceTypeOK
  <2>3. \A i \in AllRooms :
            /\ builder'[i] \in Unannounced => builder[i] \in Unannounced
            /\ builder'[i] \in Unstarted => builder[i] \in Unstarted
            /\ builder'[i] \in {"announce", "release"} => builder'[i] = builder[i]
            /\ builder'[i] \in {"start", "commit"} => builder[i] \in {"start", "commit"}
    BY <2>2 DEF Unstarted, Unannounced
  <2> QED
    BY <1>0, <1>4, <2>1, <2>3, EventsKept, MessagesKept DEF Open, sinkVars, MessageTypeOK
<1>5. CASE StartStage(n) /\ ~UNCHANGED <<phase, emitted, channel>>
  <2>1. /\ UNCHANGED <<conn, bound, sinkVars, heard, todo>>
        /\ builder[n] = "start" /\ builder' = [builder EXCEPT ![n] = "commit"]
        /\ phase' = [phase EXCEPT ![n] = "playing"]
        /\ emitted' = [emitted EXCEPT ![n] = 1] /\ channel' = [channel EXCEPT ![n] = <<1>>]
    BY <1>5 DEF StartStage, Goto, playerVars
  <2>2. \A i \in AllRooms : i # n => /\ builder'[i] = builder[i] /\ phase'[i] = phase[i]
                                     /\ emitted'[i] = emitted[i] /\ channel'[i] = channel[i]
    BY <1>0, <2>1 DEF PlaceTypeOK, MessageTypeOK
  <2>3. builder'[n] = "commit" /\ emitted'[n] = 1 /\ channel'[n] = <<1>> /\ emitted[n] = 0
    BY <1>0, <2>1 DEF PlaceTypeOK, MessageTypeOK, MessageInv, EventsInv, Unstarted
  <2>4. Len(channel[n]) = 0 /\ Len(<<1>>) = 1 /\ <<1>>[1] = 1 /\ <<1>> \in Seq(Nat)
    <3>1. Len(channel[n]) \in Nat /\ Len(channel[n]) <= emitted[n]
      BY <1>0, LenProperties DEF MessageTypeOK, MessageInv, EventsInv
    <3> QED
      BY <2>3, <3>1
  <2>5. \A i \in AllRooms : Dispatched(i)' = Dispatched(i)
    <3>1. Dispatched(n)' = Dispatched(n)
      BY <2>3, <2>4 DEF Dispatched
    <3>2. \A i \in AllRooms : i # n => Dispatched(i)' = Dispatched(i)
      BY <2>2 DEF Dispatched
    <3> QED
      BY <3>1, <3>2
  <2>6. MessageTypeOK'
    <3>1. channel' \in [AllRooms -> Seq(Nat)]
      BY <1>0, <2>1, <2>4 DEF MessageTypeOK
    <3> QED
      BY <1>0, <2>1, <3>1 DEF MessageTypeOK, sinkVars
  <2>7. EventsInv'
    <3> SUFFICES ASSUME NEW i \in AllRooms
                 PROVE  /\ Len(channel'[i]) <= emitted'[i]
                        /\ \A k \in 1..Len(channel'[i]) : channel'[i][k] = Dispatched(i)' + k
                        /\ builder'[i] \in Unstarted => /\ emitted'[i] = 0 /\ phase'[i] # "playing"
                                                        /\ \A p \in Players : pending'[i][p] = <<>>
      BY DEF EventsInv
    <3>1. CASE i = n
      <4>1. Dispatched(n) = 0 /\ builder'[n] \notin Unstarted
        BY <2>3, <2>4 DEF Dispatched, Unstarted
      <4>2. Dispatched(i)' = 0
        BY <2>5, <3>1, <4>1
      <4>3. Len(channel'[i]) = 1 /\ channel'[i][1] = 1 /\ emitted'[i] = 1
        BY <2>3, <2>4, <3>1
      <4> QED
        BY <3>1, <4>1, <4>2, <4>3
    <3>2. CASE i # n
      BY <2>1, <2>2, <2>5, <3>2 DEF MessageInv, EventsInv, sinkVars
    <3> QED
      BY <3>1, <3>2
  <2>8. \A i \in AllRooms :
            /\ builder'[i] \in Unannounced => builder[i] \in Unannounced
            /\ builder'[i] \in {"announce", "release"} => builder'[i] = builder[i]
            /\ builder'[i] \in {"start", "commit"} => builder[i] \in {"start", "commit"}
    BY <2>1, <2>2 DEF Unstarted, Unannounced
  <2> QED
    BY <2>1, <2>5, <2>6, <2>7, <2>8, MessagesKept DEF Open, sinkVars
<1> QED
  BY <1>1, <1>2, <1>3, <1>4, <1>5

\* An open connection's session is in a room.
LEMMA OpenIsBound ==
    ASSUME PlaceInv, NEW p \in Players, Open(p)
    PROVE  bound[p] \in AllRooms /\ bound[p] \in Nat
BY RematchAssumption DEF Open, PlaceInv, TeamStaysTogether, OwnerInv, PlaceTypeOK, AllRooms

\* The new room gets its sinks before it has emitted anything.
LEMMA SubscribeKeepsMessages ==
    ASSUME MessageInv, PlaceInv', NEW n \in AllRooms, Subscribe(n)
    PROVE  MessageInv'
<1>0. MessageTypeOK /\ PlaceTypeOK
  BY DEF MessageInv, PlaceInv, OwnerInv
<1>1. /\ UNCHANGED <<conn, bound, phase, channel, emitted, released, pending, todo, heard>>
      /\ builder[n] = "subscribe" /\ builder' = [builder EXCEPT ![n] = "start"]
      /\ sinks' = [sinks EXCEPT ![n] = Players]
  BY DEF Subscribe, Deferred, Goto, playerVars, roomVars
<1>2. /\ builder'[n] = "start" /\ sinks'[n] = Players
      /\ \A i \in AllRooms : i # n => builder'[i] = builder[i] /\ sinks'[i] = sinks[i]
  BY <1>0, <1>1 DEF PlaceTypeOK, MessageTypeOK
<1>3. /\ released[n] = {} /\ emitted[n] = 0 /\ \A p \in Players : pending[n][p] = <<>>
  BY <1>1 DEF MessageInv, SinkInv, EventsInv, Unannounced, Unstarted
<1>4. Dispatched(n) = 0
  <2>1. Len(channel[n]) \in Nat /\ Len(channel[n]) <= emitted[n]
    BY <1>0, LenProperties DEF MessageTypeOK, MessageInv, EventsInv
  <2> QED
    BY <1>3, <2>1 DEF Dispatched
<1>5. /\ EventsInv' /\ \A i \in AllRooms : Dispatched(i)' = Dispatched(i)
  <2>1. \A i \in AllRooms : builder'[i] \in Unstarted => builder[i] \in Unstarted
    BY <1>1, <1>2 DEF Unstarted
  <2> QED
    BY <1>1, <2>1, EventsKept
<1>6. MessageTypeOK'
  BY <1>0, <1>1 DEF MessageTypeOK
<1>7. SinkInv'
  BY <1>1, <1>2, <1>3 DEF MessageInv, SinkInv, Unannounced
<1>10. KeptInv'
  BY <1>1, <1>5 DEF MessageInv, KeptInv
<1>8. HeldInv'
  <2> SUFFICES ASSUME NEW p \in Players, NEW r \in AllRooms, conn[p] = "open",
                      p \in sinks'[r] \ released[r]
               PROVE  /\ Len(pending[r][p]) = Dispatched(r)
                      /\ \A i \in 1..Dispatched(r) : pending[r][p][i] = Message(r, i)
    BY <1>1, <1>5 DEF HeldInv
  <2>1. CASE r = n
    BY <1>3, <1>4, <2>1
  <2>2. CASE r # n
    BY <1>2, <2>2 DEF MessageInv, HeldInv
  <2> QED
    BY <2>1, <2>2
<1>9. HeardInv'
  <2> SUFFICES ASSUME NEW p \in Players, Open(p)
               PROVE  LET last == LastOf(heard[p])
                          r    == bound[p]
                      IN  /\ heard[p] # <<>> /\ last.room <= r
                          /\ builder'[r] = "announce" =>
                                IF p \in todo[r] THEN last.room < r ELSE last = Message(r, 0)
                          /\ builder'[r] = "release" /\ p \in todo[r] => last = Message(r, 0)
                          /\ \A i \in AllRooms :
                                /\ p \in sinks'[i] \cap released[i]
                                       => i = r /\ UpTo(last, conn[p], i, Dispatched(i))
                                /\ builder'[i] \in {"start", "commit", "announce", "release"}
                                       => p \in sinks'[i]
    BY <1>1, <1>5 DEF Open, HeardInv
  <2>1. bound[p] \in AllRooms
    BY OpenIsBound DEF MessageInv
  <2> QED
    BY <1>1, <1>2, <1>3, <2>1 DEF MessageInv, HeardInv
<1> QED
  BY <1>1, <1>5, <1>6, <1>7, <1>8, <1>10, <1>9 DEF MessageInv

\* The team moves: nothing of the former room reaches it any more, and what the
\* new one emits is kept.
LEMMA CommitKeepsMessages ==
    ASSUME MessageInv, PlaceInv', NEW n \in AllRooms, Commit(n), builder'[n] # "fail"
    PROVE  MessageInv'
<1>0. MessageTypeOK /\ PlaceTypeOK
  BY DEF MessageInv, PlaceInv, OwnerInv
<1> DEFINE old == former[n]
<1>1. /\ UNCHANGED <<conn, phase, channel, emitted, released, pending, heard>>
      /\ builder[n] = "commit" /\ builder' = [builder EXCEPT ![n] = "announce"]
      /\ todo' = [todo EXCEPT ![n] = Players]
      /\ sinks' = [sinks EXCEPT ![old] = {}] /\ bound' = [p \in Players |-> n]
      /\ \A p \in Players : Open(p) /\ bound[p] = old
  BY <1>0 DEF Commit, Enters, Goto, StillThere, roomVars, PlaceTypeOK
<1>2. old < n /\ old \in 0..MaxRooms /\ n \in Nat
  BY <1>0, <1>1 DEF MessageInv, PlaceInv, OwnerInv, BuilderInv, Moving, PlaceTypeOK, AllRooms
<1>3. /\ builder'[n] = "announce" /\ todo'[n] = Players
      /\ \A i \in AllRooms : i # n => builder'[i] = builder[i]
      /\ \A i \in AllRooms : i # n => builder[i] \notin Moving \cup Moved
  <2>1. \A i \in AllRooms : i # n => builder[i] \notin Moving \cup Moved
    BY <1>1, OnlyTheLast DEF MessageInv, PlaceInv, Moving
  <2> QED
    BY <1>0, <1>1, <2>1 DEF PlaceTypeOK
<1>4. /\ \A i \in AllRooms : i # old => sinks'[i] = sinks[i]
      /\ old \in AllRooms => sinks'[old] = {}
  BY <1>0, <1>1 DEF MessageTypeOK
<1>5. /\ EventsInv' /\ \A i \in AllRooms : Dispatched(i)' = Dispatched(i)
  <2>1. \A i \in AllRooms : builder'[i] \in Unstarted => builder[i] \in Unstarted
    BY <1>3 DEF Unstarted
  <2> QED
    BY <1>1, <2>1, EventsKept
<1>6. MessageTypeOK'
  BY <1>0, <1>1 DEF MessageTypeOK
<1>7. SinkInv'
  <2>1. released[n] = {}
    BY <1>1 DEF MessageInv, SinkInv, Unannounced
  <2>2. \A i \in AllRooms : i # n => builder'[i] # "release"
    BY <1>3 DEF Moved
  <2> QED
    BY <1>1, <1>3, <2>1, <2>2 DEF MessageInv, SinkInv
<1>10. KeptInv'
  BY <1>1, <1>5 DEF MessageInv, KeptInv
<1>8. HeldInv'
  BY <1>1, <1>4, <1>5 DEF MessageInv, HeldInv
<1>9. HeardInv'
  <2> SUFFICES ASSUME NEW p \in Players
               PROVE  LET last == LastOf(heard'[p])
                          r    == bound'[p]
                      IN  /\ heard'[p] # <<>> /\ last.room <= r
                          /\ builder'[r] = "announce" =>
                                IF p \in todo'[r] THEN last.room < r ELSE last = Message(r, 0)
                          /\ builder'[r] = "release" /\ p \in todo'[r] => last = Message(r, 0)
                          /\ \A i \in AllRooms :
                                /\ p \in sinks'[i] \cap released'[i]
                                       => i = r /\ UpTo(last, conn'[p], i, Dispatched(i)')
                                /\ builder'[i] \in {"start", "commit", "announce", "release"}
                                       => p \in sinks'[i]
    BY DEF HeardInv
  <2>1. heard[p] # <<>> /\ LastOf(heard[p]).room <= old /\ LastOf(heard[p]).room \in Nat
    <3>1. heard[p] # <<>> /\ LastOf(heard[p]).room <= old
      BY <1>1 DEF MessageInv, HeardInv
    <3>2. heard[p] \in Seq(Messages)
      BY <1>0 DEF MessageTypeOK
    <3> QED
      BY <3>1, <3>2, LastIsMessage
  <2>2. LastOf(heard[p]).room < n /\ LastOf(heard[p]).room <= n
    BY <1>2, <2>1
  <2>3. \A i \in AllRooms : p \notin sinks'[i] \cap released'[i]
    BY <1>1, <1>4 DEF MessageInv, HeardInv
  <2>4. \A i \in AllRooms : builder'[i] \in {"start", "commit", "announce", "release"} => p \in sinks'[i]
    <3>1. \A i \in AllRooms : builder'[i] \in {"start", "commit", "announce", "release"} => i = n
      BY <1>3 DEF Moving, Moved
    <3>2. p \in sinks'[n]
      BY <1>1, <1>2, <1>4 DEF MessageInv, HeardInv
    <3> QED
      BY <3>1, <3>2
  <2>5. bound'[p] = n /\ p \in todo'[n] /\ builder'[n] = "announce" /\ heard'[p] = heard[p]
    BY <1>1, <1>3
  <2> QED
    BY <2>1, <2>2, <2>3, <2>4, <2>5
<1> QED
  BY <1>1, <1>5, <1>6, <1>7, <1>8, <1>10, <1>9 DEF MessageInv

\* Messages are sent one at a time, too.
LEMMA OneMessage ==
    ASSUME NEW e \in Messages, NEW c
    PROVE  /\ <<e>> \in Seq(Messages) /\ <<e>> # <<>> /\ <<e>>[1] = e
           /\ Chained(<<e>>, c) /\ LastOf(<<e>>) = e
<1>1. <<e>> \in Seq(Messages) /\ Len(<<e>>) = 1 /\ <<e>>[1] = e /\ <<e>> # <<>>
  OBVIOUS
<1> QED
  BY <1>1 DEF Chained, LastOf

\* The next turn of a loop over the players.
LEMMA TurnEffect ==
    ASSUME PlaceTypeOK, NEW n \in AllRooms, NEW p \in todo[n], NEW next, Turn(n, p, next)
    PROVE  /\ \A i \in AllRooms : i # n => builder'[i] = builder[i] /\ todo'[i] = todo[i]
           /\ \/ todo[n] = {p} /\ builder'[n] = next /\ todo'[n] = Players
              \/ builder'[n] = builder[n] /\ todo'[n] = todo[n] \ {p}
BY DEF Turn, Enters, Goto, PlaceTypeOK

\* While MatchFound is being sent no room talks to the players.
LEMMA AnnounceKeepsMessages ==
    ASSUME MessageInv, PlaceInv', NEW n \in AllRooms, NEW p \in Players, Announce(n, p)
    PROVE  MessageInv'
<1>0. MessageTypeOK /\ PlaceTypeOK
  BY DEF MessageInv, PlaceInv, OwnerInv
<1>1. /\ UNCHANGED <<bound, phase, channel, emitted, sinks, released, pending>>
      /\ builder[n] = "announce" /\ p \in todo[n] /\ Turn(n, p, "release")
      /\ \/ /\ heard' = [heard EXCEPT ![p] = Sent(p, <<Message(n, 0)>>)]
            /\ conn' = conn
         \/ /\ conn' = [conn EXCEPT ![p] = "closing"]
            /\ heard' = heard
  BY DEF Announce, roomVars, sinkVars
<1>2. /\ \A i \in AllRooms : i # n => builder'[i] = builder[i] /\ todo'[i] = todo[i]
      /\ \/ todo[n] = {p} /\ builder'[n] = "release" /\ todo'[n] = Players
         \/ builder'[n] = "announce" /\ todo'[n] = todo[n] \ {p}
  BY <1>0, <1>1, TurnEffect
<1>3. released[n] = {} /\ n \in Nat
  BY <1>1, RematchAssumption DEF MessageInv, SinkInv, Unannounced, AllRooms
<1>4. \A q \in Players : Open(q) =>
          /\ bound[q] = n /\ heard[q] # <<>> /\ LastOf(heard[q]).room <= n
          /\ IF q \in todo[n] THEN LastOf(heard[q]).room < n ELSE LastOf(heard[q]) = Message(n, 0)
          /\ \A i \in AllRooms : /\ q \notin sinks[i] \cap released[i]
                                 /\ builder[i] \in {"start", "commit", "announce", "release"} => q \in sinks[i]
  <2>1. \A q \in Players : Open(q) => bound[q] = n
    BY <1>1, OpenIsBound, RematchAssumption
       DEF MessageInv, PlaceInv, OwnerInv, BuilderInv, Moved, AllRooms
  <2> QED
    BY <1>1, <1>3, <2>1 DEF MessageInv, HeardInv
<1>5. /\ EventsInv' /\ \A i \in AllRooms : Dispatched(i)' = Dispatched(i)
  <2>1. \A i \in AllRooms : builder'[i] \in Unstarted => builder[i] \in Unstarted
    BY <1>1, <1>2 DEF Unstarted
  <2> QED
    BY <1>1, <2>1, EventsKept
<1>6. SinkInv'
  <2>1. \A i \in AllRooms : builder'[i] \in Unannounced => builder[i] \in Unannounced
    BY <1>1, <1>2 DEF Unannounced
  <2> QED
    BY <1>1, <1>2, <1>3, <2>1 DEF MessageInv, SinkInv
<1>7. KeptInv' /\ HeldInv'
  <2>1. \A q \in Players : conn'[q] = "open" => conn[q] = "open"
    BY <1>0, <1>1 DEF PlaceTypeOK
  <2> QED
    BY <1>1, <1>5, <2>1 DEF MessageInv, KeptInv, HeldInv
<1>8. Open(p)' =>
          /\ Open(p) /\ conn' = conn
          /\ heard'[p] \in Seq(Messages) /\ heard'[p] # <<>> /\ Chained(heard'[p], conn[p])
          /\ LastOf(heard'[p]) = Message(n, 0)
  <2> SUFFICES ASSUME Open(p)'
               PROVE  /\ Open(p) /\ conn' = conn
                      /\ heard'[p] \in Seq(Messages) /\ heard'[p] # <<>> /\ Chained(heard'[p], conn[p])
                      /\ LastOf(heard'[p]) = Message(n, 0)
    OBVIOUS
  <2> DEFINE e == Message(n, 0)
  <2>0. conn' = conn /\ Open(p) /\ heard' = [heard EXCEPT ![p] = Sent(p, <<e>>)]
    BY <1>0, <1>1 DEF Open, PlaceTypeOK
  <2>1. heard'[p] = heard[p] \o <<e>>
    BY <1>0, <2>0 DEF MessageTypeOK, Sent
  <2>2. e \in Messages /\ e.room = n /\ e.nth = 0
    BY DEF Messages, Message
  <2>3. Fits(e, LastOf(heard[p]), conn[p])
    <3>1. LastOf(heard[p]).room < n
      BY <1>1, <1>4, <2>0
    <3>2. LastOf(heard[p]).room \in Nat
      BY <1>0, <1>4, <2>0, LastIsMessage DEF MessageTypeOK
    <3> QED
      BY <1>3, <2>2, <3>1, <3>2 DEF Fits, Follows, Later
  <2>4. heard[p] \in Seq(Messages) /\ heard[p] # <<>> /\ Chained(heard[p], conn[p])
    BY <1>0, <1>4, <2>0 DEF MessageTypeOK, MessageInv
  <2> HIDE DEF e
  <2>5. /\ <<e>> \in Seq(Messages) /\ <<e>> # <<>> /\ <<e>>[1] = e
        /\ Chained(<<e>>, conn[p]) /\ LastOf(<<e>>) = e
    BY <2>2, OneMessage
  <2>6. /\ heard[p] \o <<e>> \in Seq(Messages) /\ heard[p] \o <<e>> # <<>>
        /\ Chained(heard[p] \o <<e>>, conn[p]) /\ LastOf(heard[p] \o <<e>>) = LastOf(<<e>>)
    BY <2>3, <2>4, <2>5, ChainGoesOn
  <2> QED
    BY <2>0, <2>1, <2>5, <2>6 DEF e
<1>9. /\ \A q \in Players : q # p => heard'[q] = heard[q] /\ conn'[q] = conn[q]
      /\ ~Open(p)' => heard'[p] = heard[p] /\ conn'[p] # "open"
      /\ heard' \in [Players -> Seq(Messages)]
  <2>1. \A q \in Players : q # p => heard'[q] = heard[q] /\ conn'[q] = conn[q]
    BY <1>0, <1>1 DEF MessageTypeOK, PlaceTypeOK
  <2>2. ~Open(p)' => heard'[p] = heard[p] /\ conn'[p] # "open"
    <3> SUFFICES ASSUME ~Open(p)' PROVE heard'[p] = heard[p] /\ conn'[p] # "open"
      OBVIOUS
    <3>1. conn'[p] # "open"
      BY DEF Open
    <3>2. CASE heard' = heard
      BY <3>1, <3>2
    <3>3. CASE conn' = conn /\ heard' = [heard EXCEPT ![p] = Sent(p, <<Message(n, 0)>>)]
      <4>1. ~Open(p)
        BY <3>3 DEF Open
      <4> QED
        BY <1>0, <3>1, <3>3, <4>1 DEF MessageTypeOK, Sent
    <3> QED
      BY <1>1, <3>2, <3>3
  <2>3. heard' \in [Players -> Seq(Messages)]
    <3>1. heard'[p] \in Seq(Messages)
      BY <1>0, <1>8, <2>2 DEF MessageTypeOK
    <3> QED
      BY <1>0, <1>1, <3>1 DEF MessageTypeOK
  <2> QED
    BY <2>1, <2>2, <2>3
<1>10. MessageTypeOK'
  BY <1>0, <1>1, <1>9 DEF MessageTypeOK
<1>11. HeardInv'
  <2> SUFFICES ASSUME NEW q \in Players, Open(q)'
               PROVE  LET last == LastOf(heard'[q])
                      IN  /\ heard'[q] # <<>> /\ last.room <= n
                          /\ builder'[n] = "announce" =>
                                IF q \in todo'[n] THEN last.room < n ELSE last = Message(n, 0)
                          /\ builder'[n] = "release" /\ q \in todo'[n] => last = Message(n, 0)
                          /\ \A i \in AllRooms :
                                /\ q \notin sinks[i] \cap released[i]
                                /\ builder'[i] \in {"start", "commit", "announce", "release"} => q \in sinks[i]
    <3>1. \A x \in Players : Open(x)' => Open(x)
      BY <1>8, <1>9 DEF Open
    <3> QED
      BY <1>1, <1>4, <1>5, <3>1 DEF HeardInv
  <2>0. Open(q)
    BY <1>8, <1>9 DEF Open
  <2>1. \A i \in AllRooms : builder'[i] \in {"start", "commit", "announce", "release"}
                                => builder[i] \in {"start", "commit", "announce", "release"}
    BY <1>1, <1>2
  <2>2. CASE q = p
    BY <1>2, <1>3, <1>4, <1>8, <2>0, <2>1, <2>2 DEF Message
  <2>3. CASE q # p
    BY <1>2, <1>4, <1>9, <2>0, <2>1, <2>3
  <2> QED
    BY <2>2, <2>3
<1>12. \A q \in Players : Chained(heard'[q], conn'[q])
  <2> SUFFICES ASSUME NEW q \in Players PROVE Chained(heard'[q], conn'[q])
    OBVIOUS
  <2>1. CASE q # p
    BY <1>9, <2>1 DEF MessageInv
  <2>2. CASE q = p /\ Open(p)'
    BY <1>8, <2>2
  <2>3. CASE q = p /\ ~Open(p)'
    BY <1>9, <2>3 DEF MessageInv, Chained, Fits
  <2> QED
    BY <2>1, <2>2, <2>3
<1> QED
  BY <1>1, <1>5, <1>6, <1>7, <1>10, <1>11, <1>12 DEF MessageInv

\* A sink that is released hands over what it has kept, right after MatchFound.
LEMMA ReleaseKeepsMessages ==
    ASSUME MessageInv, PlaceInv', NEW n \in AllRooms, NEW p \in Players, Release(n, p)
    PROVE  MessageInv'
<1>0. MessageTypeOK /\ PlaceTypeOK
  BY DEF MessageInv, PlaceInv, OwnerInv
<1> PICK k \in 0..Len(pending[n][p]) :
        /\ heard' = [heard EXCEPT ![p] = Sent(p, SubSeq(pending[n][p], 1, k))]
        /\ GoClose(IF k = Len(pending[n][p]) THEN {} ELSE {p})
  BY DEF Release
<1>1. /\ UNCHANGED <<bound, phase, channel, emitted, sinks>>
      /\ builder[n] = "release" /\ p \in todo[n] /\ Turn(n, p, "leave")
      /\ heard' = [heard EXCEPT ![p] = Sent(p, SubSeq(pending[n][p], 1, k))]
      /\ pending' = [pending EXCEPT ![n][p] = <<>>]
      /\ released' = [released EXCEPT ![n] = @ \cup {p}]
  BY DEF Release, roomVars
<1>1a. /\ \A q \in Players : q # p => conn'[q] = conn[q]
       /\ \A q \in Players : Open(q)' <=> Open(q)
       /\ \A q \in Players : conn'[q] = "open" => conn[q] = "open"
       /\ conn'[p] = "open" => k = Len(pending[n][p])
  BY <1>0 DEF GoClose, Open, PlaceTypeOK
<1>2. /\ \A i \in AllRooms : i # n => builder'[i] = builder[i] /\ todo'[i] = todo[i]
      /\ \/ builder'[n] = "leave"
         \/ builder'[n] = "release" /\ todo'[n] = todo[n] \ {p}
  BY <1>0, <1>1, TurnEffect
<1>3. /\ released[n] \cap todo[n] = {} /\ p \notin released[n]
      /\ released'[n] = released[n] \cup {p}
      /\ \A i \in AllRooms : i # n => released'[i] = released[i]
  BY <1>0, <1>1 DEF MessageInv, SinkInv, MessageTypeOK
<1>4. \A q \in Players : Open(q) => bound[q] = n
  BY <1>1, OpenIsBound, RematchAssumption
     DEF MessageInv, PlaceInv, OwnerInv, BuilderInv, Moved, AllRooms
<1>5. /\ EventsInv' /\ \A i \in AllRooms : Dispatched(i)' = Dispatched(i)
  <2>1. \A i \in AllRooms : Dispatched(i)' = Dispatched(i)
    BY <1>1 DEF Dispatched
  <2>2. \A i \in AllRooms : builder'[i] \in Unstarted => builder[i] \in Unstarted /\ i # n
    BY <1>1, <1>2 DEF Unstarted
  <2>3. \A i \in AllRooms : i # n => pending'[i] = pending[i]
    BY <1>0, <1>1 DEF MessageTypeOK
  <2> QED
    BY <1>1, <2>1, <2>2, <2>3 DEF MessageInv, EventsInv
<1>6. SinkInv'
  <2> SUFFICES ASSUME NEW i \in AllRooms
               PROVE  /\ builder'[i] \in Unannounced => released'[i] = {}
                      /\ builder'[i] = "release" => released'[i] \cap todo'[i] = {}
    BY DEF SinkInv
  <2>1. CASE i = n
    BY <1>2, <1>3, <2>1 DEF Unannounced, Unstarted
  <2>2. CASE i # n
    BY <1>2, <1>3, <2>2 DEF MessageInv, SinkInv
  <2> QED
    BY <2>1, <2>2
<1>7. HeldInv'
  <2> SUFFICES ASSUME NEW q \in Players, NEW r \in AllRooms, conn'[q] = "open",
                      q \in sinks[r] \ released'[r]
               PROVE  /\ Len(pending'[r][q]) = Dispatched(r)
                      /\ \A i \in 1..Dispatched(r) : pending'[r][q][i] = Message(r, i)
    BY <1>1, <1>5 DEF HeldInv
  <2>1. q # p \/ r # n
    BY <1>3
  <2>2. pending'[r][q] = pending[r][q]
    BY <1>0, <1>1, <2>1 DEF MessageTypeOK
  <2>3. q \notin released[r]
    BY <1>3
  <2> QED
    BY <1>1a, <2>2, <2>3 DEF MessageInv, HeldInv
<1>8. Open(p) =>
          /\ heard'[p] \in Seq(Messages) /\ heard'[p] # <<>> /\ Chained(heard'[p], conn'[p])
          /\ UpTo(LastOf(heard'[p]), conn'[p], n, Dispatched(n))
  <2> SUFFICES ASSUME Open(p)
               PROVE  /\ heard'[p] \in Seq(Messages) /\ heard'[p] # <<>>
                      /\ Chained(heard'[p], conn'[p])
                      /\ UpTo(LastOf(heard'[p]), conn'[p], n, Dispatched(n))
    OBVIOUS
  <2> DEFINE all == pending[n][p]
             t   == SubSeq(all, 1, k)
             d   == Dispatched(n)
             c   == conn'[p]
  <2>1. heard'[p] = heard[p] \o t
    BY <1>0, <1>1 DEF MessageTypeOK, Sent
  <2>2. /\ heard[p] \in Seq(Messages) /\ heard[p] # <<>> /\ Chained(heard[p], c)
        /\ LastOf(heard[p]) = Message(n, 0) /\ p \in sinks[n]
    <3>1. Chained(heard[p], c)
      BY <1>1a DEF MessageInv, Chained, Fits
    <3> QED
      BY <1>0, <1>1, <1>4, <3>1 DEF MessageTypeOK, MessageInv, HeardInv
  <2>3. /\ all \in Seq(Messages) /\ Len(all) \in Nat /\ d \in Nat /\ k \in 0..Len(all)
        /\ Chained(all, "closing")
        /\ \A i \in 1..Len(all) : all[i].room = n /\ all[i].nth \in 1..d
    <3>1. all \in Seq(Messages) /\ Len(all) \in Nat
      BY <1>0, LenProperties DEF MessageTypeOK
    <3>2. d \in Nat
      <4>1. emitted[n] \in Nat /\ Len(channel[n]) \in Nat /\ Len(channel[n]) <= emitted[n]
        BY <1>0, LenProperties DEF PlaceTypeOK, MessageTypeOK, MessageInv, EventsInv
      <4> QED
        BY <4>1 DEF Dispatched
    <3> QED
      BY <3>1, <3>2 DEF MessageInv, KeptInv
  <2>4. c = "open" => k = d /\ k = Len(all) /\ \A i \in 1..d : all[i] = Message(n, i)
    BY <1>1a, <1>3, <2>2 DEF MessageInv, HeldInv
  <2> HIDE DEF all, d, c
  <2>5. t \in Seq(Messages) /\ Len(t) = k /\ k \in Nat /\ \A i \in 1..k : t[i] = all[i]
    BY <2>3, SubSeqProperties
  <2> HIDE DEF t
  <2>6. Chained(t, c)
    <3> SUFFICES ASSUME NEW i \in 2..k PROVE Fits(t[i], t[i - 1], c)
      BY <2>5 DEF Chained
    <3>1. i \in 2..Len(all) /\ i \in 1..k /\ i - 1 \in 1..k
      BY <2>3, <2>5
    <3>2. t[i] = all[i] /\ t[i - 1] = all[i - 1]
      BY <2>5, <3>1
    <3>3. Later(t[i], t[i - 1])
      BY <2>3, <3>1, <3>2 DEF Chained, Fits
    <3>4. c = "open" => Follows(t[i], t[i - 1])
      <4> SUFFICES ASSUME c = "open" PROVE Follows(t[i], t[i - 1])
        OBVIOUS
      <4>1. t[i] = Message(n, i) /\ t[i - 1] = Message(n, i - 1)
        BY <2>4, <3>1, <3>2
      <4> QED
        BY <2>5, <4>1 DEF Follows, Later, Message
    <3> QED
      BY <3>3, <3>4 DEF Fits
  <2>7. t # <<>> => Fits(t[1], LastOf(heard[p]), c) /\ UpTo(LastOf(t), c, n, d)
    <3> SUFFICES ASSUME t # <<>>
                 PROVE  Fits(t[1], LastOf(heard[p]), c) /\ UpTo(LastOf(t), c, n, d)
      OBVIOUS
    <3>1. k # 0 /\ 1 \in 1..k /\ k \in 1..k /\ 1 \in 1..Len(all) /\ k \in 1..Len(all)
      BY <2>3, <2>5, EmptySeq
    <3>2. /\ t[1].room = n /\ t[1].nth \in 1..d /\ LastOf(t) = all[k]
          /\ LastOf(t).room = n /\ LastOf(t).nth \in 1..d
      BY <2>3, <2>5, <3>1 DEF LastOf
    <3>3. c = "open" => t[1] = Message(n, 1) /\ LastOf(t) = Message(n, d)
      BY <2>4, <2>5, <3>1, <3>2
    <3>4. Fits(t[1], LastOf(heard[p]), c)
      BY <2>2, <2>3, <3>2, <3>3 DEF Fits, Follows, Later, Message
    <3> QED
      BY <2>3, <3>2, <3>3, <3>4 DEF UpTo
  <2>8. t = <<>> => UpTo(LastOf(heard[p]), c, n, d)
    <3>1. t = <<>> => k = 0
      BY <2>5
    <3> QED
      BY <2>2, <2>3, <2>4, <3>1 DEF UpTo, Message
  <2>9. /\ heard[p] \o t \in Seq(Messages) /\ heard[p] \o t # <<>> /\ Chained(heard[p] \o t, c)
        /\ LastOf(heard[p] \o t) = IF t = <<>> THEN LastOf(heard[p]) ELSE LastOf(t)
    BY <2>2, <2>5, <2>6, <2>7, ChainGoesOn
  <2> QED
    BY <2>1, <2>7, <2>8, <2>9 DEF d, c
<1>9. \A q \in Players : q # p \/ ~Open(p) => heard'[q] = heard[q]
  BY <1>0, <1>1 DEF MessageTypeOK, Sent
<1>10. MessageTypeOK'
  <2>1. heard' \in [Players -> Seq(Messages)]
    <3>1. heard'[p] \in Seq(Messages)
      BY <1>0, <1>8, <1>9 DEF MessageTypeOK
    <3> QED
      BY <1>0, <1>1, <3>1 DEF MessageTypeOK
  <2>2. pending' \in [AllRooms -> [Players -> Seq(Messages)]]
    BY <1>0, <1>1, EmptySeq DEF MessageTypeOK
  <2> QED
    BY <1>0, <1>1, <2>1, <2>2 DEF MessageTypeOK
<1>11. HeardInv'
  <2> SUFFICES ASSUME NEW q \in Players, Open(q)
               PROVE  LET last == LastOf(heard'[q])
                      IN  /\ heard'[q] # <<>> /\ last.room <= n
                          /\ builder'[n] # "announce"
                          /\ builder'[n] = "release" /\ q \in todo'[n] => last = Message(n, 0)
                          /\ \A i \in AllRooms :
                                /\ q \in sinks[i] \cap released'[i] => i = n /\ UpTo(last, conn'[q], i, Dispatched(i))
                                /\ builder'[i] \in {"start", "commit", "announce", "release"} => q \in sinks[i]
    BY <1>1, <1>1a, <1>4, <1>5 DEF HeardInv
  <2>1. /\ \A i \in AllRooms : builder'[i] \in {"start", "commit", "announce", "release"}
                                   => builder[i] \in {"start", "commit", "announce", "release"}
        /\ bound[q] = n /\ n \in Nat
    BY <1>1, <1>2, <1>4, RematchAssumption DEF AllRooms
  <2>2. CASE q = p
    <3>1. \A i \in AllRooms : q \in sinks[i] \cap released'[i] => i = n
      BY <1>3, <2>1 DEF MessageInv, HeardInv
    <3>2. \A i \in AllRooms : builder'[i] \in {"start", "commit", "announce", "release"} => q \in sinks[i]
      BY <2>1 DEF MessageInv, HeardInv
    <3>3. /\ heard'[q] # <<>> /\ UpTo(LastOf(heard'[q]), conn'[q], n, Dispatched(n))
          /\ LastOf(heard'[q]).room <= n
      BY <1>8, <2>1, <2>2 DEF UpTo
    <3>4. builder'[n] = "release" => q \notin todo'[n]
      BY <1>2, <2>2
    <3> QED
      BY <1>2, <3>1, <3>2, <3>3, <3>4
  <2>3. CASE q # p
    <3>1. heard'[q] = heard[q] /\ \A i \in AllRooms : q \in released'[i] <=> q \in released[i]
      BY <1>3, <1>9, <2>3
    <3>2. builder'[n] = "release" /\ q \in todo'[n] => q \in todo[n]
      BY <1>2
    <3> QED
      BY <1>1, <1>1a, <1>2, <2>1, <2>3, <3>1, <3>2 DEF MessageInv, HeardInv
  <2> QED
    BY <2>2, <2>3
<1>12. \A q \in Players : Chained(heard'[q], conn'[q])
  <2> SUFFICES ASSUME NEW q \in Players, q # p \/ ~Open(p) PROVE Chained(heard'[q], conn'[q])
    BY <1>8
  <2> QED
    BY <1>1a, <1>9 DEF MessageInv, Chained, Fits
<1>13. KeptInv'
  <2>1. \A r \in AllRooms, q \in Players :
            pending'[r][q] = IF r = n /\ q = p THEN <<>> ELSE pending[r][q]
    BY <1>0, <1>1 DEF MessageTypeOK
  <2>2. Len(<<>>) = 0 /\ Chained(<<>>, "closing")
    BY DEF Chained
  <2> QED
    BY <1>5, <2>1, <2>2 DEF MessageInv, KeptInv
<1> QED
  BY <1>1, <1>5, <1>6, <1>7, <1>10, <1>11, <1>12, <1>13 DEF MessageInv

\* A dispatched event goes to the players of the room, or is kept with those
\* before it.
LEMMA DispatchKeepsMessages ==
    ASSUME MessageInv, PlaceInv', NEW r \in AllRooms, Dispatch(r)
    PROVE  MessageInv'
<1>0. MessageTypeOK /\ PlaceTypeOK
  BY DEF MessageInv, PlaceInv, OwnerInv
<1> DEFINE e == Message(r, Head(channel[r]))
           d == Dispatched(r)
           full == {p \in sinks[r] : Overflows(r, p)}
<1> PICK refused \in SUBSET (sinks[r] \cap released[r] \cap Leavers) :
        /\ heard' = [p \in Players |-> IF p \in (sinks[r] \cap released[r]) \ refused
                                       THEN Sent(p, <<e>>) ELSE heard[p]]
        /\ GoClose(refused \cup full)
  BY DEF Dispatch
<1>1. /\ UNCHANGED <<bound, phase, emitted, sinks, released, builder, todo>>
      /\ channel[r] # <<>> /\ channel' = [channel EXCEPT ![r] = Tail(@)]
      /\ heard' = [p \in Players |-> IF p \in (sinks[r] \cap released[r]) \ refused
                                     THEN Sent(p, <<e>>) ELSE heard[p]]
      /\ pending' = [pending EXCEPT ![r] =
             [p \in Players |-> IF p \in sinks[r] \ released[r] /\ ~Overflows(r, p)
                                THEN Append(@[p], e) ELSE @[p]]]
  BY DEF Dispatch, buildVars
<1>2. /\ channel[r] \in Seq(Nat) /\ Len(channel[r]) \in Nat \ {0} /\ emitted[r] \in Nat
      /\ Len(channel[r]) <= emitted[r] /\ channel[r][1] = d + 1 /\ d \in Nat
      /\ \A i \in 1..Len(channel[r]) : channel[r][i] = d + i
  <2>1. channel[r] \in Seq(Nat) /\ Len(channel[r]) \in Nat \ {0} /\ emitted[r] \in Nat
    BY <1>0, <1>1, LenProperties, EmptySeq DEF MessageTypeOK, PlaceTypeOK
  <2>2. Len(channel[r]) <= emitted[r] /\ \A i \in 1..Len(channel[r]) : channel[r][i] = d + i
    BY DEF MessageInv, EventsInv
  <2> QED
    BY <2>1, <2>2 DEF Dispatched
<1>3. /\ channel'[r] \in Seq(Nat) /\ Len(channel'[r]) = Len(channel[r]) - 1
      /\ \A i \in 1..Len(channel'[r]) : channel'[r][i] = channel[r][i + 1]
      /\ Head(channel[r]) = channel[r][1]
      /\ \A n \in AllRooms : n # r => channel'[n] = channel[n]
  <2>1. channel'[r] = Tail(channel[r]) /\ \A n \in AllRooms : n # r => channel'[n] = channel[n]
    BY <1>0, <1>1 DEF MessageTypeOK
  <2>2. Head(channel[r]) = channel[r][1]
    BY <1>1, <1>2
  <2>3. /\ Tail(channel[r]) \in Seq(Nat) /\ Len(Tail(channel[r])) = Len(channel[r]) - 1
        /\ \A i \in 1..Len(Tail(channel[r])) : Tail(channel[r])[i] = channel[r][i + 1]
    BY <1>1, <1>2, HeadTailProperties
  <2> QED
    BY <2>1, <2>2, <2>3
<1>4. /\ Dispatched(r)' = d + 1
      /\ \A n \in AllRooms : n # r => Dispatched(n)' = Dispatched(n)
  BY <1>1, <1>2, <1>3 DEF Dispatched
<1>5. e = Message(r, d + 1) /\ e \in Messages /\ builder[r] \notin Unstarted
  <2>1. e = Message(r, d + 1) /\ e \in Messages
    BY <1>2, <1>3 DEF Message, Messages
  <2>2. emitted[r] # 0
    BY <1>2
  <2> QED
    BY <2>1, <2>2 DEF MessageInv, EventsInv
<1>6. /\ \A p \in Players : conn'[p] = "open" =>
            conn[p] = "open" /\ p \notin refused /\ ~(p \in sinks[r] /\ Overflows(r, p))
      /\ \A p \in Players : Open(p)' <=> Open(p)
  BY <1>0 DEF GoClose, Open, PlaceTypeOK
<1> HIDE DEF e, d, full
<1>7. /\ \A n \in AllRooms, p \in Players :
            pending'[n][p] = IF n = r /\ p \in sinks[r] \ released[r] /\ ~Overflows(r, p)
                             THEN Append(pending[r][p], e) ELSE pending[n][p]
      /\ pending' \in [AllRooms -> [Players -> Seq(Messages)]]
  <2>1. \A p \in Players : pending[r][p] \in Seq(Messages) /\ Append(pending[r][p], e) \in Seq(Messages)
    BY <1>0, <1>5 DEF MessageTypeOK
  <2>2. [p \in Players |-> IF p \in sinks[r] \ released[r] /\ ~Overflows(r, p)
                           THEN Append(pending[r][p], e) ELSE pending[r][p]] \in [Players -> Seq(Messages)]
    BY <2>1
  <2>3. pending' = [pending EXCEPT ![r] =
             [p \in Players |-> IF p \in sinks[r] \ released[r] /\ ~Overflows(r, p)
                                THEN Append(pending[r][p], e) ELSE pending[r][p]]]
    BY <1>0, <1>1 DEF MessageTypeOK
  <2> QED
    BY <1>0, <2>2, <2>3 DEF MessageTypeOK
<1>8. \A p \in Players : Open(p) /\ p \in (sinks[r] \cap released[r]) \ refused =>
          /\ heard'[p] \in Seq(Messages) /\ heard'[p] # <<>> /\ Chained(heard'[p], conn'[p])
          /\ LastOf(heard'[p]) = e /\ bound[p] = r
  <2> SUFFICES ASSUME NEW p \in Players, Open(p), p \in (sinks[r] \cap released[r]) \ refused
               PROVE  /\ heard'[p] \in Seq(Messages) /\ heard'[p] # <<>>
                      /\ Chained(heard'[p], conn'[p])
                      /\ LastOf(heard'[p]) = e /\ bound[p] = r
    OBVIOUS
  <2> DEFINE c == conn'[p]
  <2>1. heard'[p] = heard[p] \o <<e>>
    BY <1>1 DEF Sent
  <2>2. /\ heard[p] \in Seq(Messages) /\ heard[p] # <<>> /\ Chained(heard[p], c)
        /\ UpTo(LastOf(heard[p]), c, r, d) /\ bound[p] = r
    <3>1. UpTo(LastOf(heard[p]), conn[p], r, d) /\ bound[p] = r /\ heard[p] # <<>>
      BY DEF MessageInv, HeardInv, d
    <3>2. Chained(heard[p], c) /\ UpTo(LastOf(heard[p]), c, r, d)
      BY <1>6, <3>1 DEF MessageInv, Chained, Fits, UpTo
    <3> QED
      BY <1>0, <3>1, <3>2 DEF MessageTypeOK
  <2> HIDE DEF c
  <2>3. Fits(e, LastOf(heard[p]), c)
    BY <1>2, <1>5, <2>2 DEF Fits, Follows, Later, UpTo, Message, d
  <2>4. /\ <<e>> \in Seq(Messages) /\ <<e>> # <<>> /\ <<e>>[1] = e
        /\ Chained(<<e>>, c) /\ LastOf(<<e>>) = e
    BY <1>5, OneMessage
  <2>5. /\ heard[p] \o <<e>> \in Seq(Messages) /\ heard[p] \o <<e>> # <<>>
        /\ Chained(heard[p] \o <<e>>, c) /\ LastOf(heard[p] \o <<e>>) = LastOf(<<e>>)
    BY <2>2, <2>3, <2>4, ChainGoesOn
  <2> QED
    BY <2>1, <2>2, <2>4, <2>5 DEF c
<1>9. \A p \in Players : ~(Open(p) /\ p \in (sinks[r] \cap released[r]) \ refused)
          => heard'[p] = heard[p]
  BY <1>1 DEF Sent
<1>10. MessageTypeOK'
  <2>1. heard' \in [Players -> Seq(Messages)]
    BY <1>0, <1>1, <1>8, <1>9 DEF MessageTypeOK
  <2>2. channel' \in [AllRooms -> Seq(Nat)]
    BY <1>0, <1>1, <1>3 DEF MessageTypeOK
  <2> QED
    BY <1>0, <1>1, <1>7, <2>1, <2>2 DEF MessageTypeOK
<1>11. EventsInv'
  <2> SUFFICES ASSUME NEW n \in AllRooms
               PROVE  /\ Len(channel'[n]) <= emitted[n]
                      /\ \A i \in 1..Len(channel'[n]) : channel'[n][i] = Dispatched(n)' + i
                      /\ builder[n] \in Unstarted => /\ emitted[n] = 0 /\ phase[n] # "playing"
                                                     /\ \A p \in Players : pending'[n][p] = <<>>
    BY <1>1 DEF EventsInv
  <2>1. CASE n = r
    <3>1. ASSUME NEW i \in 1..Len(channel'[r]) PROVE channel'[r][i] = (d + 1) + i
      <4>1. i \in Nat /\ i + 1 \in 1..Len(channel[r]) /\ d \in Nat
        BY <1>2, <1>3
      <4>2. channel'[r][i] = channel[r][i + 1]
        BY <1>3
      <4>3. channel[r][i + 1] = d + (i + 1)
        BY <1>2, <4>1
      <4> QED
        BY <4>1, <4>2, <4>3
    <3>2. Dispatched(n)' = d + 1
      BY <1>1, <1>2, <1>3, <2>1 DEF Dispatched, d
    <3>3. Len(channel'[r]) <= emitted[r]
      <4>1. /\ Len(channel'[r]) = Len(channel[r]) - 1 /\ Len(channel[r]) \in Nat
            /\ emitted[r] \in Nat /\ Len(channel[r]) <= emitted[r]
        BY <1>2, <1>3
      <4> QED
        BY <4>1
    <3> QED
      BY <1>5, <2>1, <3>1, <3>2, <3>3
  <2>2. CASE n # r
    <3>1. channel'[n] = channel[n] /\ Dispatched(n)' = Dispatched(n)
      BY <1>3, <1>4, <2>2
    <3>2. \A p \in Players : pending'[n][p] = pending[n][p]
      BY <1>7, <2>2
    <3>3. EventsInv
      BY DEF MessageInv
    <3> QED
      BY <3>1, <3>2, <3>3 DEF EventsInv
  <2> QED
    BY <2>1, <2>2
<1>12. SinkInv'
  BY <1>1 DEF MessageInv, SinkInv
<1>13. HeldInv'
  <2> SUFFICES ASSUME NEW p \in Players, NEW n \in AllRooms, conn'[p] = "open",
                      p \in sinks[n] \ released[n]
               PROVE  /\ Len(pending'[n][p]) = Dispatched(n)'
                      /\ \A i \in 1..Dispatched(n)' : pending'[n][p][i] = Message(n, i)
    BY <1>1 DEF HeldInv
  <2>1. /\ Len(pending[n][p]) = Dispatched(n)
        /\ \A i \in 1..Dispatched(n) : pending[n][p][i] = Message(n, i)
        /\ pending[n][p] \in Seq(Messages)
    BY <1>0, <1>6 DEF MessageInv, HeldInv, MessageTypeOK
  <2>2. CASE n = r
    <3>1. pending'[r][p] = Append(pending[r][p], e)
      BY <1>6, <1>7, <2>2
    <3>2. Len(pending[r][p]) = d /\ \A i \in 1..d : pending[r][p][i] = Message(r, i)
      BY <2>1, <2>2 DEF d
    <3>3. /\ Len(pending'[r][p]) = d + 1 /\ pending'[r][p][d + 1] = e
          /\ \A i \in 1..d : pending'[r][p][i] = pending[r][p][i]
      BY <1>5, <2>1, <2>2, <3>1, <3>2
    <3>4. \A i \in 1..d + 1 : pending'[r][p][i] = Message(r, i)
      <4> SUFFICES ASSUME NEW i \in 1..d + 1 PROVE pending'[r][p][i] = Message(r, i)
        OBVIOUS
      <4>1. CASE i = d + 1
        BY <1>5, <3>3, <4>1
      <4>2. CASE i \in 1..d
        BY <3>2, <3>3, <4>2
      <4> QED
        BY <1>2, <4>1, <4>2
    <3> QED
      BY <1>4, <2>2, <3>3, <3>4
  <2>3. CASE n # r
    BY <1>4, <1>7, <2>1, <2>3
  <2> QED
    BY <2>2, <2>3
<1>14. HeardInv'
  <2> SUFFICES ASSUME NEW p \in Players, Open(p)
               PROVE  LET last == LastOf(heard'[p])
                          b    == bound[p]
                      IN  /\ heard'[p] # <<>> /\ last.room <= b
                          /\ builder[b] = "announce" =>
                                IF p \in todo[b] THEN last.room < b ELSE last = Message(b, 0)
                          /\ builder[b] = "release" /\ p \in todo[b] => last = Message(b, 0)
                          /\ \A n \in AllRooms :
                                /\ p \in sinks[n] \cap released[n]
                                       => n = b /\ UpTo(last, conn'[p], n, Dispatched(n)')
                                /\ builder[n] \in {"start", "commit", "announce", "release"} => p \in sinks[n]
    BY <1>1, <1>6 DEF HeardInv
  <2>1. /\ \A n \in AllRooms : p \in sinks[n] \cap released[n] => n = bound[p]
        /\ \A n \in AllRooms : builder[n] \in {"start", "commit", "announce", "release"} => p \in sinks[n]
    BY DEF MessageInv, HeardInv
  <2>2. CASE p \in sinks[r] \cap released[r]
    <3>1. bound[p] = r /\ r \in Nat
      BY <2>1, <2>2, RematchAssumption DEF AllRooms
    <3>2. heard'[p] # <<>> /\ UpTo(LastOf(heard'[p]), conn'[p], r, d + 1)
      <4>1. CASE p \notin refused
        <5>1. heard'[p] # <<>> /\ LastOf(heard'[p]) = Message(r, d + 1)
          BY <1>5, <1>8, <2>2, <4>1
        <5> QED
          BY <1>2, <5>1 DEF UpTo, Message, d
      <4>2. CASE p \in refused
        <5>1. heard'[p] = heard[p] /\ conn'[p] # "open"
          BY <1>6, <1>9, <4>2
        <5>2. heard[p] # <<>> /\ UpTo(LastOf(heard[p]), conn[p], r, d)
          BY <2>2 DEF MessageInv, HeardInv, d
        <5> QED
          BY <1>2, <5>1, <5>2 DEF UpTo, d
      <4> QED
        BY <4>1, <4>2
    <3>3. LastOf(heard'[p]).room = r
      BY <3>2 DEF UpTo
    <3>4. builder[r] # "announce" /\ ~(builder[r] = "release" /\ p \in todo[r])
      BY <2>2 DEF MessageInv, SinkInv, Unannounced
    <3>5. Dispatched(r)' = d + 1
      BY <1>4
    <3> QED
      BY <2>1, <3>1, <3>2, <3>3, <3>4, <3>5
  <2>3. CASE p \notin sinks[r] \cap released[r]
    <3>1. heard'[p] = heard[p]
      BY <1>9, <2>3
    <3>2. \A n \in AllRooms : p \in sinks[n] \cap released[n]
              => UpTo(LastOf(heard[p]), conn'[p], n, Dispatched(n)')
      <4> SUFFICES ASSUME NEW n \in AllRooms, p \in sinks[n] \cap released[n]
                   PROVE  UpTo(LastOf(heard[p]), conn'[p], n, Dispatched(n))
        BY <1>4, <2>3
      <4>1. UpTo(LastOf(heard[p]), conn[p], n, Dispatched(n))
        BY DEF MessageInv, HeardInv
      <4> QED
        BY <1>6, <4>1 DEF UpTo
    <3> QED
      BY <2>1, <3>1, <3>2 DEF MessageInv, HeardInv
  <2> QED
    BY <2>2, <2>3
<1>15. \A p \in Players : Chained(heard'[p], conn'[p])
  <2> SUFFICES ASSUME NEW p \in Players,
                      ~(Open(p) /\ p \in (sinks[r] \cap released[r]) \ refused)
               PROVE  Chained(heard'[p], conn'[p])
    BY <1>8
  <2> QED
    BY <1>6, <1>9 DEF MessageInv, Chained, Fits
<1>16. KeptInv'
  <2> SUFFICES ASSUME NEW p \in Players, NEW n \in AllRooms
               PROVE  /\ Chained(pending'[n][p], "closing")
                      /\ \A i \in 1..Len(pending'[n][p]) :
                            /\ pending'[n][p][i].room = n
                            /\ pending'[n][p][i].nth \in 1..Dispatched(n)'
    BY DEF KeptInv
  <2>1. /\ Chained(pending[n][p], "closing") /\ pending[n][p] \in Seq(Messages)
        /\ \A i \in 1..Len(pending[n][p]) : /\ pending[n][p][i].room = n
                                            /\ pending[n][p][i].nth \in 1..Dispatched(n)
    BY <1>0 DEF MessageInv, KeptInv, MessageTypeOK
  <2>2. CASE pending'[n][p] = pending[n][p]
    <3>1. CASE n = r
      BY <1>2, <1>4, <2>1, <2>2, <3>1 DEF d
    <3>2. CASE n # r
      BY <1>4, <2>1, <2>2, <3>2
    <3> QED
      BY <3>1, <3>2
  <2>3. CASE pending'[n][p] # pending[n][p]
    <3> DEFINE s == pending[r][p]
    <3>1. n = r /\ pending'[n][p] = Append(s, e)
      BY <1>7, <2>3
    <3>2. /\ s \in Seq(Messages) /\ Len(s) \in Nat /\ Chained(s, "closing")
          /\ \A i \in 1..Len(s) : s[i].room = r /\ s[i].nth \in 1..d
      BY <2>1, <3>1, LenProperties DEF d
    <3> HIDE DEF s
    <3>3. /\ Len(Append(s, e)) = Len(s) + 1 /\ Append(s, e)[Len(s) + 1] = e
          /\ \A i \in 1..Len(s) : Append(s, e)[i] = s[i]
      BY <1>5, <3>2
    <3>4. e.room = r /\ e.nth = d + 1 /\ d \in Nat
      BY <1>2, <1>5 DEF Message, d
    <3>5. \A i \in 1..Len(s) + 1 : Append(s, e)[i].room = r /\ Append(s, e)[i].nth \in 1..d + 1
      <4> SUFFICES ASSUME NEW i \in 1..Len(s) + 1
                   PROVE  Append(s, e)[i].room = r /\ Append(s, e)[i].nth \in 1..d + 1
        OBVIOUS
      <4>1. CASE i = Len(s) + 1
        BY <3>3, <3>4, <4>1
      <4>2. CASE i \in 1..Len(s)
        BY <3>2, <3>3, <3>4, <4>2
      <4> QED
        BY <3>2, <4>1, <4>2
    <3>6. Chained(Append(s, e), "closing")
      <4> SUFFICES ASSUME NEW i \in 2..Len(s) + 1
                   PROVE  Later(Append(s, e)[i], Append(s, e)[i - 1])
        BY <3>3 DEF Chained, Fits
      <4>1. CASE i = Len(s) + 1
        <5>1. Append(s, e)[i] = e /\ i - 1 \in 1..Len(s) /\ Append(s, e)[i - 1] = s[i - 1]
          BY <3>2, <3>3, <4>1
        <5> QED
          BY <3>2, <3>4, <5>1 DEF Later
      <4>2. CASE i \in 2..Len(s)
        <5>1. i \in 1..Len(s) /\ i - 1 \in 1..Len(s)
          BY <3>2, <4>2
        <5>2. Append(s, e)[i] = s[i] /\ Append(s, e)[i - 1] = s[i - 1]
          BY <3>3, <5>1
        <5> QED
          BY <3>2, <4>2, <5>2 DEF Chained, Fits
      <4> QED
        BY <3>2, <4>1, <4>2
    <3> QED
      BY <1>4, <3>1, <3>3, <3>5, <3>6
  <2> QED
    BY <2>2, <2>3
<1> QED
  BY <1>10, <1>11, <1>12, <1>13, <1>14, <1>15, <1>16 DEF MessageInv

\* The first team has heard everything but the end of its match.
LEMMA MessagesAtFirst == Init => MessageInv
<1> SUFFICES ASSUME Init PROVE MessageInv
  OBVIOUS
<1>0. PlaceInv /\ MaxEvents \in Nat \ {0, 1} /\ 1 \in AllRooms
  BY PlaceAtFirst, RematchAssumption DEF AllRooms
<1>1. /\ \A r \in AllRooms : channel[r] = <<>> /\ \A p \in Players : pending[r][p] = <<>>
      /\ \A r \in AllRooms : r # 1 => /\ emitted[r] = 0 /\ phase[r] = "none" /\ builder[r] = "none"
                                      /\ sinks[r] = {} /\ released[r] = {}
      /\ emitted[1] = MaxEvents - 1 /\ builder[1] = "done"
      /\ \A p \in Players : bound[p] = 1
  BY <1>0 DEF Init, First
<1>2. \A p \in Players : /\ heard[p] \in Seq(Messages) /\ Len(heard[p]) = MaxEvents /\ heard[p] # <<>>
                         /\ \A k \in 1..MaxEvents : heard[p][k] = Message(1, k - 1)
  <2> SUFFICES ASSUME NEW p \in Players
               PROVE  /\ heard[p] \in Seq(Messages) /\ Len(heard[p]) = MaxEvents /\ heard[p] # <<>>
                      /\ \A k \in 1..MaxEvents : heard[p][k] = Message(1, k - 1)
    OBVIOUS
  <2>1. heard[p] = [k \in 1..MaxEvents |-> Message(1, k - 1)]
    BY DEF Init
  <2>2. \A k \in 1..MaxEvents : Message(1, k - 1) \in Messages
    BY <1>0 DEF Message, Messages
  <2> QED
    BY <1>0, <2>1, <2>2
<1>3. MessageTypeOK
  <2>1. channel \in [AllRooms -> Seq(Nat)] /\ pending \in [AllRooms -> [Players -> Seq(Messages)]]
    BY EmptySeq DEF Init
  <2>2. sinks \in [AllRooms -> SUBSET Players] /\ released \in [AllRooms -> SUBSET Players]
    BY DEF Init, First
  <2>3. heard \in [Players -> Seq(Messages)]
    BY <1>2 DEF Init
  <2> QED
    BY <2>1, <2>2, <2>3 DEF MessageTypeOK
<1>4. Len(<<>>) = 0 /\ \A r \in AllRooms : Len(channel[r]) = 0
  BY <1>1
<1>5. EventsInv
  BY <1>0, <1>1, <1>4 DEF EventsInv, Unstarted
<1>6. SinkInv
  BY <1>1 DEF SinkInv, Unannounced, Unstarted
<1>7. HeldInv
  <2>1. \A r \in AllRooms, p \in Players : p \notin sinks[r] \ released[r]
    BY DEF Init, First
  <2> QED
    BY <2>1 DEF HeldInv
<1>8. HeardInv
  <2>1. \A p \in Players : LastOf(heard[p]) = Message(1, MaxEvents - 1)
    BY <1>0, <1>2 DEF LastOf
  <2>2. Dispatched(1) = MaxEvents - 1
    BY <1>0, <1>1, <1>4 DEF Dispatched
  <2> QED
    BY <1>0, <1>1, <1>2, <2>1, <2>2 DEF HeardInv, UpTo, Message
<1>9. \A p \in Players : Chained(heard[p], conn[p])
  <2> SUFFICES ASSUME NEW p \in Players, NEW k \in 2..MaxEvents
               PROVE  Fits(heard[p][k], heard[p][k - 1], conn[p])
    BY <1>2 DEF Chained
  <2>1. heard[p][k] = Message(1, k - 1) /\ heard[p][k - 1] = Message(1, (k - 1) - 1)
    BY <1>0, <1>2
  <2> QED
    BY <1>0, <2>1 DEF Fits, Follows, Later, Message
<1>10. KeptInv
  BY <1>1, <1>4 DEF KeptInv, Chained
<1> QED
  BY <1>0, <1>3, <1>5, <1>6, <1>7, <1>8, <1>9, <1>10 DEF MessageInv

\* Every step keeps what the players are told in order.
LEMMA StepsKeepMessages == MessageInv /\ [Next]_vars => MessageInv'
<1> SUFFICES ASSUME MessageInv, [Next]_vars PROVE MessageInv'
  OBVIOUS
<1>0. PlaceInv'
  BY StepsKeepPlace DEF MessageInv
<1>1. CASE UNCHANGED vars
  <2>1. UNCHANGED <<conn, bound, phase, emitted, channel, sinks, released, pending, builder, todo, heard>>
    BY <1>1 DEF vars, playerVars, roomVars, sinkVars, buildVars
  <2>2. EventsInv' /\ \A n \in AllRooms : Dispatched(n)' = Dispatched(n)
    BY <2>1, EventsKept
  <2>3. MessageTypeOK'
    BY <2>1 DEF MessageInv, MessageTypeOK
  <2> QED
    BY <1>0, <2>1, <2>2, <2>3, MessagesKept DEF Open
<1>2. CASE \E n \in AllRooms : CreateRematch(n)
  <2>1. PICK n \in AllRooms : CreateRematch(n)
    BY <1>2
  <2>2. CASE \/ CreateRoom(n) \/ StartStage(n) \/ LeaveFormer(n) \/ Fail(n) \/ Reset(n)
             \/ \E p \in Players : JoinRoom(n, p)
             \/ Commit(n) /\ builder'[n] = "fail"
    BY <1>0, <2>2, QuietBuilderStepsKeepMessages
  <2>3. CASE Subscribe(n)
    BY <1>0, <2>3, SubscribeKeepsMessages
  <2>4. CASE Commit(n) /\ builder'[n] # "fail"
    BY <1>0, <2>4, CommitKeepsMessages
  <2>5. CASE \E p \in Players : Announce(n, p)
    BY <1>0, <2>5, AnnounceKeepsMessages
  <2>6. CASE \E p \in Players : Release(n, p)
    BY <1>0, <2>6, ReleaseKeepsMessages
  <2> QED
    BY <2>1, <2>2, <2>3, <2>4, <2>5, <2>6 DEF CreateRematch
<1>3. CASE \E r \in AllRooms : Emit(r)
  BY <1>0, <1>3, EmitKeepsMessages
<1>4. CASE \E r \in AllRooms : Dispatch(r)
  BY <1>0, <1>4, DispatchKeepsMessages
<1>5. CASE \/ \E r \in AllRooms : CloseUnused(r) \/ CloseCongested(r) \/ CloseWatcherRun(r)
           \/ \E p \in Players : \/ Hangup(p) \/ CloseConnection(p) \/ Disconnected(p)
                                 \/ HandleRematchRequest(p)
           \/ \E p \in Players, r \in AllRooms : LeaveRoom(p, r)
  BY <1>0, <1>5, OtherStepsKeepMessages
<1> QED
  BY <1>1, <1>2, <1>3, <1>4, <1>5 DEF Next

\* EventDispatcher, deferredEventSink and createRematch: on every connection each
\* room's MatchFound comes first, its events follow in order, and nothing of a
\* former room comes after it; an event is missing only where one was refused or
\* dropped and the `go Close()` that this started is on its way.
THEOREM MatchFoundLeads == Spec => []MatchFoundFirst
<1>1. MessageInv => MatchFoundFirst
  BY DEF MessageInv, MatchFoundFirst, Chained, Fits, Ending
<1> QED
  BY <1>1, MessagesAtFirst, StepsKeepMessages, PTL DEF Spec
=============================================================================
