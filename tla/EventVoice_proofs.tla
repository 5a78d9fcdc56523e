------------------------- MODULE EventVoice_proofs -------------------------
(***************************************************************************)
(* Theorems of EventVoice, for any number of rooms and any budgets: an     *)
(* event that may still take place is bound to a room that exists, the     *)
(* watch does not end a session whose room is in use, and what it needs to *)
(* end one that was left is not lost.                                      *)
(***************************************************************************)
EXTENDS EventVoice, FiniteSetTheorems, WellFoundedInduction, TLAPS

----------------------------------------------------------------------------
(* The inductive invariant.                                                *)

Place == {"idle", "read", "post", "look", "create", "bind", "undo", "tell", "room", "clear"}
Stage == {"idle", "list", "decide", "mass", "massed", "start", "watch", "auto", "ended",
          "sweep", "lookup", "unbind", "remove"}
Hour == {"early", "mass", "start", "late"}
RoomOrNone == Room \cup {None}

RoomRow == [is : {"unmade", "open", "gone"}, people : BOOLEAN, old : BOOLEAN]
MemoryRow == [massed : BOOLEAN, occupied : BOOLEAN, empty : 0..2]
TaskRow == [at : Place, room : RoomOrNone]
PollerRow == [at : Stage, todo : SUBSET (Room \cup {"scheduled", "live"}),
              found : {"nothing", "scheduled", "live"}, room : RoomOrNone, due : Hour]
HistoryRow == [seen : BOOLEAN, looks : 0..2, hasty : BOOLEAN, restored : BOOLEAN,
               mishaps : SUBSET {"dead binding", "lost bind"}]
Task == Openers \cup Closers

TypesOK ==
  /\ status \in {"scheduled", "live", "stopped", "cancelled"}
  /\ binding \in RoomOrNone
  /\ clock \in Hour
  /\ room \in [Room -> RoomRow]
  /\ memory \in MemoryRow /\ file \in MemoryRow
  /\ task \in [Task -> TaskRow]
  /\ poller \in PollerRow
  /\ history \in HistoryRow

\* What the watch remembers and what it has saved.
MemoryOK == /\ memory.empty > 0 => memory.occupied
            /\ file.empty > 0 => file.occupied
            /\ poller.at = "auto" <=> task["auto"].at # "idle"

\* A room that does not exist yet is nowhere referred to.
UnmadeIsUnknown ==
  \A c \in Room : room[c].is = "unmade" =>
    ~room[c].old /\ binding # c /\ \A t \in Task : task[t].room # c

\* A run of Mass or Start holds the room it made, which is younger than any room of
\* the sweep.
HeldIsYoung ==
  \A t \in Openers : /\ task[t].at \in {"bind", "undo"} => task[t].room # None
                     /\ task[t].room # None => ~room[task[t].room].old

\* The sweep only has old rooms, and the one it is about to remove is not bound.
SweptIsOld ==
  /\ poller.at \in {"sweep", "lookup", "unbind", "remove"} =>
       \A c \in poller.todo : c \in Room /\ room[c].old
  /\ poller.at \in {"lookup", "unbind", "remove"} =>
       poller.room \in Room /\ room[poller.room].old
  /\ poller.at = "remove" => binding # poller.room

\* Without a mishap a held room exists and is known to its run only.
HeldIsOwn ==
  history.mishaps = {} =>
    \A t \in Openers : task[t].room # None =>
      /\ There(task[t].room) /\ binding # task[t].room
      /\ \A k \in Task \ {t} : task[k].room # task[t].room

RoomsOK == UnmadeIsUnknown /\ HeldIsYoung /\ SweptIsOld /\ HeldIsOwn /\ BoundRoomExists

\* As long as the event was not restored it has one session, and what the watch
\* remembers or has saved is of that session.
FirstSession ==
  /\ status = "scheduled" =>
       /\ ~memory.occupied /\ ~file.occupied
       /\ poller.found # "live" /\ task["auto"].at = "idle"
  /\ memory.occupied \/ file.occupied => history.seen
  /\ memory.empty <= history.looks /\ file.empty <= history.looks
  /\ task["auto"].at = "post" => history.seen /\ history.looks >= 2
  /\ ~history.hasty
WatchOK == /\ poller.at = "watch" => poller.found = "live"
           /\ ~history.restored => FirstSession

IInv == TypesOK /\ MemoryOK /\ RoomsOK /\ WatchOK

----------------------------------------------------------------------------
(* What the shared parts of a run do.                                      *)

LEMMA Facts == TypesOK =>
  /\ task \in [Task -> TaskRow] /\ poller \in PollerRow /\ memory \in MemoryRow
  /\ file \in MemoryRow /\ history \in HistoryRow /\ room \in [Room -> RoomRow]
  BY DEF TypesOK

\* The poller goes on to another stage of its cycle.
LEMMA PollerMoves ==
  ASSUME TypesOK, NEW to \in Stage
  PROVE  LET p == [poller EXCEPT !.at = to]
         IN p \in PollerRow /\ p.at = to /\ p.todo = poller.todo /\ p.found = poller.found
            /\ p.room = poller.room
  BY Facts DEF PollerRow

LEMMA TaskMoves ==
  ASSUME TypesOK, NEW t \in Task, NEW to \in Place
  PROVE  LET new == [task EXCEPT ![t].at = to]
         IN /\ new \in [Task -> TaskRow] /\ new[t].at = to /\ new[t].room = task[t].room
            /\ \A u \in Task \ {t} : new[u] = task[u]
  BY Facts DEF TaskRow

LEMMA TaskSet ==
  ASSUME TypesOK, NEW t \in Task, NEW row \in TaskRow
  PROVE  LET new == [task EXCEPT ![t] = row]
         IN /\ new \in [Task -> TaskRow] /\ new[t] = row
            /\ \A u \in Task \ {t} : new[u] = task[u]
  BY Facts

LEMMA RestingIsTask == Resting \in TaskRow /\ Resting.at = "idle" /\ Resting.room = None
  BY DEF Resting, TaskRow, Place, RoomOrNone

LEMMA AsleepIsPoller ==
  Asleep \in PollerRow /\ Asleep.at = "idle" /\ Asleep.found = "nothing" /\ Asleep.todo = {}
  BY DEF Asleep, PollerRow, Stage, RoomOrNone, Hour

\* What the watch remembers, in memory and on file, is what it was; a save may have
\* brought the file up to date.
Remembers ==
  /\ memory' \in MemoryRow /\ file' \in MemoryRow
  /\ memory'.occupied = memory.occupied /\ memory'.empty = memory.empty
  /\ \/ file'.occupied = file.occupied /\ file'.empty = file.empty
     \/ file'.occupied = memory.occupied /\ file'.empty = memory.empty

LEMMA SameMemory == TypesOK /\ UNCHANGED <<memory, file>> => Remembers
  BY Facts DEF Remembers

LEMMA EndsDoes ==
  ASSUME TypesOK, NEW t \in Openers, NEW well \in BOOLEAN, Ends(t, well)
  PROVE  /\ task' \in [Task -> TaskRow] /\ task'[t] = Resting
         /\ \A u \in Task \ {t} : task'[u] = task[u]
         /\ \/ poller' = poller
            \/ /\ poller.at = t /\ poller'.at \in {"massed", "ended"} /\ poller' \in PollerRow
               /\ poller'.found = poller.found /\ poller'.room = poller.room
               /\ poller'.todo = poller.todo
         /\ Remembers
<1>1. t \in Task /\ task' = [task EXCEPT ![t] = Resting]
  BY DEF Ends, Task
<1>2. CASE poller.at # t
  <2>1. UNCHANGED <<poller, memory, file>>
    BY <1>2 DEF Ends
  <2> QED BY <1>1, <2>1, TaskSet, RestingIsTask, SameMemory
<1>3. CASE poller.at = t
  <2> DEFINE to == IF t = "mass" THEN "massed" ELSE "ended"
  <2>1. to \in {"massed", "ended"} /\ to \in Stage /\ poller' = [poller EXCEPT !.at = to]
    BY <1>3 DEF Ends, Stage
  <2> HIDE DEF to
  <2>2. /\ poller'.at \in {"massed", "ended"} /\ poller' \in PollerRow
        /\ poller'.found = poller.found /\ poller'.room = poller.room
        /\ poller'.todo = poller.todo
    BY <2>1, PollerMoves
  <2>3. /\ memory' = [memory EXCEPT !.massed = TRUE] \/ memory' = memory
        /\ file' = memory' \/ file' = file
    BY <1>3 DEF Ends, Save
  <2>4. Remembers
    BY <2>3, Facts DEF Remembers, MemoryRow
  <2> QED BY <1>1, <1>3, <2>2, <2>4, TaskSet, RestingIsTask
<1> QED BY <1>2, <1>3

\* forgetLiveVoiceWatch
LEMMA MemoryForgets ==
  ASSUME TypesOK
  PROVE  LET new == [memory EXCEPT !.occupied = FALSE, !.empty = 0]
         IN new \in MemoryRow /\ new.occupied = FALSE /\ new.empty = 0
<1>1. ASSUME NEW no \in BOOLEAN, NEW zero \in 0..2
      PROVE  LET new == [memory EXCEPT !.occupied = no, !.empty = zero]
             IN new \in MemoryRow /\ new.occupied = no /\ new.empty = zero
  BY Facts DEF MemoryRow
<1>2. 0 \in 0..2 /\ FALSE \in BOOLEAN
  OBVIOUS
<1> QED BY <1>1, <1>2

LEMMA FinishDoes ==
  ASSUME TypesOK, NEW k \in Closers, NEW well \in BOOLEAN, Finish(k, well)
  PROVE  /\ task' \in [Task -> TaskRow] /\ task'[k] = Resting
         /\ \A u \in Task \ {k} : task'[u] = task[u]
         /\ \/ k # "auto" /\ poller' = poller
            \/ /\ k = "auto" /\ poller'.at = "ended" /\ poller' \in PollerRow
               /\ poller'.found = poller.found
         /\ \/ Remembers
            \/ /\ memory' \in MemoryRow /\ file' = memory'
               /\ memory'.occupied = FALSE /\ memory'.empty = 0
<1>1. k \in Task /\ task' = [task EXCEPT ![k] = Resting]
  BY DEF Finish, Task
<1>2. /\ task' \in [Task -> TaskRow] /\ task'[k] = Resting
      /\ \A u \in Task \ {k} : task'[u] = task[u]
  BY <1>1, TaskSet, RestingIsTask
<1>3. CASE k # "auto"
  <2>1. UNCHANGED <<poller, memory, file>>
    BY <1>3 DEF Finish
  <2> QED BY <1>3, <1>2, <2>1, SameMemory
<1>4. CASE k = "auto"
  <2>1. poller' = [poller EXCEPT !.at = "ended"]
    BY <1>4 DEF Finish
  <2>2. poller'.at = "ended" /\ poller' \in PollerRow /\ poller'.found = poller.found
    BY <2>1, PollerMoves DEF Stage
  <2>3. \/ UNCHANGED <<memory, file>>
        \/ memory' = [memory EXCEPT !.occupied = FALSE, !.empty = 0] /\ file' = memory'
    BY <1>4 DEF Finish, Save
  <2>4. \/ Remembers
        \/ /\ memory' \in MemoryRow /\ file' = memory'
           /\ memory'.occupied = FALSE /\ memory'.empty = 0
    <3>1. CASE UNCHANGED <<memory, file>>
      BY <3>1, SameMemory
    <3>2. CASE memory' = [memory EXCEPT !.occupied = FALSE, !.empty = 0] /\ file' = memory'
      <4>1. memory' \in MemoryRow /\ memory'.occupied = FALSE /\ memory'.empty = 0
        BY <3>2, MemoryForgets
      <4> QED BY <3>2, <4>1
    <3> QED BY <2>3, <3>1, <3>2
  <2> QED BY <1>4, <1>2, <2>2, <2>4
<1> QED BY <1>3, <1>4

\* A step of a run that neither ends it nor gives it another room.
LEMMA StepsDoes ==
  ASSUME TypesOK, NEW t \in Task, NEW to \in Place, Steps(t, to)
  PROVE  /\ task' \in [Task -> TaskRow] /\ task'[t].at = to /\ task'[t].room = task[t].room
         /\ \A u \in Task \ {t} : task'[u] = task[u]
         /\ poller' = poller /\ memory' = memory /\ file' = file
  BY TaskMoves DEF Steps

----------------------------------------------------------------------------
(* Which parts of the invariant a step leaves alone.                       *)

Forgets == /\ memory' \in MemoryRow /\ file' \in {file, memory'}
           /\ memory'.occupied = FALSE /\ memory'.empty = 0

\* No room is made, removed or bound, no run gets a room it makes itself, and the
\* sweep goes no further.
LEMMA RoomsKept ==
  ASSUME TypesOK, RoomsOK, TypesOK', room' = room, binding' \in {binding, None},
         IsOpen' => IsOpen, history.mishaps \subseteq history'.mishaps,
         \A t \in Task : \/ task'[t].room \in {task[t].room, None}
                         \/ t \in Closers /\ task'[t].room = binding,
         \A t \in Openers : task'[t].at \in {"bind", "undo"} =>
           task[t].at \in {"bind", "undo"} /\ task'[t].room = task[t].room,
         poller'.at \in {"sweep", "lookup", "unbind", "remove"} => poller' = poller
  PROVE  RoomsOK'
<1>0. Openers \subseteq Task /\ Closers \subseteq Task /\ None \notin Room
  BY VoiceAssumption DEF Task
<1>1. UnmadeIsUnknown'
  BY <1>0 DEF UnmadeIsUnknown, RoomsOK
<1>2. HeldIsYoung'
  <2> SUFFICES ASSUME NEW t \in Openers
               PROVE  /\ task'[t].at \in {"bind", "undo"} => task'[t].room # None
                      /\ task'[t].room # None => ~room[task'[t].room].old
    BY DEF HeldIsYoung
  <2>1. task'[t].room \in {task[t].room, None}
    BY <1>0 DEF Openers, Closers
  <2> QED BY <2>1 DEF HeldIsYoung, RoomsOK
<1>3. SweptIsOld'
  <2>1. CASE poller' = poller
    <3>1. binding' \in {binding, None} /\ poller' = poller /\ room' = room
      BY <2>1
    <3> QED BY <3>1, <1>0 DEF SweptIsOld, RoomsOK
  <2>2. CASE poller'.at \notin {"sweep", "lookup", "unbind", "remove"}
    BY <2>2 DEF SweptIsOld
  <2> QED BY <2>1, <2>2
<1>4. HeldIsOwn'
  <2> SUFFICES ASSUME history'.mishaps = {}, NEW t \in Openers, task'[t].room # None
               PROVE  /\ There(task[t].room)' /\ binding' # task'[t].room
                      /\ \A k \in Task \ {t} : task'[k].room # task'[t].room
    BY DEF HeldIsOwn
  <2>1. t \in Task /\ t \notin Closers
    BY <1>0 DEF Openers, Closers
  <2>2. task'[t].room = task[t].room /\ history.mishaps = {}
    BY <2>1
  <2>3. /\ There(task[t].room) /\ binding # task[t].room
        /\ \A k \in Task \ {t} : task[k].room # task[t].room
    BY <2>2 DEF HeldIsOwn, RoomsOK
  <2>4. There(task[t].room)' /\ binding' # task'[t].room
    BY <2>2, <2>3 DEF There
  <2>5. ASSUME NEW k \in Task \ {t} PROVE task'[k].room # task'[t].room
    <3>1. task'[k].room \in {task[k].room, None, binding}
      OBVIOUS
    <3> QED BY <2>2, <2>3, <3>1
  <2> QED BY <2>4, <2>5
<1>5. BoundRoomExists'
  BY <1>0 DEF BoundRoomExists, RoomsOK, There
<1> QED BY <1>1, <1>2, <1>3, <1>4, <1>5 DEF RoomsOK

\* The session goes on or ends, and nothing new is remembered of it.
LEMMA WatchKept ==
  ASSUME TypesOK, MemoryOK, WatchOK, TypesOK', Remembers \/ Forgets,
         status' = "scheduled" => status = "scheduled",
         history'.seen = history.seen, history'.looks = history.looks,
         history'.restored = history.restored,
         ~history'.restored => history'.hasty = history.hasty,
         poller'.found = "live" => poller.found = "live" \/ status' # "scheduled",
         poller'.at = "watch" => poller'.found = "live",
         task["auto"].at = "idle" => task'["auto"].at = "idle",
         task'["auto"].at = "post" => task["auto"].at = "post"
  PROVE  WatchOK'
<1> SUFFICES ASSUME ~history.restored PROVE FirstSession'
  BY DEF WatchOK
<1>1. FirstSession
  BY DEF WatchOK
<1>2. history.looks \in 0..2
  BY DEF TypesOK, HistoryRow
<1>3. /\ memory'.occupied => memory.occupied
      /\ file'.occupied => memory.occupied \/ file.occupied
      /\ memory'.empty <= history.looks /\ file'.empty <= history.looks
  <2>1. CASE Remembers
    BY <1>1, <2>1 DEF FirstSession, Remembers
  <2>2. CASE Forgets
    BY <1>1, <1>2, <2>2 DEF Forgets, FirstSession
  <2> QED BY <2>1, <2>2
<1> QED BY <1>1, <1>3 DEF FirstSession

LEMMA MemoryKept ==
  ASSUME MemoryOK, Remembers \/ Forgets, poller'.at = "auto" <=> task'["auto"].at # "idle"
  PROVE  MemoryOK'
<1>1. CASE Remembers
  BY <1>1 DEF MemoryOK, Remembers
<1>2. CASE Forgets
  BY <1>2 DEF MemoryOK, Forgets
<1> QED BY <1>1, <1>2

----------------------------------------------------------------------------
(* Mass and Start.                                                         *)

\* A run ends, or goes on with the room it has.
OpenerMoves(t) ==
  /\ task' \in [Task -> TaskRow] /\ \A u \in Task \ {t} : task'[u] = task[u]
  /\ task'[t] = Resting \/ task'[t].room = task[t].room
  /\ \/ poller' = poller
     \/ /\ poller.at = t /\ poller'.at \in {"massed", "ended"} /\ poller' \in PollerRow
        /\ poller'.found = poller.found
  /\ Remembers

LEMMA EndsMoves ==
  ASSUME TypesOK, NEW t \in Openers, Ends(t, TRUE) \/ Ends(t, FALSE)
  PROVE  OpenerMoves(t) /\ task'[t] = Resting /\ task'[t].at = "idle"
<1>1. ASSUME NEW well \in BOOLEAN, Ends(t, well)
      PROVE  OpenerMoves(t) /\ task'[t] = Resting
  BY <1>1, EndsDoes DEF OpenerMoves
<1>2. OpenerMoves(t) /\ task'[t] = Resting
  BY <1>1
<1> QED BY <1>2, RestingIsTask

LEMMA StepsMoves ==
  ASSUME TypesOK, NEW t \in Openers, NEW to \in Place, Steps(t, to)
  PROVE  OpenerMoves(t) /\ task'[t].at = to
<1>1. t \in Task
  BY DEF Task
<1> QED BY <1>1, StepsDoes, SameMemory DEF OpenerMoves

LEMMA ProvisionMoves ==
  ASSUME TypesOK, NEW t \in Openers, Provision(t)
  PROVE  OpenerMoves(t) /\ task'[t].at \in {"create", "tell"}
<1>1. CASE Steps(t, "create")
  BY <1>1, StepsMoves DEF Place
<1>2. CASE Steps(t, "tell")
  BY <1>2, StepsMoves DEF Place
<1> QED BY <1>1, <1>2 DEF Provision

\* Every part of the invariant but the rooms, for a step of a run.
LEMMA OpenerKeepsRest ==
  ASSUME IInv, NEW t \in Openers, OpenerMoves(t), TypesOK',
         status' = "scheduled" => status = "scheduled",
         history'.seen = history.seen, history'.looks = history.looks,
         history'.restored = history.restored, history'.hasty = history.hasty
  PROVE  MemoryOK' /\ WatchOK'
<1>1. t \in Task /\ t # "auto" /\ task'["auto"] = task["auto"]
  BY DEF OpenerMoves, Openers, Task, Closers
<1>2. /\ poller'.at = "auto" <=> poller.at = "auto"
      /\ poller'.found = poller.found /\ (poller'.at = "watch" => poller.at = "watch")
  BY <1>1 DEF OpenerMoves, Openers
<1>3. MemoryOK'
  <2>1. poller'.at = "auto" <=> task'["auto"].at # "idle"
    BY <1>1, <1>2 DEF MemoryOK, IInv
  <2> QED BY <2>1, MemoryKept DEF IInv, OpenerMoves
<1>4. poller'.at = "watch" => poller'.found = "live"
  BY <1>2 DEF IInv, WatchOK
<1>5. WatchOK'
  BY <1>1, <1>2, <1>4, WatchKept DEF IInv, OpenerMoves
<1> QED BY <1>3, <1>5

LEMMA OpenerKeeps ==
  ASSUME IInv, NEW t \in Openers, OpenerMoves(t),
         task'[t].at \in {"bind", "undo"} => task[t].at \in {"bind", "undo"},
         UNCHANGED <<status, binding, clock, room, history>>
  PROVE  IInv'
<1>1. TypesOK'
  BY DEF IInv, TypesOK, OpenerMoves, Remembers
<1>2. MemoryOK' /\ WatchOK'
  BY <1>1, OpenerKeepsRest
<1>3. \A u \in Task : task'[u].room \in {task[u].room, None}
  BY DEF OpenerMoves, Resting
<1>4. \A u \in Openers : task'[u].at \in {"bind", "undo"} =>
        task[u].at \in {"bind", "undo"} /\ task'[u].room = task[u].room
  BY DEF OpenerMoves, Resting, Task
<1>5. poller'.at \in {"sweep", "lookup", "unbind", "remove"} => poller' = poller
  BY DEF OpenerMoves
<1>6. IsOpen' => IsOpen
  BY DEF IsOpen
<1>7. RoomsOK'
  BY <1>1, <1>3, <1>4, <1>5, <1>6, RoomsKept DEF IInv
<1> QED BY <1>1, <1>2, <1>7 DEF IInv

LEMMA BegunKeeps ==
  ASSUME IInv, ReadMass \/ ReadStart \/ LookStarted
  PROVE  IInv'
<1>0. TypesOK /\ "mass" \in Openers /\ "start" \in Openers
  BY DEF IInv, Openers
<1>1. CASE ReadMass
  <2>1. UNCHANGED <<status, binding, clock, room, history>>
    BY <1>1 DEF ReadMass
  <2>2. CASE Provision("mass")
    BY <1>0, <2>1, <2>2, ProvisionMoves, OpenerKeeps
  <2>3. CASE Ends("mass", FALSE)
    BY <1>0, <2>1, <2>3, EndsMoves, OpenerKeeps
  <2> QED BY <1>1, <2>2, <2>3 DEF ReadMass
<1>2. CASE ReadStart
  <2>1. UNCHANGED <<status, binding, clock, room, history>>
    BY <1>2 DEF ReadStart
  <2>2. CASE Provision("start")
    BY <1>0, <2>1, <2>2, ProvisionMoves, OpenerKeeps
  <2>3. CASE Ends("start", FALSE)
    BY <1>0, <2>1, <2>3, EndsMoves, OpenerKeeps
  <2>4. CASE Steps("start", "post")
    BY <1>0, <2>1, <2>4, StepsMoves, OpenerKeeps DEF Place
  <2> QED BY <1>2, <2>2, <2>3, <2>4 DEF ReadStart
<1>3. CASE LookStarted
  BY <1>0, <1>3, ProvisionMoves, OpenerKeeps DEF LookStarted
<1> QED BY <1>1, <1>2, <1>3

\* A session begins: nothing is remembered of an earlier one, as long as the event
\* was not restored.
LEMMA WatchBegins ==
  ASSUME TypesOK, MemoryOK, WatchOK, GoesLive, Remembers,
         poller'.found = poller.found, poller'.at = "watch" => poller.at = "watch",
         task'["auto"] = task["auto"]
  PROVE  WatchOK' /\ history' \in HistoryRow /\ history'.mishaps = history.mishaps
<1>1. /\ status = "scheduled" /\ status' = "live"
      /\ history'.looks = 0 /\ history'.hasty = history.hasty
      /\ history'.restored = history.restored /\ history'.mishaps = history.mishaps
  BY Facts DEF GoesLive, HistoryRow
<1>2. history' \in HistoryRow
  <2>1. ASSUME NEW no \in BOOLEAN, NEW zero \in 0..2
        PROVE  [history EXCEPT !.seen = no, !.looks = zero] \in HistoryRow
    BY Facts DEF HistoryRow
  <2>2. 0 \in 0..2 /\ FALSE \in BOOLEAN
    OBVIOUS
  <2> QED BY <2>1, <2>2 DEF GoesLive
<1>3. ASSUME ~history.restored PROVE FirstSession'
  <2>1. FirstSession
    BY <1>3 DEF WatchOK
  <2>2. ~memory.occupied /\ ~file.occupied /\ task'["auto"].at = "idle" /\ ~history.hasty
    BY <1>1, <2>1 DEF FirstSession
  <2>3. memory.empty \in 0..2 /\ file.empty \in 0..2
    BY Facts DEF MemoryRow
  <2>4. memory.empty = 0 /\ file.empty = 0
    BY <2>2, <2>3 DEF MemoryOK
  <2>5. ~memory'.occupied /\ ~file'.occupied /\ memory'.empty = 0 /\ file'.empty = 0
    BY <2>2, <2>4 DEF Remembers
  <2> QED BY <1>1, <2>2, <2>5 DEF FirstSession
<1> QED BY <1>1, <1>2, <1>3 DEF WatchOK

LEMMA PostStartKeeps ==
  ASSUME IInv, PostStart
  PROVE  IInv'
<1>0. /\ TypesOK /\ MemoryOK /\ WatchOK /\ RoomsOK /\ "start" \in Openers
      /\ UNCHANGED <<binding, clock, room>>
  BY DEF IInv, Openers, PostStart
<1>1. CASE Ends("start", FALSE) /\ UNCHANGED <<status, history>>
  BY <1>0, <1>1, EndsMoves, OpenerKeeps
<1>2. CASE GoesLive /\ Steps("start", "look")
  <2>1. OpenerMoves("start") /\ task'["start"].at = "look" /\ UNCHANGED <<poller, memory, file>>
    BY <1>0, <1>2, StepsMoves DEF Place, Steps
  <2>2. task'["auto"] = task["auto"] /\ Remembers
    BY <2>1 DEF OpenerMoves, Task, Closers
  <2>3. WatchOK' /\ history' \in HistoryRow /\ history'.mishaps = history.mishaps
    BY <1>0, <1>2, <2>1, <2>2, WatchBegins
  <2>4. status = "scheduled" /\ status' = "live"
    BY <1>2 DEF GoesLive
  <2>5. TypesOK'
    BY <1>0, <2>1, <2>3, <2>4 DEF TypesOK, OpenerMoves
  <2>6. MemoryOK'
    BY <1>0, <2>1, <2>2 DEF MemoryOK
  <2>7. \A u \in Task : task'[u].room \in {task[u].room, None}
    BY <2>1 DEF OpenerMoves, Resting
  <2>8. \A u \in Openers : task'[u].at \in {"bind", "undo"} =>
          task[u].at \in {"bind", "undo"} /\ task'[u].room = task[u].room
    BY <2>1 DEF OpenerMoves, Task
  <2>9. RoomsOK'
    BY <1>0, <2>1, <2>3, <2>4, <2>5, <2>7, <2>8, RoomsKept DEF IsOpen
  <2> QED BY <2>3, <2>5, <2>6, <2>9 DEF IInv
<1> QED BY <1>1, <1>2 DEF PostStart

LEMMA CalledKeeps ==
  ASSUME IInv, NEW t \in Openers, BindFails(t) \/ Tell(t) \/ OpenerFails(t)
  PROVE  IInv'
<1>0. TypesOK /\ t \in Task /\ UNCHANGED <<status, binding, clock, room, history>>
  BY DEF IInv, Task, BindFails, Tell, OpenerFails
<1>1. CASE BindFails(t)
  <2>1. task[t].at = "bind" /\ Steps(t, "undo")
    BY <1>1 DEF BindFails, Steps
  <2> QED BY <1>0, <2>1, StepsMoves, OpenerKeeps DEF Place
<1>2. CASE Tell(t) \/ OpenerFails(t)
  <2>1. Ends(t, TRUE) \/ Ends(t, FALSE)
    BY <1>2 DEF Tell, OpenerFails
  <2> QED BY <1>0, <2>1, EndsMoves, OpenerKeeps
<1> QED BY <1>1, <1>2

LEMMA CommandStartKeeps ==
  ASSUME IInv, CommandStart
  PROVE  IInv'
<1>0. /\ TypesOK /\ "start" \in Openers /\ "start" \in Task
      /\ UNCHANGED <<status, binding, clock, room, memory, file, poller, history>>
  BY DEF IInv, Openers, Task, CommandStart
<1>1. CASE task' = task
  BY <1>0, <1>1, SameMemory, OpenerKeeps, Facts DEF OpenerMoves
<1>2. CASE task' = [task EXCEPT !["start"].at = "read"]
  <2>1. Steps("start", "read")
    BY <1>0, <1>2 DEF Steps
  <2> QED BY <1>0, <2>1, StepsMoves, OpenerKeeps DEF Place
<1> QED BY <1>1, <1>2 DEF CommandStart, Enters

----------------------------------------------------------------------------
(* A room is made, bound and removed.                                      *)

LEMMA Demolished ==
  ASSUME TypesOK, NEW c \in Room, Demolish(c)
  PROVE  /\ room' \in [Room -> RoomRow] /\ room'[c].is = "gone" /\ room'[c].old = room[c].old
         /\ \A d \in Room \ {c} : room'[d] = room[d]
<1>1. ASSUME NEW no \in BOOLEAN
      PROVE  LET new == [room EXCEPT ![c].is = "gone", ![c].people = no]
             IN /\ new \in [Room -> RoomRow] /\ new[c].is = "gone" /\ new[c].old = room[c].old
                /\ \A d \in Room \ {c} : new[d] = room[d]
  BY Facts DEF RoomRow
<1>2. FALSE \in BOOLEAN
  OBVIOUS
<1> QED BY <1>1, <1>2 DEF Demolish

LEMMA Opened ==
  ASSUME TypesOK, NEW c \in Room, room' = [room EXCEPT ![c].is = "open"]
  PROVE  /\ room' \in [Room -> RoomRow] /\ room'[c].is = "open" /\ room'[c].old = room[c].old
         /\ \A d \in Room \ {c} : room'[d] = room[d]
  BY Facts DEF RoomRow

LEMMA FirstUnmade ==
  ASSUME Unmade # {}
  PROVE  (CHOOSE n \in Unmade : \A m \in Unmade : n <= m) \in Unmade
<1>1. Unmade \subseteq Nat
  BY FS_CardinalityType, VoiceAssumption DEF VoiceAssumption, Unmade
<1>2. PICK x \in Unmade : \A y \in Unmade : ~(<<y, x>> \in OpToRel(<, Nat))
  BY <1>1, NatLessThanWellFounded, WFMin
<1>3. \A y \in Unmade : x <= y
  <2> TAKE y \in Unmade
  <2>1. <<y, x>> \in Nat \X Nat
    BY <1>1
  <2>2. ~(y < x)
    BY <1>2, <2>1 DEF OpToRel
  <2> QED BY <1>1, <2>2
<1> QED BY <1>3

LEMMA CreateRoomKeeps ==
  ASSUME IInv, NEW t \in Openers, CreateRoom(t)
  PROVE  IInv'
<1>0. /\ TypesOK /\ MemoryOK /\ WatchOK /\ RoomsOK /\ t \in Task /\ t # "auto"
      /\ UNCHANGED <<status, binding, clock, memory, file, poller, history>>
  BY DEF IInv, Task, CreateRoom, Openers
<1>1. PICK c \in Unmade : /\ room' = [room EXCEPT ![c].is = "open"]
                          /\ task' = [task EXCEPT ![t] = [at |-> "bind", room |-> c]]
  BY FirstUnmade DEF CreateRoom
<1>2. c \in Room /\ c # None /\ room[c].is = "unmade"
  BY <1>1, VoiceAssumption DEF Unmade
<1>3. /\ room' \in [Room -> RoomRow] /\ room'[c].is = "open" /\ room'[c].old = room[c].old
      /\ \A d \in Room \ {c} : room'[d] = room[d]
  BY <1>0, <1>1, <1>2, Opened
<1>4. [at |-> "bind", room |-> c] \in TaskRow
  BY <1>2 DEF TaskRow, Place, RoomOrNone
<1>5. /\ task' \in [Task -> TaskRow] /\ task'[t].at = "bind" /\ task'[t].room = c
      /\ \A u \in Task \ {t} : task'[u] = task[u]
  BY <1>0, <1>1, <1>4, TaskSet
<1>6. ~room[c].old /\ binding # c /\ \A u \in Task : task[u].room # c
  BY <1>0, <1>2 DEF RoomsOK, UnmadeIsUnknown
<1>7. TypesOK'
  BY <1>0, <1>3, <1>5 DEF TypesOK
<1>8. task'["auto"] = task["auto"] /\ Remembers
  BY <1>0, <1>5, SameMemory DEF Task, Closers
<1>9. MemoryOK'
  BY <1>0, <1>8 DEF MemoryOK
<1>10. WatchOK'
  BY <1>0, <1>8 DEF WatchOK, FirstSession
<1>11. UnmadeIsUnknown'
  BY <1>0, <1>3, <1>5 DEF RoomsOK, UnmadeIsUnknown
<1>12. HeldIsYoung'
  <2> SUFFICES ASSUME NEW u \in Openers
               PROVE  /\ task'[u].at \in {"bind", "undo"} => task'[u].room # None
                      /\ task'[u].room # None => ~room'[task'[u].room].old
    BY DEF HeldIsYoung
  <2>1. CASE u = t
    BY <1>2, <1>3, <1>5, <1>6, <2>1
  <2>2. CASE u # t
    <3>1. u \in Task /\ task'[u] = task[u] /\ task[u].room \in RoomOrNone
      BY <1>0, <1>5, <2>2, Facts DEF Task, TaskRow
    <3>2. /\ task[u].at \in {"bind", "undo"} => task[u].room # None
          /\ task[u].room # None => ~room[task[u].room].old
      BY <1>0 DEF RoomsOK, HeldIsYoung
    <3> QED BY <1>3, <3>1, <3>2 DEF RoomOrNone
  <2> QED BY <2>1, <2>2
<1>13. SweptIsOld'
  BY <1>0, <1>3 DEF RoomsOK, SweptIsOld
<1>14. \A d \in RoomOrNone : There(d) => There(d)'
  BY <1>2, <1>3 DEF There
<1>15. HeldIsOwn'
  <2> SUFFICES ASSUME history.mishaps = {}, NEW u \in Openers, task'[u].room # None
               PROVE  /\ There(task[u].room)' /\ binding # task'[u].room
                      /\ \A k \in Task \ {u} : task'[k].room # task'[u].room
    BY <1>0 DEF HeldIsOwn
  <2>1. CASE u = t
    BY <1>2, <1>3, <1>5, <1>6, <2>1 DEF There
  <2>2. CASE u # t
    <3>1. u \in Task /\ task'[u] = task[u] /\ task[u].room \in RoomOrNone
      BY <1>0, <1>5, <2>2, Facts DEF Task, TaskRow
    <3>2. /\ There(task[u].room) /\ binding # task[u].room
          /\ \A k \in Task \ {u} : task[k].room # task[u].room
      BY <1>0, <3>1 DEF RoomsOK, HeldIsOwn
    <3>3. There(task[u].room)'
      BY <1>14, <3>1, <3>2
    <3> QED BY <1>5, <1>6, <3>1, <3>2, <3>3
  <2> QED BY <2>1, <2>2
<1>16. BoundRoomExists'
  BY <1>0, <1>14 DEF RoomsOK, BoundRoomExists, IsOpen, TypesOK
<1> QED BY <1>7, <1>9, <1>10, <1>11, <1>12, <1>13, <1>15, <1>16 DEF IInv, RoomsOK

LEMMA MishapNoted ==
  ASSUME TypesOK, NEW what \in SUBSET {"dead binding", "lost bind"},
         history' = [history EXCEPT !.mishaps = @ \cup what]
  PROVE  /\ history' \in HistoryRow /\ history'.mishaps = history.mishaps \cup what
         /\ history'.seen = history.seen /\ history'.looks = history.looks
         /\ history'.restored = history.restored /\ history'.hasty = history.hasty
<1> DEFINE all == history.mishaps \cup what
<1>1. all \in SUBSET {"dead binding", "lost bind"}
  BY Facts DEF HistoryRow
<1>2. history' = [history EXCEPT !.mishaps = all]
  OBVIOUS
<1>3. history'.mishaps = all
  BY <1>2, Facts DEF HistoryRow
<1> HIDE DEF all
<1>4. /\ history' \in HistoryRow
      /\ history'.seen = history.seen /\ history'.looks = history.looks
      /\ history'.restored = history.restored /\ history'.hasty = history.hasty
  BY <1>1, <1>2, Facts DEF HistoryRow
<1> QED BY <1>3, <1>4 DEF all

LEMMA BoundKeeps ==
  ASSUME IInv, NEW t \in Openers, task[t].at = "bind", binding' = task[t].room,
         UNCHANGED <<status, clock, room, memory, file, poller>>,
         \/ task' = [task EXCEPT ![t] = [at |-> "tell", room |-> None]] /\ history' = history
         \/ /\ task' = [task EXCEPT ![t].at = "undo"]
            /\ history' = [history EXCEPT !.mishaps = @ \cup {"lost bind"}]
  PROVE  IInv'
<1>0. TypesOK /\ MemoryOK /\ WatchOK /\ RoomsOK /\ t \in Task /\ t # "auto"
  BY DEF IInv, Task, Openers
<1>1. binding' \in Room /\ binding' # None /\ ~room[binding'].old
  <2>1. task[t].room \in RoomOrNone /\ task[t].room # None /\ ~room[task[t].room].old
    BY <1>0, Facts DEF TaskRow, RoomsOK, HeldIsYoung
  <2> QED BY <2>1 DEF RoomOrNone
<1>2. /\ history' \in HistoryRow /\ history.mishaps \subseteq history'.mishaps
      /\ history'.seen = history.seen /\ history'.looks = history.looks
      /\ history'.restored = history.restored /\ history'.hasty = history.hasty
      /\ "lost bind" \in history'.mishaps \/ history' = history
  <2>1. CASE history' = [history EXCEPT !.mishaps = @ \cup {"lost bind"}]
    <3>1. {"lost bind"} \in SUBSET {"dead binding", "lost bind"}
      OBVIOUS
    <3> QED BY <1>0, <2>1, <3>1, MishapNoted
  <2>2. CASE history' = history
    BY <1>0, <2>2, Facts
  <2> QED BY <2>1, <2>2
<1>3. /\ task' \in [Task -> TaskRow] /\ \A u \in Task \ {t} : task'[u] = task[u]
      /\ task'[t].at # "bind" /\ task'[t].room \in {None, task[t].room}
      /\ task'[t].room # None => history'.mishaps # {}
      /\ task'[t].at = "undo" => task'[t].room # None
  <2>1. CASE task' = [task EXCEPT ![t] = [at |-> "tell", room |-> None]]
    <3> DEFINE row == [at |-> "tell", room |-> None]
    <3>1. row \in TaskRow /\ row.at = "tell" /\ row.room = None
      BY DEF TaskRow, Place, RoomOrNone
    <3> HIDE DEF row
    <3>2. task' = [task EXCEPT ![t] = row]
      BY <2>1 DEF row
    <3> QED BY <1>0, <3>1, <3>2, TaskSet
  <2>2. CASE /\ task' = [task EXCEPT ![t].at = "undo"]
             /\ history' = [history EXCEPT !.mishaps = @ \cup {"lost bind"}]
    <3>1. {"lost bind"} \in SUBSET {"dead binding", "lost bind"}
      OBVIOUS
    <3>2. history'.mishaps # {}
      BY <1>0, <2>2, <3>1, MishapNoted
    <3>3. task[t].room # None
      BY <1>0 DEF RoomsOK, HeldIsYoung
    <3>4. /\ task' \in [Task -> TaskRow] /\ \A u \in Task \ {t} : task'[u] = task[u]
          /\ task'[t].at = "undo" /\ task'[t].room = task[t].room
      BY <1>0, <2>2, TaskMoves DEF Place
    <3> QED BY <3>2, <3>3, <3>4
  <2> QED BY <2>1, <2>2
<1>4. TypesOK'
  BY <1>0, <1>1, <1>3, <1>2 DEF TypesOK, RoomOrNone
<1>5. task'["auto"] = task["auto"]
  BY <1>0, <1>3 DEF Task, Closers
<1>6. MemoryOK' /\ WatchOK'
  BY <1>0, <1>2, <1>5 DEF MemoryOK, WatchOK, FirstSession
<1>7. UnmadeIsUnknown'
  <2>1. \A u \in Task : task'[u].room \in {None, task[u].room}
    BY <1>3
  <2>2. None \notin Room
    BY VoiceAssumption
  <2> QED BY <1>0, <2>1, <2>2 DEF RoomsOK, UnmadeIsUnknown
<1>8. HeldIsYoung'
  BY <1>0, <1>3 DEF RoomsOK, HeldIsYoung, Task
<1>9. SweptIsOld'
  BY <1>0, <1>1 DEF RoomsOK, SweptIsOld
<1>10. ASSUME history'.mishaps = {}
       PROVE  HeldIsOwn' /\ There(binding)'
  <2>1. /\ history.mishaps = {} /\ task'[t].room = None
        /\ There(task[t].room)
        /\ \A k \in Task \ {t} : task[k].room # task[t].room
    BY <1>0, <1>1, <1>3, <1>2, <1>10 DEF RoomsOK, HeldIsOwn
  <2>2. There(binding)'
    BY <2>1 DEF There
  <2>3. ASSUME NEW u \in Openers, task'[u].room # None
        PROVE  /\ There(task[u].room)' /\ binding' # task'[u].room
               /\ \A k \in Task \ {u} : task'[k].room # task'[u].room
    <3>1. u # t /\ u \in Task /\ task'[u] = task[u]
      BY <1>3, <2>1, <2>3 DEF Task
    <3>2. /\ There(task[u].room) /\ \A k \in Task \ {u} : task[k].room # task[u].room
      BY <1>0, <2>1, <2>3, <3>1 DEF RoomsOK, HeldIsOwn
    <3>3. There(task[u].room)'
      BY <3>1, <3>2 DEF There
    <3> QED BY <1>0, <1>3, <2>1, <2>3, <3>1, <3>2, <3>3
  <2> QED BY <2>2, <2>3 DEF HeldIsOwn
<1>11. HeldIsOwn' /\ BoundRoomExists'
  BY <1>10 DEF HeldIsOwn, BoundRoomExists
<1> QED BY <1>4, <1>6, <1>7, <1>8, <1>9, <1>11 DEF IInv, RoomsOK

LEMMA BindKeeps ==
  ASSUME IInv, NEW t \in Openers, BindRoom(t) \/ BindAnswerLost(t)
  PROVE  IInv'
<1>1. CASE BindAnswerLost(t)
  BY <1>1, BoundKeeps DEF BindAnswerLost
<1>2. CASE BindRoom(t) /\ Bindable(task[t].room)
  BY <1>2, BoundKeeps DEF BindRoom
<1>3. CASE BindRoom(t) /\ ~Bindable(task[t].room)
  <2>1. /\ task[t].at = "bind" /\ Steps(t, "undo")
        /\ UNCHANGED <<status, binding, clock, room, history>>
    BY <1>3 DEF BindRoom, Steps
  <2> QED BY <2>1, StepsMoves, OpenerKeeps DEF IInv, Place
<1> QED BY <1>1, <1>2, <1>3

\* A room is deleted that no run of Mass or Start holds and that is not needed.
LEMMA RoomsLess ==
  ASSUME TypesOK, RoomsOK, TypesOK', NEW c \in Room, Demolish(c),
         UNCHANGED <<status, binding>>,
         history.mishaps \subseteq history'.mishaps,
         \A t \in Task : task'[t].room \in {task[t].room, None},
         \A t \in Openers : task'[t].at \in {"bind", "undo"} =>
           task[t].at \in {"bind", "undo"} /\ task'[t].room = task[t].room,
         poller'.at \in {"sweep", "lookup", "unbind", "remove"} =>
           /\ poller'.todo = poller.todo
           /\ (poller'.at = "sweep" /\ poller.at = "remove") \/ poller' = poller,
         history'.mishaps = {} => /\ \A t \in Openers : task'[t].room # c
                                  /\ IsOpen => binding # c
  PROVE  RoomsOK'
<1>0. Openers \subseteq Task /\ None \notin Room
  BY VoiceAssumption DEF Task
<1>1. /\ room' \in [Room -> RoomRow] /\ room'[c].is = "gone"
      /\ \A d \in Room : room'[d].old = room[d].old
      /\ \A d \in Room \ {c} : room'[d] = room[d]
  BY Demolished
<1>2. UnmadeIsUnknown'
  BY <1>0, <1>1 DEF UnmadeIsUnknown, RoomsOK
<1>3. HeldIsYoung'
  <2> SUFFICES ASSUME NEW t \in Openers
               PROVE  /\ task'[t].at \in {"bind", "undo"} => task'[t].room # None
                      /\ task'[t].room # None => ~room'[task'[t].room].old
    BY DEF HeldIsYoung
  <2>1. task'[t].room \in {task[t].room, None} /\ task[t].room \in RoomOrNone
    BY <1>0, Facts DEF TaskRow
  <2> QED BY <1>1, <2>1 DEF HeldIsYoung, RoomsOK, RoomOrNone
<1>4. SweptIsOld'
  <2>1. CASE poller' = poller
    <3>1. poller' = poller /\ binding' = binding
      BY <2>1
    <3> QED BY <1>1, <3>1 DEF SweptIsOld, RoomsOK
  <2>2. CASE poller'.at = "sweep" /\ poller.at = "remove" /\ poller'.todo = poller.todo
    BY <1>1, <2>2 DEF SweptIsOld, RoomsOK
  <2>3. CASE poller'.at \notin {"sweep", "lookup", "unbind", "remove"}
    BY <2>3 DEF SweptIsOld
  <2> QED BY <2>1, <2>2, <2>3
<1>5. HeldIsOwn'
  <2> SUFFICES ASSUME history'.mishaps = {}, NEW t \in Openers, task'[t].room # None
               PROVE  /\ There(task[t].room)' /\ binding' # task'[t].room
                      /\ \A k \in Task \ {t} : task'[k].room # task'[t].room
    BY DEF HeldIsOwn
  <2>1. t \in Task /\ task'[t].room = task[t].room /\ history.mishaps = {} /\ task[t].room # c
    BY <1>0
  <2>2. /\ There(task[t].room) /\ binding # task[t].room
        /\ \A k \in Task \ {t} : task[k].room # task[t].room
    BY <2>1 DEF HeldIsOwn, RoomsOK
  <2>3. There(task[t].room)'
    BY <1>1, <2>1, <2>2 DEF There
  <2>4. ASSUME NEW k \in Task \ {t} PROVE task'[k].room # task'[t].room
    <3>1. task'[k].room \in {task[k].room, None}
      OBVIOUS
    <3> QED BY <2>1, <2>2, <3>1
  <2> QED BY <2>1, <2>2, <2>3, <2>4
<1>6. BoundRoomExists'
  <2> SUFFICES ASSUME IsOpen, binding # None, history'.mishaps = {} PROVE There(binding)'
    BY DEF BoundRoomExists, IsOpen
  <2>1. There(binding) /\ binding # c
    BY DEF BoundRoomExists, RoomsOK
  <2> QED BY <1>1, <2>1 DEF There
<1> QED BY <1>2, <1>3, <1>4, <1>5, <1>6 DEF RoomsOK

LEMMA UndoRoomKeeps ==
  ASSUME IInv, NEW t \in Openers, UndoRoom(t)
  PROVE  IInv'
<1>0. TypesOK /\ RoomsOK /\ t \in Task /\ UNCHANGED <<status, binding, clock, history>>
  BY DEF IInv, Task, UndoRoom
<1>1. OpenerMoves(t) /\ task'[t] = Resting /\ task'[t].at = "idle"
  BY <1>0, EndsMoves DEF UndoRoom
<1> DEFINE c == task[t].room
<1>2. c \in Room /\ Demolish(c) /\ c # None
  BY <1>0, Facts DEF TaskRow, RoomOrNone, RoomsOK, HeldIsYoung, UndoRoom
<1>3. room' \in [Room -> RoomRow]
  BY <1>0, <1>2, Demolished
<1>4. TypesOK'
  BY <1>0, <1>1, <1>3 DEF TypesOK, OpenerMoves, Remembers
<1>5. MemoryOK' /\ WatchOK'
  BY <1>0, <1>1, <1>4, OpenerKeepsRest
<1>6. \A u \in Task : task'[u].room \in {task[u].room, None}
  BY <1>1 DEF OpenerMoves, Resting
<1>7. \A u \in Openers : task'[u].at \in {"bind", "undo"} =>
        task[u].at \in {"bind", "undo"} /\ task'[u].room = task[u].room
  BY <1>1 DEF OpenerMoves, Task
<1>8. poller'.at \in {"sweep", "lookup", "unbind", "remove"} => poller' = poller
  BY <1>1 DEF OpenerMoves
<1>9. ASSUME history.mishaps = {}
      PROVE  (\A u \in Openers : task'[u].room # c) /\ binding # c
  <2>1. /\ binding # c /\ \A k \in Task \ {t} : task[k].room # c
    BY <1>0, <1>2, <1>9 DEF RoomsOK, HeldIsOwn
  <2>2. task'[t].room # c
    BY <1>1, <1>2 DEF Resting
  <2>3. \A u \in Task \ {t} : task'[u].room # c
    BY <1>1, <2>1 DEF OpenerMoves
  <2> QED BY <2>1, <2>2, <2>3 DEF Task
<1>10. RoomsOK'
  <2> HIDE DEF c
  <2> QED BY <1>0, <1>2, <1>4, <1>6, <1>7, <1>8, <1>9, RoomsLess
<1> QED BY <1>4, <1>5, <1>10 DEF IInv

LEMMA OpenerStep ==
  ASSUME IInv, NEW t \in Openers, Open(t)
  PROVE  IInv'
  BY CreateRoomKeeps, BindKeeps, CalledKeeps, UndoRoomKeeps DEF Open

----------------------------------------------------------------------------
(* Stop and Cancel.                                                        *)

\* A run ends, or goes on with the room it has or the one the event is bound to; the
\* poller waits for the watch's own.
CloserMoves(k) ==
  /\ task' \in [Task -> TaskRow] /\ \A u \in Task \ {k} : task'[u] = task[u]
  /\ task'[k].room \in {task[k].room, None, binding}
  /\ k = "auto" => task'[k].at # "post"
  /\ \/ poller' = poller /\ (k = "auto" => task[k].at # "idle" /\ task'[k].at # "idle")
     \/ /\ k = "auto" /\ task'[k].at = "idle"
        /\ poller'.at = "ended" /\ poller' \in PollerRow /\ poller'.found = poller.found
  /\ Remembers \/ Forgets

LEMMA FinishMoves ==
  ASSUME TypesOK, NEW k \in Closers, Finish(k, TRUE) \/ Finish(k, FALSE)
  PROVE  CloserMoves(k)
<1>1. ASSUME NEW well \in BOOLEAN, Finish(k, well)
      PROVE  CloserMoves(k)
  <2>1. /\ task' \in [Task -> TaskRow] /\ task'[k] = Resting
        /\ \A u \in Task \ {k} : task'[u] = task[u]
        /\ \/ k # "auto" /\ poller' = poller
           \/ /\ k = "auto" /\ poller'.at = "ended" /\ poller' \in PollerRow
              /\ poller'.found = poller.found
    BY <1>1, FinishDoes
  <2>2. Remembers \/ Forgets
    BY <1>1, FinishDoes DEF Forgets
  <2> QED BY <2>1, <2>2, RestingIsTask DEF CloserMoves
<1> QED BY <1>1

LEMMA StepsCloses ==
  ASSUME TypesOK, NEW k \in Closers, NEW to \in Place \ {"idle", "post"}, Steps(k, to),
         task[k].at # "idle"
  PROVE  CloserMoves(k)
<1>1. k \in Task
  BY DEF Task
<1>2. Remembers
  BY SameMemory DEF Steps
<1> QED BY <1>1, <1>2, StepsDoes DEF CloserMoves

LEMMA CloserKeepsRest ==
  ASSUME IInv, NEW k \in Closers, CloserMoves(k), TypesOK',
         status' = "scheduled" => status = "scheduled",
         history'.seen = history.seen, history'.looks = history.looks,
         history'.restored = history.restored,
         ~history'.restored => history'.hasty = history.hasty
  PROVE  MemoryOK' /\ WatchOK'
<1>0. "auto" \in Task /\ k \in Task
  BY DEF Task, Closers
<1>1. poller'.at = "auto" <=> task'["auto"].at # "idle"
  <2>1. poller.at = "auto" <=> task["auto"].at # "idle"
    BY DEF IInv, MemoryOK
  <2>2. CASE k = "auto"
    BY <2>1, <2>2 DEF CloserMoves
  <2>3. CASE k # "auto"
    BY <1>0, <2>1, <2>3 DEF CloserMoves
  <2> QED BY <2>2, <2>3
<1>2. MemoryOK'
  BY <1>1, MemoryKept DEF IInv, CloserMoves
<1>3. /\ poller'.found = poller.found
      /\ poller'.at = "watch" => poller'.found = "live"
  BY DEF CloserMoves, IInv, WatchOK
<1>4. /\ task["auto"].at = "idle" => task'["auto"].at = "idle"
      /\ task'["auto"].at = "post" => task["auto"].at = "post"
  <2>1. CASE k = "auto"
    BY <2>1 DEF CloserMoves
  <2>2. CASE k # "auto"
    BY <1>0, <2>2 DEF CloserMoves
  <2> QED BY <2>1, <2>2
<1>5. WatchOK'
  BY <1>3, <1>4, WatchKept DEF IInv, CloserMoves
<1> QED BY <1>2, <1>5

LEMMA CloserKeepsRooms ==
  ASSUME IInv, NEW k \in Closers, CloserMoves(k), TypesOK', room' = room,
         binding' \in {binding, None}, IsOpen' => IsOpen,
         history.mishaps \subseteq history'.mishaps
  PROVE  RoomsOK'
<1>1. \A u \in Task : \/ task'[u].room \in {task[u].room, None}
                      \/ u \in Closers /\ task'[u].room = binding
  BY DEF CloserMoves
<1>2. \A u \in Openers : u \in Task \ {k}
  BY DEF Task, Openers, Closers
<1>3. \A u \in Openers : task'[u].at \in {"bind", "undo"} =>
        task[u].at \in {"bind", "undo"} /\ task'[u].room = task[u].room
  BY <1>2 DEF CloserMoves
<1>4. poller'.at \in {"sweep", "lookup", "unbind", "remove"} => poller' = poller
  BY DEF CloserMoves
<1> QED BY <1>1, <1>3, <1>4, RoomsKept DEF IInv

LEMMA CloserKeeps ==
  ASSUME IInv, NEW k \in Closers, CloserMoves(k), binding' \in {binding, None},
         UNCHANGED <<status, clock, room, history>>
  PROVE  IInv'
<1>1. binding' \in RoomOrNone
  BY DEF IInv, TypesOK, RoomOrNone
<1>2. memory' \in MemoryRow /\ file' \in MemoryRow /\ poller' \in PollerRow
  BY Facts DEF IInv, CloserMoves, Remembers, Forgets
<1>3. TypesOK'
  BY <1>1, <1>2 DEF IInv, TypesOK, CloserMoves
<1>4. MemoryOK' /\ WatchOK'
  BY <1>3, CloserKeepsRest
<1>5. RoomsOK'
  BY <1>3, CloserKeepsRooms DEF IsOpen
<1> QED BY <1>3, <1>4, <1>5 DEF IInv

LEMMA CommandKeeps ==
  ASSUME IInv, NEW k \in Closers, Command(k)
  PROVE  IInv'
<1>1. /\ TypesOK /\ k \in Task /\ k # "auto"
      /\ task' = [task EXCEPT ![k].at = "post"]
      /\ UNCHANGED <<status, binding, clock, room, memory, file, poller, history>>
  BY DEF IInv, Task, Command
<1>2. /\ task' \in [Task -> TaskRow] /\ task'[k].room = task[k].room
      /\ \A u \in Task \ {k} : task'[u] = task[u]
  BY <1>1, TaskMoves DEF Place
<1>3. CloserMoves(k)
  BY <1>1, <1>2, SameMemory DEF CloserMoves
<1> QED BY <1>1, <1>3, CloserKeeps

LEMMA AnsweredKeeps ==
  ASSUME IInv, NEW k \in Closers,
         CloseRefused(k) \/ KeepRoom(k) \/ RoomNotFound(k) \/ DeleteFails(k) \/ ClearBinding(k)
           \/ ClearFails(k)
  PROVE  IInv'
<1>1. TypesOK /\ UNCHANGED <<status, clock, room, history>> /\ binding' \in {binding, None}
  BY DEF IInv, CloseRefused, KeepRoom, RoomNotFound, DeleteFails, ClearBinding, ClearFails
<1>2. CASE Finish(k, TRUE) \/ Finish(k, FALSE)
  BY <1>1, <1>2, FinishMoves, CloserKeeps
<1>3. CASE Steps(k, "clear") /\ task[k].at = "room"
  BY <1>1, <1>3, StepsCloses, CloserKeeps DEF Place
<1> QED BY <1>2, <1>3 DEF CloseRefused, KeepRoom, RoomNotFound, DeleteFails, ClearBinding, ClearFails

\* The watch's own stop of a first session follows two empty looks at a room that was
\* seen in use.
LEMMA PostCloseKeeps ==
  ASSUME IInv, NEW k \in Closers, PostClose(k)
  PROVE  IInv'
<1>0. /\ TypesOK /\ k \in Task /\ task[k].at = "post"
      /\ UNCHANGED <<binding, clock, room>> /\ (Cancels \/ Stops)
      /\ status' \in {"stopped", "cancelled"}
  BY DEF IInv, Task, PostClose, Cancels, Stops
<1>1. CloserMoves(k)
  <2>1. CASE Finish(k, TRUE)
    BY <1>0, <2>1, FinishMoves
  <2>2. CASE /\ task' = [task EXCEPT ![k] = [at |-> "room", room |-> binding]]
             /\ UNCHANGED <<poller, memory, file>>
    <3> DEFINE row == [at |-> "room", room |-> binding]
    <3>1. row \in TaskRow /\ row.at = "room" /\ row.room = binding
      BY <1>0 DEF TaskRow, Place, TypesOK
    <3> HIDE DEF row
    <3>2. task' = [task EXCEPT ![k] = row]
      BY <2>2 DEF row
    <3>3. /\ task' \in [Task -> TaskRow] /\ task'[k] = row
          /\ \A u \in Task \ {k} : task'[u] = task[u]
      BY <1>0, <3>1, <3>2, TaskSet
    <3>4. Remembers
      BY <1>0, <2>2, SameMemory
    <3> QED BY <1>0, <2>2, <3>1, <3>3, <3>4 DEF CloserMoves
  <2> QED BY <2>1, <2>2 DEF PostClose
<1>2. ASSUME ~history.restored PROVE ~Hasty(k)
  <2>1. CASE k # "auto"
    BY <2>1 DEF Hasty
  <2>2. CASE k = "auto"
    BY <1>0, <1>2, <2>2 DEF Hasty, IInv, WatchOK, FirstSession
  <2> QED BY <2>1, <2>2
<1>3. /\ history' \in HistoryRow /\ history'.mishaps = history.mishaps
      /\ history'.seen = history.seen /\ history'.looks = history.looks
      /\ history'.restored = history.restored
      /\ ~history'.restored => history'.hasty = history.hasty
  <2> DEFINE more == history.hasty \/ Hasty(k)
  <2>1. history.hasty \in BOOLEAN /\ more \in BOOLEAN /\ (~Hasty(k) => more = history.hasty)
    BY <1>0, Facts DEF HistoryRow, Hasty
  <2>2. history' = [history EXCEPT !.hasty = more]
    BY DEF PostClose
  <2> HIDE DEF more
  <2>3. /\ history' \in HistoryRow /\ history'.mishaps = history.mishaps
        /\ history'.seen = history.seen /\ history'.looks = history.looks
        /\ history'.restored = history.restored /\ history'.hasty = more
    BY <1>0, <2>1, <2>2, Facts DEF HistoryRow
  <2> QED BY <1>2, <2>1, <2>3
<1>4. memory' \in MemoryRow /\ file' \in MemoryRow /\ poller' \in PollerRow
  BY <1>0, <1>1, Facts DEF CloserMoves, Remembers, Forgets
<1>5. TypesOK'
  BY <1>0, <1>1, <1>3, <1>4 DEF TypesOK, CloserMoves
<1>6. MemoryOK' /\ WatchOK'
  BY <1>0, <1>1, <1>3, <1>5, CloserKeepsRest
<1>7. ~IsOpen'
  BY <1>0 DEF IsOpen
<1>8. RoomsOK'
  BY <1>0, <1>1, <1>3, <1>5, <1>7, CloserKeepsRooms
<1> QED BY <1>5, <1>6, <1>8 DEF IInv

LEMMA DeleteRoomKeeps ==
  ASSUME IInv, NEW k \in Closers, DeleteRoom(k)
  PROVE  IInv'
<1> DEFINE c == task[k].room
           what == IF IsOpen THEN {"dead binding"} ELSE {}
<1>0. /\ TypesOK /\ RoomsOK /\ k \in Task /\ k \notin Openers /\ task[k].at = "room"
      /\ Steps(k, "clear") /\ There(c) /\ Demolish(c) /\ UNCHANGED <<status, binding, clock>>
      /\ history' = [history EXCEPT !.mishaps = @ \cup what]
  BY DEF IInv, Task, DeleteRoom, Openers, Closers
<1>1. CloserMoves(k) /\ UNCHANGED <<poller, memory, file>>
  BY <1>0, StepsCloses DEF Place, Steps
<1>2. c \in Room /\ room' \in [Room -> RoomRow]
  BY <1>0, Demolished DEF There
<1>3. what \in SUBSET {"dead binding", "lost bind"} /\ (IsOpen => what # {})
  OBVIOUS
<1>4. task'[k].room = c /\ \A u \in Task \ {k} : task'[u] = task[u]
  BY <1>0, StepsDoes DEF Place
<1> HIDE DEF what, c
<1>5. /\ history' \in HistoryRow /\ history'.mishaps = history.mishaps \cup what
      /\ history'.seen = history.seen /\ history'.looks = history.looks
      /\ history'.restored = history.restored /\ history'.hasty = history.hasty
  BY <1>0, <1>3, MishapNoted
<1>6. TypesOK'
  BY <1>0, <1>1, <1>2, <1>5 DEF TypesOK, CloserMoves
<1>7. MemoryOK' /\ WatchOK'
  BY <1>0, <1>1, <1>5, <1>6, CloserKeepsRest
<1>8. /\ \A u \in Task : task'[u].room \in {task[u].room, None}
      /\ \A u \in Openers : u \in Task \ {k} /\ task'[u] = task[u]
  BY <1>0, <1>4 DEF c, Task
<1>9. ASSUME history'.mishaps = {}
      PROVE  (\A u \in Openers : task'[u].room # c) /\ (IsOpen => binding # c)
  <2>1. history.mishaps = {} /\ ~IsOpen
    BY <1>3, <1>5, <1>9
  <2>2. ASSUME NEW u \in Openers PROVE task[u].room # c
    <3>1. CASE task[u].room = None
      BY <1>2, <3>1, VoiceAssumption
    <3>2. CASE task[u].room # None
      BY <1>0, <1>8, <2>1, <3>2 DEF RoomsOK, HeldIsOwn, c
    <3> QED BY <3>1, <3>2
  <2> QED BY <1>8, <2>1, <2>2
<1>10. RoomsOK'
  BY <1>0, <1>1, <1>2, <1>5, <1>6, <1>8, <1>9, RoomsLess
<1> QED BY <1>6, <1>7, <1>10 DEF IInv

LEMMA CloserStep ==
  ASSUME IInv, NEW k \in Closers, Close(k)
  PROVE  IInv'
  BY PostCloseKeeps, AnsweredKeeps, DeleteRoomKeeps DEF Close

LEMMA RunStep ==
  ASSUME IInv, NEW t \in DOMAIN task, Run(t)
  PROVE  IInv'
<1>1. "start" \in Openers
  BY DEF Openers
<1> QED BY <1>1, BegunKeeps, PostStartKeeps, OpenerStep, CloserStep DEF Run, StartRun

----------------------------------------------------------------------------
(* The website, the members, the clock and a crash.                        *)

\* A request that only changes the status of the event.
LEMMA WebKeeps ==
  ASSUME IInv, WebStarts \/ WebStops \/ WebCancels
  PROVE  IInv'
<1>0. /\ TypesOK /\ MemoryOK /\ WatchOK /\ RoomsOK
      /\ UNCHANGED <<binding, clock, room, memory, file, task, poller>>
  BY DEF IInv, WebStarts, WebStops, WebCancels
<1>1. /\ status' \in {"live", "stopped", "cancelled"} /\ (IsOpen' => IsOpen)
      /\ GoesLive \/ history' = history
  BY <1>0 DEF WebStarts, WebStops, WebCancels, GoesLive, Stops, Cancels, IsOpen
<1>2. WatchOK' /\ history' \in HistoryRow /\ history'.mishaps = history.mishaps
  <2>1. CASE GoesLive
    BY <1>0, <2>1, WatchBegins, SameMemory
  <2>2. CASE history' = history
    BY <1>0, <1>1, <2>2, Facts DEF WatchOK, FirstSession
  <2> QED BY <1>1, <2>1, <2>2
<1>3. TypesOK' /\ MemoryOK'
  BY <1>0, <1>1, <1>2 DEF TypesOK, MemoryOK
<1>4. RoomsOK'
  BY <1>0, <1>1, <1>2, <1>3, RoomsKept
<1> QED BY <1>2, <1>3, <1>4 DEF IInv

\* A restored event has its old binding: if the room is gone, that is a mishap.
LEMMA RestoreKeeps ==
  ASSUME IInv, WebRestores
  PROVE  IInv'
<1> DEFINE what == IF binding = None \/ There(binding) THEN {} ELSE {"dead binding"}
<1>0. /\ TypesOK /\ MemoryOK /\ RoomsOK /\ status' = "scheduled"
      /\ UNCHANGED <<binding, clock, room, memory, file, task, poller>>
      /\ history' = [history EXCEPT !.restored = TRUE, !.mishaps = @ \cup what]
  BY DEF IInv, WebRestores
<1>1. what \in SUBSET {"dead binding", "lost bind"}
  OBVIOUS
<1>2. binding = None \/ There(binding) \/ what # {}
  OBVIOUS
<1> HIDE DEF what
<1>3. /\ history' \in HistoryRow /\ history'.mishaps = history.mishaps \cup what
      /\ history'.restored
  <2> DEFINE all == history.mishaps \cup what
  <2>1. all \in SUBSET {"dead binding", "lost bind"}
    BY <1>0, <1>1, Facts DEF HistoryRow
  <2>2. history' = [history EXCEPT !.restored = TRUE, !.mishaps = all]
    BY <1>0
  <2>3. history'.mishaps = all
    BY <1>0, <2>2, Facts DEF HistoryRow
  <2> HIDE DEF all
  <2>4. ASSUME NEW yes \in BOOLEAN
        PROVE  LET new == [history EXCEPT !.restored = yes, !.mishaps = all]
               IN new \in HistoryRow /\ new.restored = yes
    BY <1>0, <2>1, Facts DEF HistoryRow
  <2>5. history' \in HistoryRow /\ history'.restored = TRUE
    BY <2>2, <2>4
  <2> QED BY <2>3, <2>5 DEF all
<1>4. TypesOK' /\ MemoryOK'
  BY <1>0, <1>3 DEF TypesOK, MemoryOK
<1>5. WatchOK'
  BY <1>0, <1>3 DEF IInv, WatchOK
<1>6. UnmadeIsUnknown' /\ HeldIsYoung' /\ SweptIsOld'
  BY <1>0 DEF RoomsOK, UnmadeIsUnknown, HeldIsYoung, SweptIsOld
<1>7. HeldIsOwn'
  BY <1>0, <1>3 DEF RoomsOK, HeldIsOwn, There
<1>8. BoundRoomExists'
  BY <1>0, <1>2, <1>3 DEF BoundRoomExists, There
<1> QED BY <1>4, <1>5, <1>6, <1>7, <1>8 DEF IInv, RoomsOK

\* People come and go, and a room that no run holds grows old.
LEMMA RoomLivesOn ==
  ASSUME IInv, NEW c \in Room, NEW row \in RoomRow, There(c),
         room' = [room EXCEPT ![c] = row], row.is = "open",
         room[c].old => row.old, row.old => room[c].old \/ ~Held(c),
         UNCHANGED <<status, binding, clock, memory, file, task, poller, history>>
  PROVE  IInv'
<1>0. TypesOK /\ MemoryOK /\ RoomsOK /\ WatchOK /\ Openers \subseteq Task /\ None \notin Room
  BY VoiceAssumption DEF IInv, Task
<1>1. /\ room' \in [Room -> RoomRow] /\ room'[c] = row /\ room[c].is = "open"
      /\ \A d \in Room \ {c} : room'[d] = room[d]
  BY <1>0, Facts DEF There
<1>2. TypesOK' /\ MemoryOK' /\ WatchOK'
  BY <1>0, <1>1 DEF TypesOK, MemoryOK, WatchOK, FirstSession
<1>3. UnmadeIsUnknown'
  BY <1>0, <1>1 DEF RoomsOK, UnmadeIsUnknown
<1>4. HeldIsYoung'
  <2> SUFFICES ASSUME NEW t \in Openers
               PROVE  /\ task[t].at \in {"bind", "undo"} => task[t].room # None
                      /\ task[t].room # None => ~room'[task[t].room].old
    BY DEF HeldIsYoung
  <2>1. /\ task[t].at \in {"bind", "undo"} => task[t].room # None
        /\ task[t].room # None => ~room[task[t].room].old
    BY <1>0 DEF RoomsOK, HeldIsYoung
  <2>2. task[t].room \in RoomOrNone
    BY <1>0, Facts DEF TaskRow
  <2>3. CASE task[t].room = c
    BY <1>0, <1>1, <2>1, <2>3 DEF Held
  <2>4. CASE task[t].room # c
    BY <1>1, <2>1, <2>2, <2>4 DEF RoomOrNone
  <2> QED BY <2>3, <2>4
<1>5. SweptIsOld'
  BY <1>0, <1>1 DEF RoomsOK, SweptIsOld
<1>6. HeldIsOwn'
  <2> SUFFICES ASSUME history.mishaps = {}, NEW t \in Openers, task[t].room # None
               PROVE  /\ There(task[t].room)' /\ binding # task[t].room
                      /\ \A k \in Task \ {t} : task[k].room # task[t].room
    BY DEF HeldIsOwn
  <2>1. task[t].room \in RoomOrNone
    BY <1>0, Facts DEF TaskRow
  <2>2. /\ There(task[t].room) /\ binding # task[t].room
        /\ \A k \in Task \ {t} : task[k].room # task[t].room
    BY <1>0 DEF RoomsOK, HeldIsOwn
  <2>3. There(task[t].room)'
    BY <1>1, <2>1, <2>2 DEF There
  <2> QED BY <2>2, <2>3
<1>7. BoundRoomExists'
  <2> SUFFICES ASSUME IsOpen, binding # None, history.mishaps = {} PROVE There(binding)'
    BY DEF BoundRoomExists, IsOpen
  <2>1. There(binding)
    BY <1>0 DEF RoomsOK, BoundRoomExists
  <2> QED BY <1>1, <2>1 DEF There
<1> QED BY <1>2, <1>3, <1>4, <1>5, <1>6, <1>7 DEF IInv, RoomsOK

LEMMA LifeKeeps ==
  ASSUME IInv, NEW c \in Room, RoomAges(c) \/ MemberJoins(c) \/ LastMemberLeaves(c)
  PROVE  IInv'
<1>0. /\ There(c) /\ room[c] \in RoomRow /\ room[c].is = "open" /\ room[c].old \in BOOLEAN
      /\ UNCHANGED <<status, binding, clock, memory, file, task, poller, history>>
  BY Facts DEF IInv, RoomAges, MemberJoins, LastMemberLeaves, Occupied, There, RoomRow
<1>1. CASE RoomAges(c)
  <2>1. ASSUME NEW yes \in BOOLEAN
        PROVE  LET row == [room[c] EXCEPT !.old = yes]
               IN row \in RoomRow /\ row.is = "open" /\ row.old = yes
    BY <1>0 DEF RoomRow
  <2> DEFINE row == [room[c] EXCEPT !.old = TRUE]
  <2>2. row \in RoomRow /\ row.is = "open" /\ row.old = TRUE
    BY <2>1
  <2>3. ~Held(c) /\ room' = [room EXCEPT ![c] = row]
    BY <1>1 DEF RoomAges
  <2> HIDE DEF row
  <2> QED BY <1>0, <2>2, <2>3, RoomLivesOn
<1>2. ASSUME NEW some \in BOOLEAN, room' = [room EXCEPT ![c].people = some]
      PROVE  IInv'
  <2> DEFINE row == [room[c] EXCEPT !.people = some]
  <2>1. row \in RoomRow /\ row.is = "open" /\ row.old = room[c].old
    BY <1>0 DEF RoomRow
  <2>2. room' = [room EXCEPT ![c] = row]
    BY <1>2
  <2> HIDE DEF row
  <2> QED BY <1>0, <2>1, <2>2, RoomLivesOn
<1>3. CASE MemberJoins(c)
  BY <1>2, <1>3 DEF MemberJoins
<1>4. CASE LastMemberLeaves(c)
  BY <1>2, <1>4 DEF LastMemberLeaves
<1> QED BY <1>1, <1>3, <1>4

LEMMA TimeKeeps ==
  ASSUME IInv, TimePasses
  PROVE  IInv'
<1>1. UNCHANGED <<status, binding, room, memory, file, task, poller, history>> /\ clock' \in Hour
  BY DEF TimePasses, Later, Hour
<1>2. TypesOK' /\ MemoryOK' /\ WatchOK'
  BY <1>1 DEF IInv, TypesOK, MemoryOK, WatchOK, FirstSession
<1>3. UnmadeIsUnknown' /\ HeldIsYoung' /\ SweptIsOld' /\ HeldIsOwn' /\ BoundRoomExists'
  BY <1>1 DEF IInv, RoomsOK, UnmadeIsUnknown, HeldIsYoung, SweptIsOld, HeldIsOwn,
              BoundRoomExists, There, IsOpen
<1> QED BY <1>2, <1>3 DEF IInv, RoomsOK

\* What the watch had saved is true of the session as well.
LEMMA CrashKeeps ==
  ASSUME IInv, Crash
  PROVE  IInv'
<1>0. /\ TypesOK /\ MemoryOK /\ RoomsOK /\ WatchOK /\ "auto" \in Task
      /\ memory' = file /\ poller' = Asleep
      /\ UNCHANGED <<status, binding, clock, room, file, history>>
  BY DEF IInv, Crash, Task, Closers
<1>1. task' = [t \in Task |-> Resting]
  BY <1>0 DEF Crash, TypesOK
<1>2. /\ task' \in [Task -> TaskRow]
      /\ \A t \in Task : task'[t].at = "idle" /\ task'[t].room = None
  BY <1>1, RestingIsTask
<1>3. TypesOK'
  BY <1>0, <1>2, AsleepIsPoller DEF TypesOK
<1>4. MemoryOK'
  BY <1>0, <1>2, AsleepIsPoller DEF MemoryOK
<1>5. WatchOK'
  BY <1>0, <1>2, AsleepIsPoller DEF WatchOK, FirstSession
<1>6. \A t \in Openers : t \in Task
  BY DEF Task
<1>7. RoomsOK'
  BY <1>0, <1>2, <1>3, <1>6, AsleepIsPoller, RoomsKept DEF IsOpen
<1> QED BY <1>3, <1>4, <1>5, <1>7 DEF IInv

----------------------------------------------------------------------------
(* The poller.                                                             *)

\* A step outside the sweep, which may start a run of Mass or Start.
LEMMA PollerKeeps ==
  ASSUME IInv, poller.at # "auto", poller' \in PollerRow, Remembers \/ Forgets,
         poller'.at \notin {"auto", "sweep", "lookup", "unbind", "remove"},
         poller'.at = "watch" => poller'.found = "live",
         poller'.found = "live" => poller.found = "live" \/ status # "scheduled",
         UNCHANGED <<status, binding, clock, room, history>>,
         task' = task \/ \E t \in Openers : task' = [task EXCEPT ![t].at = "read"]
  PROVE  IInv'
<1>0. TypesOK /\ MemoryOK /\ RoomsOK /\ WatchOK /\ "auto" \in Task
  BY DEF IInv, Task, Closers
<1>1. /\ task' \in [Task -> TaskRow] /\ task'["auto"] = task["auto"]
      /\ \A t \in Task : task'[t].room = task[t].room
      /\ \A t \in Openers : task'[t].at \in {"bind", "undo"} => task[t].at \in {"bind", "undo"}
  <2>1. CASE task' = task
    BY <1>0, <2>1, Facts
  <2>2. ASSUME NEW t \in Openers, task' = [task EXCEPT ![t].at = "read"]
        PROVE  /\ task' \in [Task -> TaskRow] /\ task'["auto"] = task["auto"]
               /\ \A u \in Task : task'[u].room = task[u].room
               /\ \A u \in Openers : task'[u].at \in {"bind", "undo"} =>
                    task[u].at \in {"bind", "undo"}
    <3>1. t \in Task /\ t # "auto" /\ (\A u \in Openers : u \in Task) /\ "read" \in Place
      BY DEF Task, Openers, Place
    <3>2. /\ task' \in [Task -> TaskRow] /\ task'[t].at = "read"
          /\ task'[t].room = task[t].room /\ \A u \in Task \ {t} : task'[u] = task[u]
      BY <1>0, <2>2, <3>1, TaskMoves
    <3> QED BY <1>0, <3>1, <3>2
  <2> QED BY <2>1, <2>2
<1>2. memory' \in MemoryRow /\ file' \in MemoryRow
  BY <1>0, Facts DEF Remembers, Forgets
<1>3. TypesOK'
  BY <1>0, <1>1, <1>2 DEF TypesOK
<1>4. poller'.at = "auto" <=> task'["auto"].at # "idle"
  BY <1>0, <1>1 DEF MemoryOK
<1>5. MemoryOK'
  BY <1>0, <1>4, MemoryKept
<1>6. WatchOK'
  BY <1>0, <1>1, <1>3, WatchKept
<1>7. \A t \in Openers : t \in Task
  BY DEF Task
<1>8. RoomsOK'
  BY <1>0, <1>1, <1>3, <1>7, RoomsKept DEF IsOpen
<1> QED BY <1>3, <1>5, <1>6, <1>8 DEF IInv

LEMMA ListKeeps ==
  ASSUME IInv, NEW s \in {"scheduled", "live"}, List(s)
  PROVE  IInv'
<1> DEFINE found == IF status = s /\ poller.found # "scheduled" THEN s ELSE poller.found
           at == IF poller.todo = {s} THEN "decide" ELSE poller.at
           bound == IF status = s /\ s = "live" THEN binding ELSE poller.room
           todo == poller.todo \ {s}
<1>0. /\ TypesOK /\ poller.at = "list"
      /\ UNCHANGED <<status, binding, clock, room, memory, file, task, history>>
      /\ poller' = [poller EXCEPT !.todo = todo, !.at = at, !.due = clock, !.found = found,
                                  !.room = bound]
  BY DEF IInv, List
<1>1. /\ at \in {"list", "decide"} /\ bound \in RoomOrNone
      /\ todo \in SUBSET (Room \cup {"scheduled", "live"})
      /\ found \in {"nothing", "scheduled", "live"}
      /\ found = "live" => poller.found = "live" \/ status # "scheduled"
  BY <1>0, Facts DEF PollerRow, TypesOK
<1> HIDE DEF found, at, bound, todo
<1>2. clock \in Hour /\ at \in Stage
  BY <1>0, <1>1 DEF TypesOK, Stage
<1>3. poller' \in PollerRow /\ poller'.at = at /\ poller'.found = found
  BY <1>0, <1>1, <1>2, Facts DEF PollerRow
<1> QED BY <1>0, <1>1, <1>3, PollerKeeps, SameMemory

\* The poller takes up its next stage and nothing else happens to the watch.
LEMMA GoesKeeps ==
  ASSUME IInv, poller.at # "auto", Remembers \/ Forgets,
         NEW to \in {"mass", "massed", "start", "ended", "watch"}, Goes(to),
         to = "watch" => poller.found = "live",
         UNCHANGED <<status, binding, clock, room, history>>,
         task' = task \/ \E t \in Openers : task' = [task EXCEPT ![t].at = "read"]
  PROVE  IInv'
<1>1. to \in Stage /\ TypesOK
  BY DEF Stage, IInv
<1>2. poller' \in PollerRow /\ poller'.at = to /\ poller'.found = poller.found
  BY <1>1, PollerMoves DEF Goes
<1> QED BY <1>2, PollerKeeps

LEMMA EntersIs ==
  ASSUME NEW t \in Openers, task' = Enters(t)
  PROVE  task' = task \/ \E u \in Openers : task' = [task EXCEPT ![u].at = "read"]
  BY DEF Enters

LEMMA LifecycleKeeps ==
  ASSUME IInv, Wake \/ ListFails \/ DecideScheduled \/ AfterMass \/ DecideLive
               \/ DecideNothing \/ WatchFails \/ EndSweep
  PROVE  IInv'
<1>0. TypesOK /\ "mass" \in Openers /\ "start" \in Openers
  BY DEF IInv, Openers
<1>1. CASE Wake
  <2>1. poller' = [Asleep EXCEPT !.at = "list", !.todo = {"scheduled", "live"}]
    BY <1>1 DEF Wake
  <2>2. poller' \in PollerRow /\ poller'.at = "list" /\ poller'.found = "nothing"
    BY <2>1 DEF Asleep, PollerRow, Stage, RoomOrNone, Hour
  <2> QED BY <1>0, <1>1, <2>2, PollerKeeps, SameMemory DEF Wake
<1>2. CASE ListFails
  <2>1. poller' = [Asleep EXCEPT !.at = "ended"]
    BY <1>2 DEF ListFails
  <2>2. poller' \in PollerRow /\ poller'.at = "ended" /\ poller'.found = "nothing"
    BY <2>1 DEF Asleep, PollerRow, Stage, RoomOrNone, Hour
  <2> QED BY <1>0, <1>2, <2>2, PollerKeeps, SameMemory DEF ListFails
<1>3. CASE DecideScheduled
  <2>1. /\ poller.at = "decide" /\ Remembers
        /\ UNCHANGED <<status, binding, clock, room, history>>
    BY <1>0, <1>3, SameMemory DEF DecideScheduled
  <2>2. CASE Goes("mass") /\ task' = Enters("mass")
    BY <1>0, <2>1, <2>2, EntersIs, GoesKeeps
  <2>3. CASE (Goes("ended") \/ Goes("massed")) /\ task' = task
    BY <2>1, <2>3, GoesKeeps
  <2> QED BY <1>3, <2>2, <2>3 DEF DecideScheduled
<1>4. CASE AfterMass
  <2>1. /\ poller.at = "massed" /\ Remembers
        /\ UNCHANGED <<status, binding, clock, room, history>>
    BY <1>0, <1>4, SameMemory DEF AfterMass
  <2>2. CASE Goes("start") /\ task' = Enters("start")
    BY <1>0, <2>1, <2>2, EntersIs, GoesKeeps
  <2>3. CASE Goes("ended") /\ task' = task
    BY <2>1, <2>3, GoesKeeps
  <2> QED BY <1>4, <2>2, <2>3 DEF AfterMass
<1>5. CASE DecideLive
  <2>1. /\ poller.at = "decide" /\ poller.found = "live"
        /\ UNCHANGED <<status, binding, clock, room, history, task, file>>
    BY <1>5 DEF DecideLive
  <2>2. CASE Goes("watch") /\ UNCHANGED memory
    BY <1>0, <2>1, <2>2, SameMemory, GoesKeeps
  <2>3. CASE Goes("ended") /\ memory' = [memory EXCEPT !.occupied = FALSE, !.empty = 0]
    <3>1. memory' \in MemoryRow /\ memory'.occupied = FALSE /\ memory'.empty = 0
      BY <1>0, <2>3, MemoryForgets
    <3> QED BY <2>1, <2>3, <3>1, GoesKeeps DEF Forgets
  <2> QED BY <1>5, <2>2, <2>3 DEF DecideLive
<1>6. CASE DecideNothing
  BY <1>0, <1>6, SameMemory, GoesKeeps DEF DecideNothing
<1>7. CASE WatchFails
  BY <1>0, <1>7, SameMemory, GoesKeeps DEF WatchFails
<1>8. CASE EndSweep
  <2>1. Remembers
    BY <1>0, <1>8, Facts DEF EndSweep, Remembers
  <2> QED BY <1>8, <2>1, AsleepIsPoller, PollerKeeps DEF EndSweep
<1> QED BY <1>1, <1>2, <1>3, <1>4, <1>5, <1>6, <1>7, <1>8

\* Two empty looks in memory are two empty looks of the session.
LEMMA WatchKeeps ==
  ASSUME IInv, Watch
  PROVE  IInv'
<1> DEFINE people == Occupied(poller.room)
           empty == EmptyAfter(people)
           occupied == memory.occupied \/ people
           kept == IF empty > StopTicks THEN StopTicks ELSE empty
           seen == history.seen \/ people
           looks == IF people THEN 0 ELSE IF history.looks < 2 THEN history.looks + 1 ELSE history.looks
           stops == empty >= StopTicks
<1>0. /\ TypesOK /\ MemoryOK /\ RoomsOK /\ WatchOK /\ "auto" \in Task /\ poller.at = "watch"
      /\ UNCHANGED <<status, binding, clock, room>>
      /\ poller.found = "live" /\ task["auto"].at = "idle"
  BY DEF IInv, Task, Closers, Watch, WatchOK, MemoryOK
<1>1. /\ memory.empty \in 0..2 /\ memory.occupied \in BOOLEAN /\ history.looks \in 0..2
      /\ file.empty \in 0..2 /\ history.seen \in BOOLEAN
      /\ people \in BOOLEAN /\ (memory.empty > 0 => memory.occupied)
  BY <1>0, Facts DEF MemoryRow, HistoryRow, RoomRow, Occupied, There, MemoryOK
<1>2. /\ memory' = [memory EXCEPT !.occupied = occupied, !.empty = kept]
      /\ history' = [history EXCEPT !.seen = seen, !.looks = looks]
      /\ \/ stops /\ Goes("auto") /\ task' = [task EXCEPT !["auto"].at = "post"] /\ file' = file
         \/ ~stops /\ Goes("ended") /\ file' = memory' /\ task' = task
  BY DEF Watch, Save
<1>3. /\ occupied \in BOOLEAN /\ seen \in BOOLEAN /\ looks \in 0..2 /\ kept \in 0..2
      /\ (occupied <=> memory.occupied \/ people) /\ (seen <=> history.seen \/ people)
      /\ kept > 0 => occupied
      /\ ~people => looks >= history.looks
      /\ stops => ~people /\ memory.occupied /\ memory.empty >= 1
      /\ memory.empty <= history.looks => kept <= looks /\ (stops => looks >= 2)
  <2>1. people \in BOOLEAN /\ memory.occupied \in BOOLEAN
    BY <1>1
  <2>2. occupied \in BOOLEAN /\ seen \in BOOLEAN
    BY <1>1
  <2>3. CASE people
    BY <1>1, <2>2, <2>3 DEF EmptyAfter, StopTicks
  <2>4. CASE ~people /\ ~memory.occupied
    BY <1>1, <2>2, <2>4 DEF EmptyAfter, StopTicks
  <2>5. CASE ~people /\ memory.occupied
    BY <1>1, <2>2, <2>5 DEF EmptyAfter, StopTicks
  <2> QED BY <2>1, <2>3, <2>4, <2>5
<1> HIDE DEF people, empty, occupied, kept, seen, looks, stops
<1>4. memory' \in MemoryRow /\ memory'.occupied = occupied /\ memory'.empty = kept
  BY <1>0, <1>2, <1>3, Facts DEF MemoryRow
<1>5. /\ history' \in HistoryRow /\ history'.seen = seen /\ history'.looks = looks
      /\ history'.mishaps = history.mishaps /\ history'.hasty = history.hasty
      /\ history'.restored = history.restored
  BY <1>0, <1>2, <1>3, Facts DEF HistoryRow
<1>6. /\ poller' \in PollerRow /\ poller'.found = "live"
      /\ poller'.at = IF stops THEN "auto" ELSE "ended"
  <2>1. CASE Goes("auto") /\ stops
    BY <1>0, <2>1, PollerMoves DEF Goes, Stage
  <2>2. CASE Goes("ended") /\ ~stops
    BY <1>0, <2>2, PollerMoves DEF Goes, Stage
  <2> QED BY <1>2, <2>1, <2>2
<1>7. /\ task' \in [Task -> TaskRow] /\ \A t \in Task \ {"auto"} : task'[t] = task[t]
      /\ \A t \in Task : task'[t].room = task[t].room
      /\ task'["auto"].at = IF stops THEN "post" ELSE "idle"
  <2>1. CASE stops /\ task' = [task EXCEPT !["auto"].at = "post"]
    <3>1. "post" \in Place
      BY DEF Place
    <3>2. /\ task' \in [Task -> TaskRow] /\ task'["auto"].at = "post"
          /\ task'["auto"].room = task["auto"].room
          /\ \A t \in Task \ {"auto"} : task'[t] = task[t]
      BY <1>0, <2>1, <3>1, TaskMoves
    <3> QED BY <2>1, <3>2
  <2>2. CASE ~stops /\ task' = task
    BY <1>0, <2>2, Facts
  <2> QED BY <1>2, <2>1, <2>2
<1>8. file' \in MemoryRow /\ file' = IF stops THEN file ELSE memory'
  BY <1>0, <1>2, <1>4, Facts
<1>9. TypesOK'
  BY <1>0, <1>4, <1>5, <1>6, <1>7, <1>8 DEF TypesOK
<1>10. MemoryOK'
  BY <1>0, <1>3, <1>4, <1>6, <1>7, <1>8 DEF MemoryOK
<1>11. ASSUME ~history.restored PROVE FirstSession'
  <2>1. FirstSession
    BY <1>0, <1>11 DEF WatchOK
  <2>2. status # "scheduled" /\ memory.empty <= history.looks /\ file.empty <= history.looks
    BY <1>0, <2>1 DEF FirstSession
  <2>3. /\ memory'.occupied \/ file'.occupied => history'.seen
        /\ memory'.empty <= history'.looks
    BY <1>1, <1>3, <1>4, <1>5, <1>8, <2>1, <2>2 DEF FirstSession
  <2>4. file'.empty <= history'.looks
    BY <1>1, <1>3, <1>4, <1>5, <1>8, <2>2
  <2>5. task'["auto"].at = "post" => history'.seen /\ history'.looks >= 2
    BY <1>3, <1>5, <1>7, <2>1, <2>2 DEF FirstSession
  <2>6. ~history'.hasty /\ status' # "scheduled"
    BY <1>0, <1>5, <2>1, <2>2 DEF FirstSession
  <2> QED BY <2>3, <2>4, <2>5, <2>6 DEF FirstSession
<1>12. WatchOK'
  BY <1>5, <1>6, <1>11 DEF WatchOK
<1>13. \A t \in Openers : t \in Task \ {"auto"}
  BY DEF Task, Openers
<1>14. RoomsOK'
  BY <1>0, <1>5, <1>6, <1>7, <1>9, <1>13, RoomsKept DEF IsOpen
<1> QED BY <1>9, <1>10, <1>12, <1>14 DEF IInv

\* A step of the sweep that leaves the rooms as they are.
LEMMA SweepKeeps ==
  ASSUME IInv, poller.at # "auto", poller' \in PollerRow, poller'.at \notin {"auto", "watch"},
         poller'.found = "live" => poller.found = "live",
         binding' \in {binding, None}, SweptIsOld',
         UNCHANGED <<status, clock, room, memory, file, task, history>>
  PROVE  IInv'
<1>0. TypesOK /\ MemoryOK /\ RoomsOK /\ WatchOK /\ None \notin Room
  BY VoiceAssumption DEF IInv
<1>1. TypesOK'
  BY <1>0 DEF TypesOK, RoomOrNone
<1>2. MemoryOK'
  BY <1>0 DEF MemoryOK
<1>3. WatchOK'
  BY <1>0 DEF WatchOK, FirstSession
<1>4. UnmadeIsUnknown' /\ HeldIsYoung'
  BY <1>0 DEF RoomsOK, UnmadeIsUnknown, HeldIsYoung
<1>5. HeldIsOwn'
  BY <1>0 DEF RoomsOK, HeldIsOwn, There
<1>6. BoundRoomExists'
  BY <1>0 DEF RoomsOK, BoundRoomExists, There, IsOpen
<1> QED BY <1>1, <1>2, <1>3, <1>4, <1>5, <1>6 DEF IInv, RoomsOK

LEMMA SkipsMoves ==
  ASSUME TypesOK, Skips
  PROVE  /\ poller' \in PollerRow /\ poller'.at = "sweep" /\ poller'.found = poller.found
         /\ poller'.todo = poller.todo
  BY Facts DEF Skips, PollerRow, Stage, RoomOrNone

\* The sweep starts with old rooms, and loses them one by one.
LEMMA SweepStep ==
  ASSUME IInv,
         StartSweep \/ (\E c \in Room : SweepCounts(c)) \/ SweepReads \/ SweepUnbinds \/ SweepFails
  PROVE  IInv'
<1>0. TypesOK /\ SweptIsOld
  BY DEF IInv, RoomsOK
<1>1. CASE StartSweep
  <2>1. poller' = [Asleep EXCEPT !.at = "sweep", !.todo = Sweepable]
    BY <1>1 DEF StartSweep
  <2>2. /\ poller' \in PollerRow /\ poller'.at = "sweep" /\ poller'.found = "nothing"
        /\ poller'.todo = Sweepable
    BY <2>1 DEF Asleep, PollerRow, Stage, RoomOrNone, Hour, Sweepable
  <2>3. SweptIsOld'
    BY <1>1, <2>2 DEF StartSweep, Sweepable, SweptIsOld
  <2> QED BY <1>1, <2>2, <2>3, SweepKeeps DEF StartSweep
<1>2. ASSUME NEW c \in Room, SweepCounts(c) PROVE IInv'
  <2> DEFINE todo == poller.todo \ {c}
             at == IF Occupied(c) \/ ~There(c) THEN "sweep" ELSE "lookup"
  <2>1. /\ poller' = [poller EXCEPT !.todo = todo, !.room = c, !.at = at]
        /\ poller.at = "sweep" /\ c \in poller.todo
        /\ UNCHANGED <<status, binding, clock, room, memory, file, task, history>>
    BY <1>2 DEF SweepCounts
  <2>2. at \in {"sweep", "lookup"} /\ todo \in SUBSET (Room \cup {"scheduled", "live"})
    BY <1>0, Facts DEF PollerRow
  <2> HIDE DEF at
  <2>3. /\ poller' \in PollerRow /\ poller'.at = at /\ poller'.found = poller.found
        /\ poller'.todo = todo /\ poller'.room = c
    BY <1>0, <2>1, <2>2, Facts DEF PollerRow, Stage, RoomOrNone
  <2>4. SweptIsOld'
    BY <1>0, <2>1, <2>2, <2>3 DEF SweptIsOld
  <2> QED BY <2>1, <2>2, <2>3, <2>4, SweepKeeps
<1>3. CASE SweepReads
  <2>1. /\ poller.at = "lookup"
        /\ UNCHANGED <<status, binding, clock, room, memory, file, task, history>>
    BY <1>3 DEF SweepReads
  <2>2. CASE Skips
    <3>1. SweptIsOld'
      BY <1>0, <2>1, <2>2, SkipsMoves DEF SweptIsOld
    <3> QED BY <1>0, <2>1, <2>2, <3>1, SkipsMoves, SweepKeeps
  <2>3. CASE Goes("unbind") \/ (Goes("remove") /\ binding # poller.room)
    <3>1. /\ poller' \in PollerRow /\ poller'.at \in {"unbind", "remove"}
          /\ poller'.at = "remove" => binding # poller.room
          /\ poller'.todo = poller.todo /\ poller'.found = poller.found
          /\ poller'.room = poller.room
      BY <1>0, <2>3, PollerMoves DEF Goes, Stage
    <3>2. SweptIsOld'
      BY <1>0, <2>1, <3>1 DEF SweptIsOld
    <3> QED BY <2>1, <3>1, <3>2, SweepKeeps
  <2>4. CASE binding = poller.room
    BY <1>3, <2>2, <2>3, <2>4 DEF SweepReads
  <2>5. CASE binding # poller.room
    BY <1>3, <2>3, <2>5 DEF SweepReads
  <2> QED BY <2>4, <2>5
<1>4. CASE SweepUnbinds
  <2>1. poller.at = "unbind" /\ UNCHANGED <<status, clock, room, memory, file, task, history>>
    BY <1>4 DEF SweepUnbinds
  <2>2. CASE Skips /\ UNCHANGED binding
    <3>1. SweptIsOld'
      BY <1>0, <2>1, <2>2, SkipsMoves DEF SweptIsOld
    <3> QED BY <1>0, <2>1, <2>2, <3>1, SkipsMoves, SweepKeeps
  <2>3. CASE binding' = None /\ Goes("remove")
    <3>1. /\ poller' \in PollerRow /\ poller'.at = "remove"
          /\ poller'.todo = poller.todo /\ poller'.found = poller.found
          /\ poller'.room = poller.room
      BY <1>0, <2>3, PollerMoves DEF Goes, Stage
    <3>2. SweptIsOld'
      BY <1>0, <2>1, <2>3, <3>1, VoiceAssumption DEF SweptIsOld
    <3> QED BY <2>1, <2>3, <3>1, <3>2, SweepKeeps
  <2> QED BY <1>4, <2>2, <2>3 DEF SweepUnbinds
<1>5. CASE SweepFails
  <2>1. /\ poller.at \in {"lookup", "unbind", "remove"} /\ Skips
        /\ UNCHANGED <<status, binding, clock, room, memory, file, task, history>>
    BY <1>5 DEF SweepFails
  <2>2. SweptIsOld'
    BY <1>0, <2>1, SkipsMoves DEF SweptIsOld
  <2> QED BY <1>0, <2>1, <2>2, SkipsMoves, SweepKeeps
<1> QED BY <1>1, <1>2, <1>3, <1>4, <1>5

\* The room the sweep removes is old, so no run holds it, and not bound.
LEMMA SweepRemovesKeeps ==
  ASSUME IInv, SweepRemoves
  PROVE  IInv'
<1> DEFINE c == poller.room
<1>0. /\ TypesOK /\ MemoryOK /\ RoomsOK /\ WatchOK /\ poller.at = "remove" /\ Skips
      /\ UNCHANGED <<status, binding, clock, memory, file, task, history>>
      /\ c \in Room /\ room[c].old /\ binding # c
  BY DEF IInv, SweepRemoves, RoomsOK, SweptIsOld
<1>1. /\ poller' \in PollerRow /\ poller'.at = "sweep" /\ poller'.found = poller.found
      /\ poller'.todo = poller.todo
  BY <1>0, SkipsMoves
<1>2. CASE room' = room
  <2>1. SweptIsOld'
    BY <1>0, <1>1, <1>2 DEF RoomsOK, SweptIsOld
  <2> QED BY <1>0, <1>1, <1>2, <2>1, SweepKeeps
<1>3. CASE Demolish(c)
  <2> HIDE DEF c
  <2>1. room' \in [Room -> RoomRow]
    BY <1>0, <1>3, Demolished
  <2>2. TypesOK' /\ MemoryOK' /\ WatchOK'
    BY <1>0, <1>1, <2>1 DEF TypesOK, MemoryOK, WatchOK, FirstSession
  <2>3. \A t \in Openers : task'[t].room # c
    <3> TAKE t \in Openers
    <3>1. task[t].room # None => ~room[task[t].room].old
      BY <1>0 DEF RoomsOK, HeldIsYoung
    <3> QED BY <1>0, <3>1, VoiceAssumption
  <2>4. RoomsOK'
    BY <1>0, <1>1, <1>3, <2>2, <2>3, RoomsLess
  <2> QED BY <2>2, <2>4 DEF IInv
<1> QED BY <1>2, <1>3 DEF SweepRemoves, Demolish

----------------------------------------------------------------------------
(* What the watch knows of a session is not lost.                          *)

InUse == status = "live" /\ history.seen
Looking == {"list", "decide", "watch"}

\* As long as the event was not restored: a session in use is remembered and has a room;
\* the poller that found the event live without a room found no session in use; the
\* watch's own stop has closed the event before it turns to the room; and the poller
\* that found a room may still look for one.
UseOK ==
  /\ InUse => memory.occupied /\ file.occupied /\ binding # None
  /\ poller.at \in {"list", "decide"} /\ poller.found = "live" /\ poller.room = None => ~InUse
  /\ task["auto"].at \in {"room", "clear"} => ~IsOpen
  /\ poller.at \in Looking /\ poller.found = "live" /\ poller.room # None /\ status = "live" =>
       binding # None

UInv == ~history.restored => UseOK

\* Nothing new is seen of the session, a room in use stays bound, and the poller finds
\* nothing new.
LEMMA UseKept ==
  ASSUME UInv, history'.restored = history.restored, history'.seen = history.seen,
         status' = "live" => status = "live", IsOpen' => IsOpen,
         binding # None /\ IsOpen' => binding' # None,
         task'["auto"].at \in {"room", "clear"} =>
           task["auto"].at \in {"room", "clear"} \/ ~IsOpen',
         poller'.at \in Looking =>
           \/ poller'.found # "live"
           \/ /\ poller' = poller \/ (poller.at \in Looking /\ poller'.at = "watch")
              /\ poller'.found = poller.found /\ poller'.room = poller.room,
         UseOK /\ InUse /\ status' = "live" /\ memory.occupied /\ file.occupied =>
           memory'.occupied /\ file'.occupied
  PROVE  UInv'
<1> SUFFICES ASSUME UseOK, ~history.restored PROVE UseOK'
  BY DEF UInv
<1>1. InUse' => InUse
  BY DEF InUse
<1>2. InUse' => memory'.occupied /\ file'.occupied /\ binding' # None
  BY <1>1 DEF UseOK, InUse, IsOpen
<1>3. poller'.at \in {"list", "decide"} /\ poller'.found = "live" /\ poller'.room = None => ~InUse'
  BY <1>1 DEF UseOK, Looking
<1>4. task'["auto"].at \in {"room", "clear"} => ~IsOpen'
  BY DEF UseOK
<1>5. poller'.at \in Looking /\ poller'.found = "live" /\ poller'.room # None /\ status' = "live" =>
        binding' # None
  BY DEF UseOK, IsOpen
<1> QED BY <1>2, <1>3, <1>4, <1>5 DEF UseOK

LEMMA RemembersUse ==
  Remembers /\ memory.occupied /\ file.occupied => memory'.occupied /\ file'.occupied
  BY DEF Remembers

\* A session begins, of which nobody has seen anything.
LEMMA UseBegins ==
  ASSUME IInv, UInv, GoesLive, UNCHANGED <<binding, poller>>, task'["auto"] = task["auto"]
  PROVE  UInv'
<1>0. TypesOK /\ WatchOK
  BY DEF IInv
<1>1. /\ status = "scheduled" /\ ~history'.seen /\ history'.restored = history.restored
  BY <1>0, Facts DEF GoesLive, HistoryRow
<1>2. SUFFICES ASSUME ~history.restored PROVE UseOK'
  BY <1>1 DEF UInv
<1>3. poller.found # "live" /\ task["auto"].at = "idle"
  BY <1>0, <1>1, <1>2 DEF WatchOK, FirstSession
<1> QED BY <1>1, <1>3 DEF UseOK, InUse

\* A step of Mass or Start that does not start the event.
LEMMA OpenerUses ==
  ASSUME UInv, status' = status, history'.restored = history.restored,
         history'.seen = history.seen, binding' = binding \/ binding' # None,
         task'["auto"] = task["auto"], poller' = poller \/ poller'.at \notin Looking, Remembers
  PROVE  UInv'
<1>1. IsOpen' => IsOpen
  BY DEF IsOpen
<1> QED BY <1>1, RemembersUse, UseKept

LEMMA OpenerMovesUse ==
  ASSUME UInv, NEW t \in Openers, OpenerMoves(t), UNCHANGED <<status, binding, history>>
  PROVE  UInv'
<1>1. task'["auto"] = task["auto"]
  BY DEF OpenerMoves, Openers, Closers, Task
<1>2. poller' = poller \/ poller'.at \notin Looking
  BY DEF OpenerMoves, Looking
<1> QED BY <1>1, <1>2, OpenerUses DEF OpenerMoves

LEMMA BegunUses ==
  ASSUME IInv, UInv, ReadMass \/ StartRun
  PROVE  UInv'
<1>0. TypesOK /\ "mass" \in Openers /\ "start" \in Openers
  BY DEF IInv, Openers
<1>1. CASE PostStart /\ GoesLive
  <2>1. Steps("start", "look") /\ UNCHANGED binding
    BY <1>1 DEF PostStart, GoesLive
  <2>2. task'["auto"] = task["auto"] /\ poller' = poller
    BY <1>0, <2>1, StepsDoes DEF Place, Task, Openers, Closers
  <2> QED BY <1>1, <2>1, <2>2, UseBegins
<1>2. CASE /\ \E t \in Openers : Ends(t, FALSE) \/ Provision(t) \/ Steps(t, "post")
           /\ UNCHANGED <<status, binding, history>>
  <2>1. PICK t \in Openers : Ends(t, FALSE) \/ Provision(t) \/ Steps(t, "post")
    BY <1>2
  <2>2. OpenerMoves(t)
    BY <1>0, <2>1, EndsMoves, ProvisionMoves, StepsMoves DEF Place
  <2> QED BY <1>2, <2>2, OpenerMovesUse
<1>3. CASE ReadMass
  BY <1>0, <1>2, <1>3 DEF ReadMass
<1>4. CASE ReadStart
  <2>1. Ends("start", FALSE) \/ Provision("start") \/ Steps("start", "post")
    BY <1>4 DEF ReadStart
  <2> QED BY <1>0, <1>2, <1>4, <2>1 DEF ReadStart
<1>5. CASE LookStarted
  BY <1>0, <1>2, <1>5 DEF LookStarted
<1>6. CASE PostStart
  BY <1>0, <1>1, <1>2, <1>6 DEF PostStart
<1> QED BY <1>3, <1>4, <1>5, <1>6 DEF StartRun

LEMMA OpenUses ==
  ASSUME IInv, UInv, NEW t \in Openers, Open(t)
  PROVE  UInv'
<1>0. /\ TypesOK /\ t \in Task /\ "auto" \in Task \ {t}
      /\ None \notin Room /\ task[t].room \in RoomOrNone
  BY VoiceAssumption, Facts DEF IInv, Task, Openers, Closers, TaskRow
<1>1. CASE CreateRoom(t)
  <2>1. /\ \E row : task' = [task EXCEPT ![t] = row]
        /\ UNCHANGED <<status, binding, memory, file, poller, history>>
    BY <1>1 DEF CreateRoom
  <2>2. task'["auto"] = task["auto"]
    BY <1>0, <2>1, Facts
  <2> QED BY <1>0, <2>1, <2>2, SameMemory, OpenerUses
<1>2. CASE BindRoom(t) \/ BindAnswerLost(t) \/ BindFails(t)
  <2>1. /\ UNCHANGED <<status, memory, file, poller>>
        /\ binding' = binding \/ binding' = task[t].room
        /\ \/ task' = [task EXCEPT ![t] = [at |-> "tell", room |-> None]]
           \/ task' = [task EXCEPT ![t].at = "undo"]
        /\ \/ history' = history
           \/ history' = [history EXCEPT !.mishaps = @ \cup {"lost bind"}]
        /\ task[t].at = "bind"
    BY <1>2 DEF BindRoom, BindAnswerLost, BindFails
  <2>2. task[t].room # None
    BY <2>1 DEF IInv, RoomsOK, HeldIsYoung
  <2>3. task'["auto"] = task["auto"]
    BY <1>0, <2>1, Facts
  <2>4. history'.restored = history.restored /\ history'.seen = history.seen
    BY <1>0, <2>1, Facts DEF HistoryRow
  <2> QED BY <1>0, <2>1, <2>2, <2>3, <2>4, SameMemory, OpenerUses
<1>3. CASE UndoRoom(t) \/ Tell(t) \/ OpenerFails(t)
  <2>1. /\ Ends(t, TRUE) \/ Ends(t, FALSE)
        /\ UNCHANGED <<status, binding, history>>
    BY <1>3 DEF UndoRoom, Tell, OpenerFails
  <2> QED BY <1>0, <2>1, EndsMoves, OpenerMovesUse
<1> QED BY <1>1, <1>2, <1>3 DEF Open

\* A step of a run that closes the event: what the watch forgets belongs to a session
\* that has ended.
LEMMA CloserUses ==
  ASSUME IInv, UInv, NEW k \in Closers, CloserMoves(k),
         status' # status => ~IsOpen', binding' = binding \/ ~IsOpen',
         history'.restored = history.restored, history'.seen = history.seen,
         task'["auto"].at \in {"room", "clear"} =>
           task["auto"].at \in {"room", "clear"} \/ ~IsOpen',
         Remembers \/ ~IsOpen' \/ task["auto"].at \in {"room", "clear"}
  PROVE  UInv'
<1>1. (IsOpen' => IsOpen) /\ (status' = "live" => status = "live")
  BY DEF IsOpen
<1>2. poller' = poller \/ poller'.at \notin Looking
  BY DEF CloserMoves, Looking
<1>3. UseOK /\ InUse /\ status' = "live" /\ memory.occupied /\ file.occupied =>
        memory'.occupied /\ file'.occupied
  BY RemembersUse DEF UseOK, IsOpen
<1> QED BY <1>1, <1>2, <1>3, UseKept

\* A run that ends well or badly.
LEMMA FinishUses ==
  ASSUME IInv, UInv, NEW k \in Closers, Finish(k, TRUE) \/ Finish(k, FALSE),
         status' # status => ~IsOpen', binding' = binding \/ ~IsOpen',
         history'.restored = history.restored, history'.seen = history.seen,
         Finish(k, FALSE) \/ k # "auto" \/ ~IsOpen' \/ task["auto"].at \in {"room", "clear"}
  PROVE  UInv'
<1>0. TypesOK /\ k \in Task /\ "auto" \in Task
  BY DEF IInv, Task, Closers
<1>1. CloserMoves(k)
  BY <1>0, FinishMoves
<1>2. task'["auto"].at \in {"room", "clear"} => task["auto"].at \in {"room", "clear"}
  BY <1>0, FinishDoes, RestingIsTask
<1>3. Remembers \/ ~IsOpen' \/ task["auto"].at \in {"room", "clear"}
  BY <1>0, SameMemory DEF Finish
<1> QED BY <1>1, <1>2, <1>3, CloserUses

LEMMA CloseUses ==
  ASSUME IInv, UInv, NEW k \in Closers, Close(k)
  PROVE  UInv'
<1>0. TypesOK /\ k \in Task /\ "auto" \in Task
  BY DEF IInv, Task, Closers
<1>1. CASE PostClose(k)
  <2>1. ~IsOpen' /\ UNCHANGED binding
    BY <1>1 DEF PostClose, Cancels, Stops, IsOpen
  <2>2. history'.restored = history.restored /\ history'.seen = history.seen
    <3>1. \E more : history' = [history EXCEPT !.hasty = more]
      BY <1>1 DEF PostClose
    <3> QED BY <1>0, <3>1, Facts DEF HistoryRow
  <2>3. CASE Finish(k, TRUE)
    BY <2>1, <2>2, <2>3, FinishUses
  <2>4. CASE UNCHANGED <<poller, memory, file>>
    BY <1>0, <2>1, <2>2, <2>4, RemembersUse, SameMemory, UseKept DEF IsOpen
  <2> QED BY <1>1, <2>3, <2>4 DEF PostClose
<1>2. CASE CloseRefused(k)
  <2>1. Finish(k, FALSE) /\ UNCHANGED <<status, binding, history>>
    BY <1>2 DEF CloseRefused
  <2> QED BY <2>1, FinishUses
<1>3. CASE DeleteRoom(k)
  <2>1. /\ task[k].at = "room" /\ Steps(k, "clear") /\ UNCHANGED <<status, binding>>
        /\ \E what : history' = [history EXCEPT !.mishaps = @ \cup what]
    BY <1>3 DEF DeleteRoom
  <2>2. history'.restored = history.restored /\ history'.seen = history.seen
    BY <1>0, <2>1, Facts DEF HistoryRow
  <2>3. CloserMoves(k) /\ Remembers
    BY <1>0, <2>1, StepsCloses, SameMemory DEF Place, Steps
  <2>4. task'["auto"].at \in {"room", "clear"} => task["auto"].at \in {"room", "clear"}
    BY <1>0, <2>1, StepsDoes DEF Place
  <2> QED BY <2>1, <2>2, <2>3, <2>4, CloserUses
<1>4. CASE KeepRoom(k) \/ RoomNotFound(k) \/ DeleteFails(k) \/ ClearBinding(k) \/ ClearFails(k)
  <2>1. /\ task[k].at \in {"room", "clear"} /\ UNCHANGED <<status, history>>
        /\ binding' = binding \/ ~IsOpen'
        /\ \/ Finish(k, TRUE) \/ Finish(k, FALSE)
           \/ task[k].at = "room" /\ Steps(k, "clear")
    BY <1>4 DEF KeepRoom, RoomNotFound, DeleteFails, ClearBinding, ClearFails, Clearable, IsOpen
  <2>2. CASE Finish(k, TRUE) \/ Finish(k, FALSE)
    BY <2>1, <2>2, FinishUses
  <2>3. CASE task[k].at = "room" /\ Steps(k, "clear")
    <3>1. CloserMoves(k) /\ Remembers
      BY <1>0, <2>3, StepsCloses, SameMemory DEF Place, Steps
    <3>2. task'["auto"].at \in {"room", "clear"} => task["auto"].at \in {"room", "clear"}
      BY <1>0, <2>3, StepsDoes DEF Place
    <3> QED BY <2>1, <3>1, <3>2, CloserUses
  <2> QED BY <2>1, <2>2, <2>3
<1> QED BY <1>1, <1>2, <1>3, <1>4 DEF Close

\* The website, the clock, the people in the rooms, a command and a crash.
LEMMA WorldUses ==
  ASSUME IInv, UInv,
         \/ WebStarts \/ WebStops \/ WebCancels \/ WebRestores \/ TimePasses \/ Crash
         \/ CommandStart \/ (\E k \in Closers : Command(k))
         \/ \E c \in Room : RoomAges(c) \/ MemberJoins(c) \/ LastMemberLeaves(c)
  PROVE  UInv'
<1>0. TypesOK /\ "auto" \in Task /\ "start" \in Task /\ "start" # "auto"
  BY DEF IInv, Task, Openers, Closers
<1>1. CASE WebStarts
  BY <1>1, UseBegins DEF WebStarts
<1>2. CASE WebStops \/ WebCancels
  <2>1. /\ ~IsOpen' /\ status' # "live"
        /\ UNCHANGED <<binding, memory, file, task, poller, history>>
    BY <1>2 DEF WebStops, WebCancels, Stops, Cancels, IsOpen
  <2> QED BY <2>1, UseKept
<1>3. CASE WebRestores
  <2>1. history'.restored
    <3>1. \E all : history' = [history EXCEPT !.restored = TRUE, !.mishaps = all]
      BY <1>3 DEF WebRestores
    <3> QED BY <1>0, <3>1, Facts DEF HistoryRow
  <2> QED BY <2>1 DEF UInv
<1>4. CASE Crash
  <2>1. /\ poller' = Asleep /\ memory' = file /\ UNCHANGED <<status, binding, file, history>>
        /\ task' = [t \in Task |-> Resting]
    BY <1>0, <1>4 DEF Crash, TypesOK
  <2>2. task'["auto"].at = "idle" /\ poller'.at = "idle"
    BY <1>0, <2>1, RestingIsTask, AsleepIsPoller
  <2> QED BY <2>1, <2>2, UseKept DEF IsOpen, Looking
<1>5. CASE TimePasses \/ \E c \in Room : RoomAges(c) \/ MemberJoins(c) \/ LastMemberLeaves(c)
  <2>1. UNCHANGED <<status, binding, memory, file, task, poller, history>>
    BY <1>5 DEF TimePasses, RoomAges, MemberJoins, LastMemberLeaves
  <2> QED BY <2>1, UseKept DEF IsOpen
<1>6. CASE CommandStart \/ \E k \in Closers : Command(k)
  <2>1. /\ UNCHANGED <<status, binding, memory, file, poller, history>>
        /\ \/ task' = task
           \/ \E k \in Task \ {"auto"}, to \in Place : task' = [task EXCEPT ![k].at = to]
    BY <1>0, <1>6 DEF CommandStart, Command, Enters, Place, Task
  <2>2. task'["auto"] = task["auto"]
    BY <1>0, <2>1, TaskMoves
  <2> QED BY <2>1, <2>2, UseKept DEF IsOpen
<1> QED BY <1>1, <1>2, <1>3, <1>4, <1>5, <1>6

----------------------------------------------------------------------------
(* The poller, and what the watch knows.                                   *)

\* The poller leaves its look at the event; nothing of the watch changes but that the
\* file is brought up to date.
LEMMA LeavesUse ==
  ASSUME IInv, UInv, poller'.at \notin Looking, UNCHANGED <<status, memory, history>>,
         file' \in {file, memory}, binding' = binding \/ ~IsOpen,
         task' = task \/ \E t \in Openers : task' = Enters(t)
  PROVE  UInv'
<1>0. TypesOK /\ "auto" \in Task /\ \A t \in Openers : t \in Task /\ t # "auto"
  BY DEF IInv, Task, Openers, Closers
<1>1. task'["auto"] = task["auto"]
  <2>1. ASSUME NEW t \in Openers, task' = [task EXCEPT ![t].at = "read"]
        PROVE  task'["auto"] = task["auto"]
    BY <1>0, <2>1, TaskMoves DEF Place
  <2> QED BY <2>1 DEF Enters
<1> QED BY <1>1, UseKept DEF IsOpen

LEMMA GoesLeaves ==
  ASSUME TypesOK, NEW to \in Stage \ Looking, Goes(to)
  PROVE  poller'.at \notin Looking
  BY PollerMoves DEF Goes

\* The list finds the event live with the room it has, or what it found before.
LEMMA ListUses ==
  ASSUME IInv, UInv, NEW s \in {"scheduled", "live"}, List(s)
  PROVE  UInv'
<1> DEFINE at == IF poller.todo = {s} THEN "decide" ELSE "list"
           found == IF status = s /\ poller.found # "scheduled" THEN s ELSE poller.found
           bound == IF status = s /\ s = "live" THEN binding ELSE poller.room
           todo == poller.todo \ {s}
<1>0. /\ TypesOK /\ poller.at = "list"
      /\ poller' = [poller EXCEPT !.todo = todo, !.at = at, !.due = clock, !.found = found,
                                  !.room = bound]
      /\ UNCHANGED <<status, binding, memory, file, task, history>>
  BY DEF IInv, List
<1>1. /\ at \in {"list", "decide"}
      /\ found = "live" => \/ status = "live" /\ bound = binding
                           \/ poller.found = "live" /\ (status = "live" => bound = poller.room)
  OBVIOUS
<1> HIDE DEF at, found, bound, todo
<1>2. poller'.at = at /\ poller'.found = found /\ poller'.room = bound
  BY <1>0, Facts DEF PollerRow
<1>3. SUFFICES ASSUME UseOK PROVE UseOK'
  BY <1>0 DEF UInv
<1>4. at \in Looking /\ found = "live" /\ status = "live" =>
        /\ bound = None => ~InUse
        /\ bound # None => binding # None
  BY <1>0, <1>1, <1>3 DEF UseOK, Looking
<1>5. found = "live" /\ bound = None => ~InUse
  BY <1>1, <1>4 DEF Looking, InUse
<1> QED BY <1>0, <1>2, <1>4, <1>5, <1>3 DEF UseOK, InUse, IsOpen

LEMMA LifecycleUses ==
  ASSUME IInv, UInv,
         Wake \/ ListFails \/ DecideScheduled \/ AfterMass \/ DecideLive \/ DecideNothing
           \/ WatchFails
  PROVE  UInv'
<1>0. TypesOK /\ {"mass", "start", "massed", "ended"} \subseteq Stage \ Looking
      /\ "mass" \in Openers /\ "start" \in Openers
  BY DEF IInv, Stage, Looking, Openers
<1>1. CASE Wake
  <2>1. poller'.found = "nothing" /\ UNCHANGED <<status, binding, memory, file, task, history>>
    BY <1>1 DEF Wake, Asleep
  <2> QED BY <2>1, UseKept DEF IsOpen
<1>2. CASE ListFails
  <2>1. poller'.at \notin Looking
    BY <1>2 DEF ListFails, Asleep, Looking
  <2> QED BY <1>2, <2>1, LeavesUse DEF ListFails
<1>3. CASE DecideScheduled \/ AfterMass \/ DecideNothing \/ WatchFails
  <2>1. /\ UNCHANGED <<status, binding, memory, file, history>>
        /\ task' = task \/ \E t \in Openers : task' = Enters(t)
        /\ Goes("mass") \/ Goes("start") \/ Goes("massed") \/ Goes("ended")
    BY <1>0, <1>3 DEF DecideScheduled, AfterMass, DecideNothing, WatchFails
  <2>2. poller'.at \notin Looking
    BY <1>0, <2>1, GoesLeaves
  <2> QED BY <2>1, <2>2, LeavesUse
<1>4. CASE DecideLive
  <2>1. /\ poller.at = "decide" /\ poller.found = "live"
        /\ UNCHANGED <<status, binding, history, task, file>>
    BY <1>4 DEF DecideLive
  <2>2. CASE poller.room # None /\ Goes("watch") /\ UNCHANGED memory
    <3>1. poller'.at = "watch" /\ poller'.found = poller.found /\ poller'.room = poller.room
      BY <1>0, <2>2, PollerMoves DEF Goes, Stage
    <3> QED BY <2>1, <2>2, <3>1, UseKept DEF IsOpen, Looking
  <2>3. CASE poller.room = None /\ Goes("ended")
    <3>1. poller'.at \notin Looking
      BY <1>0, <2>3, GoesLeaves
    <3>2. UseOK => ~InUse
      BY <2>1, <2>3 DEF UseOK
    <3> QED BY <2>1, <3>1, <3>2, UseKept DEF IsOpen
  <2> QED BY <1>4, <2>2, <2>3 DEF DecideLive
<1> QED BY <1>1, <1>2, <1>3, <1>4

\* Whom the watch sees it remembers and saves; a stop it makes follows looks at a room
\* it has saved as used.
LEMMA WatchUses ==
  ASSUME IInv, UInv, Watch
  PROVE  UInv'
<1> DEFINE people == Occupied(poller.room)
           empty == EmptyAfter(people)
           kept == IF empty > StopTicks THEN StopTicks ELSE empty
           stops == empty >= StopTicks
           looks == IF people THEN 0
                    ELSE IF history.looks < 2 THEN history.looks + 1 ELSE history.looks
           occupied == memory.occupied \/ people
           seen == history.seen \/ people
<1>0. /\ TypesOK /\ poller.at = "watch" /\ poller.found = "live" /\ "auto" \in Task
      /\ UNCHANGED <<status, binding>> /\ There(poller.room)
  BY DEF IInv, Watch, WatchOK, Task, Closers
<1>1. /\ memory' = [memory EXCEPT !.occupied = occupied, !.empty = kept]
      /\ history' = [history EXCEPT !.seen = seen, !.looks = looks]
      /\ \/ stops /\ Goes("auto") /\ task' = [task EXCEPT !["auto"].at = "post"] /\ file' = file
         \/ ~stops /\ Goes("ended") /\ file' = memory' /\ task' = task
  BY DEF Watch, Save
<1>2. stops => ~people
  BY DEF EmptyAfter, StopTicks
<1> HIDE DEF people, empty, kept, stops, looks, occupied, seen
<1>3. memory'.occupied = occupied /\ history'.seen = seen /\ history'.restored = history.restored
  BY <1>0, <1>1, Facts DEF MemoryRow, HistoryRow
<1>4. poller'.at \notin Looking
  BY <1>0, <1>1, GoesLeaves DEF Stage, Looking
<1>5. task'["auto"].at \in {"room", "clear"} => task["auto"].at \in {"room", "clear"}
  BY <1>0, <1>1, TaskMoves DEF Place
<1>6. SUFFICES ASSUME UseOK PROVE UseOK'
  BY <1>3 DEF UInv
<1>7. poller.room # None
  BY <1>0, VoiceAssumption DEF There
<1>8. status = "live" => binding # None
  BY <1>0, <1>6, <1>7 DEF UseOK, Looking
<1>9. InUse' => memory'.occupied /\ file'.occupied
  <2>1. CASE people
    BY <1>1, <1>2, <1>3, <2>1 DEF occupied
  <2>2. CASE ~people
    BY <1>0, <1>1, <1>3, <1>6, <2>2 DEF occupied, seen, UseOK, InUse
  <2> QED BY <2>1, <2>2
<1> QED BY <1>0, <1>4, <1>5, <1>6, <1>8, <1>9 DEF UseOK, InUse, IsOpen, Looking

LEMMA SweepUses ==
  ASSUME IInv, UInv,
         StartSweep \/ EndSweep \/ (\E c \in Room : SweepCounts(c)) \/ SweepReads \/ SweepUnbinds
           \/ SweepRemoves \/ SweepFails
  PROVE  UInv'
<1>0. TypesOK /\ {"unbind", "remove"} \subseteq Stage \ Looking
  BY DEF IInv, Stage, Looking
<1>1. /\ UNCHANGED <<status, memory, task, history>> /\ file' \in {file, memory}
      /\ binding' = binding \/ ~IsOpen
  BY DEF StartSweep, EndSweep, SweepCounts, SweepReads, SweepUnbinds, SweepRemoves, SweepFails,
         Clearable
<1>2. poller'.at \notin Looking
  <2>1. CASE StartSweep \/ EndSweep
    <3>1. CASE poller' = [Asleep EXCEPT !.at = "sweep", !.todo = Sweepable]
      BY <3>1 DEF Asleep, Sweepable, Looking
    <3>2. CASE poller' = Asleep
      BY <3>2, AsleepIsPoller DEF Looking
    <3> QED BY <2>1, <3>1, <3>2 DEF StartSweep, EndSweep
  <2>2. CASE \E c \in Room : SweepCounts(c)
    BY <1>0, <2>2, Facts DEF SweepCounts, PollerRow, Looking
  <2>3. CASE Skips \/ Goes("unbind") \/ Goes("remove")
    BY <1>0, <2>3, SkipsMoves, GoesLeaves DEF Looking
  <2>4. CASE SweepReads \/ SweepUnbinds \/ SweepRemoves \/ SweepFails
    BY <2>3, <2>4 DEF SweepReads, SweepUnbinds, SweepRemoves, SweepFails
  <2> QED BY <2>1, <2>2, <2>3, <2>4
<1> QED BY <1>1, <1>2, LeavesUse

LEMMA UseStep == IInv /\ UInv /\ [Next]_vars => UInv'
<1> SUFFICES ASSUME IInv, UInv, [Next]_vars PROVE UInv'
  OBVIOUS
<1>1. ASSUME NEW t \in DOMAIN task, Run(t) PROVE UInv'
  BY <1>1, BegunUses, OpenUses, CloseUses DEF Run
<1>2. CASE Cycle
  BY <1>2, ListUses, LifecycleUses, WatchUses, SweepUses DEF Cycle
<1>3. CASE UNCHANGED vars
  <2>1. UNCHANGED <<status, binding, memory, file, task, poller, history>>
    BY <1>3 DEF vars
  <2> QED BY <2>1, UseKept DEF IsOpen
<1> QED BY <1>1, <1>2, <1>3, WorldUses DEF Next

LEMMA UseInit == Init => UInv
  BY DEF Init, UInv, UseOK, InUse, IsOpen, Asleep, Looking, Resting, Closers

----------------------------------------------------------------------------
(* The theorems.                                                           *)

LEMMA InitOK == Init => IInv
<1> SUFFICES ASSUME Init PROVE IInv
  OBVIOUS
<1>0. /\ task = [t \in Task |-> Resting] /\ poller = Asleep /\ binding = None
      /\ memory = Forgetful /\ file = Forgetful /\ status = "scheduled" /\ clock = "early"
      /\ room = [c \in Room |-> [is |-> "unmade", people |-> FALSE, old |-> FALSE]]
      /\ history = [seen |-> FALSE, looks |-> 0, hasty |-> FALSE, restored |-> FALSE,
                    mishaps |-> {}]
      /\ None \notin Room
  BY VoiceAssumption DEF Init, Task
<1>1. /\ task \in [Task -> TaskRow]
      /\ \A t \in Task : task[t].at = "idle" /\ task[t].room = None
      /\ "auto" \in Task /\ Openers \subseteq Task
  BY <1>0, RestingIsTask DEF Task, Closers
<1>2. Forgetful \in MemoryRow /\ ~Forgetful.occupied /\ Forgetful.empty = 0
  BY DEF Forgetful, MemoryRow
<1>3. history \in HistoryRow /\ room \in [Room -> RoomRow]
  BY <1>0 DEF HistoryRow, RoomRow
<1>4. TypesOK
  BY <1>0, <1>1, <1>2, <1>3, AsleepIsPoller DEF TypesOK, RoomOrNone, Hour
<1>5. MemoryOK
  BY <1>0, <1>1, <1>2, AsleepIsPoller DEF MemoryOK
<1>6. RoomsOK
  BY <1>0, <1>1, AsleepIsPoller DEF RoomsOK, UnmadeIsUnknown, HeldIsYoung, SweptIsOld, HeldIsOwn,
                                    BoundRoomExists
<1>7. WatchOK
  BY <1>0, <1>1, <1>2, AsleepIsPoller DEF WatchOK, FirstSession
<1> QED BY <1>4, <1>5, <1>6, <1>7 DEF IInv

LEMMA StutterKeeps == IInv /\ UNCHANGED vars => IInv'
<1> SUFFICES ASSUME IInv, UNCHANGED vars PROVE IInv'
  OBVIOUS
<1>1. UNCHANGED <<status, binding, clock, room, memory, file, task, poller, history>>
  BY DEF vars
<1>2. TypesOK' /\ MemoryOK' /\ WatchOK'
  BY <1>1 DEF IInv, TypesOK, MemoryOK, WatchOK, FirstSession
<1>3. UnmadeIsUnknown' /\ HeldIsYoung' /\ SweptIsOld' /\ HeldIsOwn' /\ BoundRoomExists'
  BY <1>1 DEF IInv, RoomsOK, UnmadeIsUnknown, HeldIsYoung, SweptIsOld, HeldIsOwn,
              BoundRoomExists, There, IsOpen
<1> QED BY <1>2, <1>3 DEF IInv, RoomsOK

LEMMA StepKeeps == IInv /\ [Next]_vars => IInv'
<1> SUFFICES ASSUME IInv, [Next]_vars PROVE IInv'
  OBVIOUS
<1>1. ASSUME NEW t \in DOMAIN task, Run(t) PROVE IInv'
  BY <1>1, RunStep
<1>2. CASE Cycle
  <2>1. ASSUME NEW s \in {"scheduled", "live"}, List(s) PROVE IInv'
    BY <2>1, ListKeeps
  <2> QED BY <1>2, <2>1, LifecycleKeeps, WatchKeeps, SweepStep, SweepRemovesKeeps DEF Cycle
<1>3. CASE CommandStart \/ \E k \in Closers : Command(k)
  BY <1>3, CommandStartKeeps, CommandKeeps
<1>4. CASE WebStarts \/ WebStops \/ WebCancels \/ WebRestores
  BY <1>4, WebKeeps, RestoreKeeps
<1>5. CASE TimePasses \/ Crash
  BY <1>5, TimeKeeps, CrashKeeps
<1>6. CASE \E c \in Room : RoomAges(c) \/ MemberJoins(c) \/ LastMemberLeaves(c)
  BY <1>6, LifeKeeps
<1>7. CASE UNCHANGED vars
  BY <1>7, StutterKeeps
<1> QED BY <1>1, <1>2, <1>3, <1>4, <1>5, <1>6, <1>7 DEF Next

LEMMA Invariant == Spec => []IInv
  BY InitOK, StepKeeps, PTL DEF Spec

\* The rooms that the event, the tasks and the poller refer to are rooms, and the
\* watch's own stop runs exactly while the poller waits for it.
THEOREM VoiceTypes == Spec => []TypeOK
<1>1. IInv => TypeOK
  <2> SUFFICES ASSUME IInv PROVE TypeOK
    OBVIOUS
  <2>1. /\ binding \in RoomOrNone /\ poller.room \in RoomOrNone
        /\ DOMAIN task = Task /\ \A t \in Task : task[t].room \in RoomOrNone
        /\ memory.empty \in 0..2
    BY Facts DEF IInv, TypesOK, PollerRow, TaskRow, MemoryRow
  <2> QED BY <2>1 DEF IInv, MemoryOK, TypeOK, RoomOrNone, StopTicks
<1> QED BY <1>1, Invariant, PTL

\* An event that may still take place is bound to a room that exists, unless an answer
\* was lost or the event was restored over a deletion (createAndBindVoice, the sweep,
\* stopDiscordEvent).
THEOREM BoundRoomStands == Spec => []BoundRoomExists
<1>1. IInv => BoundRoomExists
  BY DEF IInv, RoomsOK
<1> QED BY <1>1, Invariant, PTL

\* The watch ends a first session only after it saw the room used and then found it
\* empty twice, over all crashes and failures (nextEmptyLiveVoiceCheck).
THEOREM NobodyLosesTheRoom == Spec => []NobodyIsCutOff
<1>1. IInv => NobodyIsCutOff
  BY DEF IInv, WatchOK, FirstSession, NobodyIsCutOff
<1> QED BY <1>1, Invariant, PTL

\* What ends a session that was left is never lost: over failing stops, saves beside the
\* watch, stale lists and crashes, a first session whose room was seen in use is
\* remembered, on disk too, and has a room to be looked at (nextEmptyLiveVoiceCheck,
\* forgetLiveVoiceWatch, PollerState.save).
THEOREM UseStays == Spec => []UseIsRemembered
<1>1. UInv => UseIsRemembered
  BY DEF UInv, UseOK, InUse, UseIsRemembered
<1> QED BY <1>1, Invariant, UseInit, UseStep, PTL DEF Spec
=============================================================================
