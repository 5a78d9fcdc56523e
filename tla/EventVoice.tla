----------------------------- MODULE EventVoice -----------------------------
(***************************************************************************)
(* The voice channel of one event, as the Discord bot keeps it             *)
(* (services/event-lifecycle.ts, and checkEventLifecycle and               *)
(* sweepOrphanEventVoiceChannels of services/poller.ts): Mass and Start    *)
(* create a room and bind it to the event, the poller's watch stops a      *)
(* session whose room was left, a stop or a cancellation removes the room, *)
(* and the sweep removes the rooms nobody needs any more.                  *)
(*                                                                         *)
(* All state of that code is kept per event id, so one event stands for    *)
(* all of them.  A task of the bot is sequential, one step per await that  *)
(* matters; tasks interleave with each other, with officers on the website *)
(* and with the members of the room.                                       *)
(***************************************************************************)
EXTENDS Naturals, FiniteSets

CONSTANTS Room,      \* voice channels, in the order Discord creates them
          None,      \* no room
          Budgets    \* bounds on the surroundings, one record per instance

Counter == {"changes", "commands", "joins", "faults", "crashes"}

ASSUME VoiceAssumption ==
  /\ IsFiniteSet(Room) /\ Room = 1..Cardinality(Room)
  /\ None \notin Room
  /\ Budgets \subseteq [Counter -> Nat]

VARIABLES
  status,   \* the event in the backend; "stopped" stands for auto_stopped too
  binding,  \* its discord_voice_channel_id
  clock,    \* where now is: before mass time, past it, past start, a day past start
  room,     \* the voice channels on Discord
  memory,   \* PollerState: massedEvents, occupiedLiveEvents, emptyLiveChecks
  file,     \* the same, as last saved
  task,     \* the running operations on the event
  poller,   \* the poller's cycle
  history,  \* what happened in the session, for the properties
  left      \* what is left of the budget

vars == <<status, binding, clock, room, memory, file, task, poller, history, left>>

Spend(what) == left[what] > 0 /\ left' = [left EXCEPT ![what] = @ - 1]

Openers == {"mass", "start"}
Closers == {"auto", "stop", "cancel"}
Resting == [at |-> "idle", room |-> None]
Asleep == [at |-> "idle", todo |-> {}, found |-> "nothing", room |-> None, due |-> "early"]
Forgetful == [massed |-> FALSE, occupied |-> FALSE, empty |-> 0]

\* EMPTY_LIVE_VOICE_STOP_TICKS
StopTicks == 2

Init ==
  /\ status = "scheduled" /\ binding = None /\ clock = "early"
  /\ room = [c \in Room |-> [is |-> "unmade", people |-> FALSE, old |-> FALSE]]
  /\ memory = Forgetful /\ file = Forgetful
  /\ task = [t \in Openers \cup Closers |-> Resting]
  /\ poller = Asleep
  /\ history = [seen |-> FALSE, looks |-> 0, hasty |-> FALSE, restored |-> FALSE,
                mishaps |-> {}]
  /\ left \in Budgets

There(c) == c \in Room /\ room[c].is = "open"
Occupied(c) == There(c) /\ room[c].people
IsOpen == status \in {"scheduled", "live"}
Unmade == {c \in Room : room[c].is = "unmade"}
MassIsDue(time) == time # "early"
StartIsDue(time) == time \in {"start", "late"}

Demolish(c) == room' = [room EXCEPT ![c].is = "gone", ![c].people = FALSE]
Save == file' = memory'

----------------------------------------------------------------------------
(* The backend: the requests that change the event.                        *)

\* apply_start: what the watch saw belongs to the session before.
GoesLive ==
  /\ status = "scheduled" /\ status' = "live"
  /\ history' = [history EXCEPT !.seen = FALSE, !.looks = 0]
Stops == status = "live" /\ status' = "stopped"
\* apply_cancel; a cancelled event is cancelled again as a no-op.
Cancels == status \in {"scheduled", "live", "cancelled"} /\ status' = "cancelled"

\* bind_event_voice_channel refuses a closed event and a second room.
Bindable(c) == IsOpen /\ binding \in {None, c}
\* clear_event_voice_channel clears whatever a closed event is bound to.
Clearable == ~IsOpen

\* An officer on the website, or the session deadline of the backend.
WebStarts == Spend("changes") /\ GoesLive
             /\ UNCHANGED <<binding, clock, room, memory, file, task, poller>>
WebStops == Spend("changes") /\ Stops
            /\ UNCHANGED <<binding, clock, room, memory, file, task, poller, history>>
WebCancels == Spend("changes") /\ status # "cancelled" /\ Cancels
              /\ UNCHANGED <<binding, clock, room, memory, file, task, poller, history>>
\* apply_uncancel; the Reopen button makes the same request.
WebRestores ==
  /\ Spend("changes")
  /\ status = "cancelled" /\ status' = "scheduled"
  /\ history' = [history EXCEPT !.restored = TRUE,
                   !.mishaps = @ \cup (IF binding = None \/ There(binding) THEN {}
                                       ELSE {"dead binding"})]
  /\ UNCHANGED <<binding, clock, room, memory, file, task, poller>>

----------------------------------------------------------------------------
(* The surroundings.                                                       *)

Later == [early |-> "mass", mass |-> "start", start |-> "late"]
TimePasses ==
  /\ clock \in DOMAIN Later /\ clock' = Later[clock]
  /\ UNCHANGED <<status, binding, room, memory, file, task, poller, history, left>>

\* VOICE_SWEEP_MIN_AGE_MS is far longer than a request may take.
Held(c) == \E t \in Openers : task[t].room = c
RoomAges(c) ==
  /\ There(c) /\ ~room[c].old /\ ~Held(c)
  /\ room' = [room EXCEPT ![c].old = TRUE]
  /\ UNCHANGED <<status, binding, clock, memory, file, task, poller, history, left>>

MemberJoins(c) ==
  /\ There(c) /\ ~room[c].people /\ Spend("joins")
  /\ room' = [room EXCEPT ![c].people = TRUE]
  /\ UNCHANGED <<status, binding, clock, memory, file, task, poller, history>>
LastMemberLeaves(c) ==
  /\ Occupied(c)
  /\ room' = [room EXCEPT ![c].people = FALSE]
  /\ UNCHANGED <<status, binding, clock, memory, file, task, poller, history, left>>

\* The bot restarts: its tasks are gone, and the poller loads the file.
Crash ==
  /\ Spend("crashes")
  /\ memory' = file /\ poller' = Asleep
  /\ task' = [t \in DOMAIN task |-> Resting]
  /\ UNCHANGED <<status, binding, clock, room, file, history>>

----------------------------------------------------------------------------
(* Mass and Start.  massLocks and startLocks: a caller joins the run that  *)
(* is under way, but a mass and a start may run side by side.              *)

Enters(t) == IF task[t].at = "idle" THEN [task EXCEPT ![t].at = "read"] ELSE task

\* The run ends and its callers go on; the poller notes a mass that succeeded,
\* and its save() follows.
Ends(t, well) ==
  /\ task' = [task EXCEPT ![t] = Resting]
  /\ IF poller.at # t THEN UNCHANGED <<poller, memory, file>>
     ELSE /\ poller' = [poller EXCEPT !.at = IF t = "mass" THEN "massed" ELSE "ended"]
          /\ memory' = IF well /\ t = "mass" THEN [memory EXCEPT !.massed = TRUE] ELSE memory
          /\ IF well THEN Save ELSE UNCHANGED file

Steps(t, to) == task' = [task EXCEPT ![t].at = to] /\ UNCHANGED <<poller, memory, file>>

\* With the event just read: keep the room it is bound to, or make one.
Provision(t) == Steps(t, IF binding = None THEN "create" ELSE "tell")

\* massDiscordEventLocked refuses an event that is not scheduled.
ReadMass ==
  /\ task["mass"].at = "read"
  /\ IF status = "scheduled" THEN Provision("mass") ELSE Ends("mass", FALSE)
  /\ UNCHANGED <<status, binding, clock, room, history, left>>

\* startDiscordEventLocked: the read, the POST of a scheduled event, and the read
\* after it.
ReadStart ==
  /\ task["start"].at = "read"
  /\ CASE status = "scheduled" -> Steps("start", "post")
       [] status = "live" -> Provision("start")
       [] OTHER -> Ends("start", FALSE)
  /\ UNCHANGED <<status, binding, clock, room, history, left>>
PostStart ==
  /\ task["start"].at = "post"
  /\ \/ GoesLive /\ Steps("start", "look")
     \/ status # "scheduled" /\ Ends("start", FALSE) /\ UNCHANGED <<status, history>>
  /\ UNCHANGED <<binding, clock, room, left>>
LookStarted ==
  /\ task["start"].at = "look"
  /\ Provision("start")
  /\ UNCHANGED <<status, binding, clock, room, history, left>>

\* createAndBindVoice
CreateRoom(t) ==
  /\ task[t].at = "create" /\ Unmade # {}
  /\ LET c == CHOOSE n \in Unmade : \A m \in Unmade : n <= m
     IN  /\ room' = [room EXCEPT ![c].is = "open"]
         /\ task' = [task EXCEPT ![t] = [at |-> "bind", room |-> c]]
  /\ UNCHANGED <<status, binding, clock, memory, file, poller, history, left>>
BindRoom(t) ==
  /\ task[t].at = "bind"
  /\ IF Bindable(task[t].room)
       THEN /\ binding' = task[t].room
            /\ task' = [task EXCEPT ![t] = [at |-> "tell", room |-> None]]
       ELSE /\ task' = [task EXCEPT ![t].at = "undo"]
            /\ UNCHANGED binding
  /\ UNCHANGED <<status, clock, room, memory, file, poller, history, left>>
\* The answer to the PUT is lost after it was carried out.
BindAnswerLost(t) ==
  /\ task[t].at = "bind" /\ Bindable(task[t].room) /\ Spend("faults")
  /\ binding' = task[t].room
  /\ task' = [task EXCEPT ![t].at = "undo"]
  /\ history' = [history EXCEPT !.mishaps = @ \cup {"lost bind"}]
  /\ UNCHANGED <<status, clock, room, memory, file, poller>>
BindFails(t) ==
  /\ task[t].at = "bind" /\ Spend("faults")
  /\ task' = [task EXCEPT ![t].at = "undo"]
  /\ UNCHANGED <<status, binding, clock, room, memory, file, poller, history>>
UndoRoom(t) ==
  /\ task[t].at = "undo"
  /\ Demolish(task[t].room) /\ Ends(t, FALSE)
  /\ UNCHANGED <<status, binding, clock, history, left>>

\* The event is read again and the thread is told.
Tell(t) ==
  /\ task[t].at = "tell"
  /\ Ends(t, TRUE)
  /\ UNCHANGED <<status, binding, clock, room, history, left>>

\* Any other call of a run fails; a room that could not be deleted is left behind.
OpenerFails(t) ==
  /\ \/ task[t].at \in {"read", "post", "look", "tell", "undo"} /\ Spend("faults")
     \/ task[t].at = "create" /\ (Spend("faults") \/ (Unmade = {} /\ UNCHANGED left))
  /\ Ends(t, FALSE)
  /\ UNCHANGED <<status, binding, clock, room, history>>

\* An officer presses Start or runs /event-start.
CommandStart ==
  /\ Spend("commands")
  /\ task' = Enters("start")
  /\ UNCHANGED <<status, binding, clock, room, memory, file, poller, history>>

----------------------------------------------------------------------------
(* Stop and Cancel.  "auto" is the stopDiscordEvent of the watch, "stop"   *)
(* the one of a command, "cancel" the Cancel button or command.            *)

Command(k) ==
  /\ k # "auto" /\ task[k].at = "idle" /\ Spend("commands")
  /\ task' = [task EXCEPT ![k].at = "post"]
  /\ UNCHANGED <<status, binding, clock, room, memory, file, poller, history>>

\* Mutant of Finish: a stop that failed is forgotten like one that succeeded.
FinishForgets(k, well) ==
  /\ task' = [task EXCEPT ![k] = Resting]
  /\ IF k # "auto" THEN UNCHANGED <<poller, memory, file>>
     ELSE /\ poller' = [poller EXCEPT !.at = "ended"]
          /\ memory' = [memory EXCEPT !.occupied = FALSE, !.empty = 0]
          /\ Save
Finish(k, well) ==
  /\ task' = [task EXCEPT ![k] = Resting]
  /\ IF k # "auto" THEN UNCHANGED <<poller, memory, file>>
     ELSE /\ poller' = [poller EXCEPT !.at = "ended"]
          /\ IF well THEN /\ memory' = [memory EXCEPT !.occupied = FALSE, !.empty = 0]
                          /\ Save
             ELSE UNCHANGED <<memory, file>>

\* A stop that the watch makes before it saw the room of this session used, and
\* then left for two looks.
Hasty(k) == k = "auto" /\ ~(history.seen /\ history.looks >= 2)

\* The answer holds the room the event is bound to.
PostClose(k) ==
  /\ task[k].at = "post"
  /\ IF k = "cancel" THEN Cancels ELSE Stops
  /\ history' = [history EXCEPT !.hasty = @ \/ Hasty(k)]
  /\ IF binding = None THEN Finish(k, TRUE)
     ELSE /\ task' = [task EXCEPT ![k] = [at |-> "room", room |-> binding]]
          /\ UNCHANGED <<poller, memory, file>>
  /\ UNCHANGED <<binding, clock, room, left>>
CloseRefused(k) ==
  /\ task[k].at = "post"
  /\ \/ Spend("faults")
     \/ status \notin {"scheduled", "live", "cancelled"} /\ UNCHANGED left
     \/ status # "live" /\ k # "cancel" /\ UNCHANGED left
  /\ Finish(k, FALSE)
  /\ UNCHANGED <<status, binding, clock, room, history>>

\* The room is fetched, counted and deleted in one go when nobody is in it.
DeleteRoom(k) ==
  /\ task[k].at = "room" /\ There(task[k].room) /\ ~Occupied(task[k].room)
  /\ Demolish(task[k].room)
  /\ Steps(k, "clear")
  /\ history' = [history EXCEPT !.mishaps = @ \cup (IF IsOpen THEN {"dead binding"} ELSE {})]
  /\ UNCHANGED <<status, binding, clock, left>>
KeepRoom(k) ==
  /\ task[k].at = "room" /\ Occupied(task[k].room)
  /\ Finish(k, TRUE)
  /\ UNCHANGED <<status, binding, clock, room, history, left>>
\* stopDiscordEvent takes a room it cannot fetch for one that is gone; the Cancel
\* handlers give up.
RoomNotFound(k) ==
  /\ task[k].at = "room"
  /\ (~There(task[k].room) /\ UNCHANGED left) \/ Spend("faults")
  /\ IF k = "cancel" THEN Finish(k, TRUE) ELSE Steps(k, "clear")
  /\ UNCHANGED <<status, binding, clock, room, history>>
DeleteFails(k) ==
  /\ task[k].at = "room" /\ There(task[k].room) /\ ~Occupied(task[k].room)
  /\ Spend("faults")
  /\ Finish(k, FALSE)
  /\ UNCHANGED <<status, binding, clock, room, history>>

ClearBinding(k) ==
  /\ task[k].at = "clear" /\ Clearable
  /\ binding' = None /\ Finish(k, TRUE)
  /\ UNCHANGED <<status, clock, room, history, left>>
\* The event was restored in the meantime, or the request fails: the event stays
\* bound to a room that was deleted.
ClearFails(k) ==
  /\ task[k].at = "clear"
  /\ (~Clearable /\ UNCHANGED left) \/ Spend("faults")
  /\ Finish(k, FALSE)
  /\ UNCHANGED <<status, binding, clock, room, history>>

----------------------------------------------------------------------------
(* The poller's cycle: checkEventLifecycle, then the sweep.                *)

Wake ==
  /\ poller.at = "idle"
  /\ poller' = [Asleep EXCEPT !.at = "list", !.todo = {"scheduled", "live"}]
  /\ UNCHANGED <<status, binding, clock, room, memory, file, task, history, left>>

\* listEventsByStatus, twice side by side; the scheduled list comes first, and an
\* event found in both counts as scheduled.
List(s) ==
  /\ poller.at = "list" /\ s \in poller.todo
  /\ poller' = [poller EXCEPT
       !.todo = @ \ {s},
       !.at = IF poller.todo = {s} THEN "decide" ELSE @,
       !.due = clock,
       !.found = IF status = s /\ @ # "scheduled" THEN s ELSE @,
       !.room = IF status = s /\ s = "live" THEN binding ELSE @]
  /\ UNCHANGED <<status, binding, clock, room, memory, file, task, history, left>>
ListFails ==
  /\ poller.at = "list" /\ Spend("faults")
  /\ poller' = [Asleep EXCEPT !.at = "ended"]
  /\ UNCHANGED <<status, binding, clock, room, memory, file, task, history>>

\* The rooms of the category with the name of the event that are old enough.
Sweepable == {c \in Room : There(c) /\ room[c].old}

Goes(to) == poller' = [poller EXCEPT !.at = to]

\* Mutant of DecideScheduled: an event that was massed is done with.
DecideScheduledOnce ==
  /\ poller.at = "decide" /\ poller.found = "scheduled"
  /\ IF poller.due # "late" /\ MassIsDue(poller.due) /\ ~memory.massed
       THEN Goes("mass") /\ task' = Enters("mass")
       ELSE Goes(IF memory.massed THEN "ended" ELSE "massed") /\ UNCHANGED task
  /\ UNCHANGED <<status, binding, clock, room, memory, file, history, left>>
\* A scheduled event a day past its start is left alone.
DecideScheduled ==
  /\ poller.at = "decide" /\ poller.found = "scheduled"
  /\ IF poller.due # "late" /\ MassIsDue(poller.due) /\ ~memory.massed
       THEN Goes("mass") /\ task' = Enters("mass")
       ELSE Goes(IF poller.due = "late" THEN "ended" ELSE "massed") /\ UNCHANGED task
  /\ UNCHANGED <<status, binding, clock, room, memory, file, history, left>>
AfterMass ==
  /\ poller.at = "massed"
  /\ IF StartIsDue(poller.due) THEN Goes("start") /\ task' = Enters("start")
     ELSE Goes("ended") /\ UNCHANGED task
  /\ UNCHANGED <<status, binding, clock, room, memory, file, history, left>>
\* forgetLiveVoiceWatch, for a live event without a room.
DecideLive ==
  /\ poller.at = "decide" /\ poller.found = "live"
  /\ IF poller.room # None THEN Goes("watch") /\ UNCHANGED memory
     ELSE Goes("ended") /\ memory' = [memory EXCEPT !.occupied = FALSE, !.empty = 0]
  /\ UNCHANGED <<status, binding, clock, room, file, task, history, left>>
DecideNothing ==
  /\ poller.at = "decide" /\ poller.found = "nothing"
  /\ Goes("ended")
  /\ UNCHANGED <<status, binding, clock, room, memory, file, task, history, left>>

\* Mutant of EmptyAfter: empty looks count before anyone was seen.
EmptyAfterAny(people) == IF people THEN 0 ELSE memory.empty + 1
\* Mutant of EmptyAfter: people who come back do not reset the count.
EmptyAfterKept(people) ==
  IF people \/ ~memory.occupied THEN memory.empty ELSE memory.empty + 1
\* nextEmptyLiveVoiceCheck: how many empty looks to remember after this one.
EmptyAfter(people) ==
  IF people \/ ~memory.occupied THEN 0 ELSE memory.empty + 1

\* The watch counts the people in the room; a stop follows before anything is saved.
Watch ==
  /\ poller.at = "watch" /\ There(poller.room)
  /\ LET people == Occupied(poller.room)
         empty == EmptyAfter(people)
     IN  /\ memory' = [memory EXCEPT !.occupied = @ \/ people,
                                     !.empty = IF empty > StopTicks THEN StopTicks ELSE empty]
         /\ history' = [history EXCEPT !.seen = @ \/ people,
                          !.looks = IF people THEN 0 ELSE IF @ < 2 THEN @ + 1 ELSE @]
         /\ IF empty >= StopTicks
              THEN /\ Goes("auto") /\ task' = [task EXCEPT !["auto"].at = "post"]
                   /\ UNCHANGED file
              ELSE Goes("ended") /\ Save /\ UNCHANGED task
  /\ UNCHANGED <<status, binding, clock, room, left>>
\* A room that is gone, or that Discord does not return, is not watched.
WatchFails ==
  /\ poller.at = "watch"
  /\ (~There(poller.room) /\ UNCHANGED left) \/ Spend("faults")
  /\ Goes("ended")
  /\ UNCHANGED <<status, binding, clock, room, memory, file, task, history>>

\* sweepOrphanEventVoiceChannels begins; it saves when it ends, so a sweep of
\* nothing saves at once.
StartSweep ==
  /\ poller.at = "ended"
  /\ poller' = [Asleep EXCEPT !.at = "sweep", !.todo = Sweepable]
  /\ UNCHANGED <<status, binding, clock, room, memory, file, task, history, left>>
EndSweep ==
  /\ poller.at = "sweep" /\ poller.todo = {}
  /\ poller' = Asleep /\ file' = memory
  /\ UNCHANGED <<status, binding, clock, room, memory, task, history, left>>
Skips == poller' = [poller EXCEPT !.at = "sweep", !.room = None]

\* The people in the room are counted before the event is read.
SweepCounts(c) ==
  /\ poller.at = "sweep" /\ c \in poller.todo
  /\ poller' = [poller EXCEPT !.todo = @ \ {c}, !.room = c,
                              !.at = IF Occupied(c) \/ ~There(c) THEN "sweep" ELSE "lookup"]
  /\ UNCHANGED <<status, binding, clock, room, memory, file, task, history, left>>
\* Mutant of SweepReads: a room that the event is not bound to is skipped.
SweepReadsBound ==
  /\ poller.at = "lookup"
  /\ IF binding = poller.room /\ ~IsOpen THEN Goes("unbind") ELSE Skips
  /\ UNCHANGED <<status, binding, clock, room, memory, file, task, history, left>>
SweepReads ==
  /\ poller.at = "lookup"
  /\ CASE binding = poller.room /\ IsOpen -> Skips
       [] binding = poller.room /\ ~IsOpen -> Goes("unbind")
       [] OTHER -> Goes("remove")
  /\ UNCHANGED <<status, binding, clock, room, memory, file, task, history, left>>
\* Mutant of SweepUnbinds: the room is removed whether or not the binding could be cleared.
SweepUnbindsAnyway ==
  /\ poller.at = "unbind"
  /\ IF Clearable THEN binding' = None ELSE UNCHANGED binding
  /\ Goes("remove")
  /\ UNCHANGED <<status, clock, room, memory, file, task, history, left>>
\* The binding is cleared before the room is removed; an event that was restored
\* in the meantime refuses, and keeps its room.
SweepUnbinds ==
  /\ poller.at = "unbind"
  /\ IF Clearable THEN binding' = None /\ Goes("remove") ELSE Skips /\ UNCHANGED binding
  /\ UNCHANGED <<status, clock, room, memory, file, task, history, left>>
SweepRemoves ==
  /\ poller.at = "remove"
  /\ room' = IF There(poller.room)
               THEN [room EXCEPT ![poller.room].is = "gone", ![poller.room].people = FALSE]
               ELSE room
  /\ Skips
  /\ UNCHANGED <<status, binding, clock, memory, file, task, history, left>>
SweepFails ==
  /\ poller.at \in {"lookup", "unbind", "remove"} /\ Spend("faults")
  /\ Skips
  /\ UNCHANGED <<status, binding, clock, room, memory, file, task, history>>

----------------------------------------------------------------------------
Open(t) ==
  CreateRoom(t) \/ BindRoom(t) \/ BindAnswerLost(t) \/ BindFails(t) \/ UndoRoom(t) \/ Tell(t)
  \/ OpenerFails(t)
StartRun == ReadStart \/ PostStart \/ LookStarted
Close(k) ==
  PostClose(k) \/ CloseRefused(k) \/ DeleteRoom(k) \/ KeepRoom(k) \/ RoomNotFound(k)
  \/ DeleteFails(k) \/ ClearBinding(k) \/ ClearFails(k)
Cycle ==
  \/ Wake \/ (\E s \in {"scheduled", "live"} : List(s)) \/ ListFails
  \/ DecideScheduled \/ AfterMass \/ DecideLive \/ DecideNothing \/ Watch \/ WatchFails
  \/ StartSweep \/ EndSweep \/ (\E c \in Room : SweepCounts(c))
  \/ SweepReads \/ SweepUnbinds \/ SweepRemoves \/ SweepFails
Run(t) ==
  \/ t = "mass" /\ ReadMass
  \/ t = "start" /\ StartRun
  \/ t \in Openers /\ Open(t)
  \/ t \in Closers /\ Close(t)

Next ==
  \/ \E t \in DOMAIN task : Run(t)
  \/ Cycle
  \/ CommandStart \/ \E k \in Closers : Command(k)
  \/ WebStarts \/ WebStops \/ WebCancels \/ WebRestores
  \/ TimePasses
  \/ \E c \in Room : RoomAges(c) \/ MemberJoins(c) \/ LastMemberLeaves(c)
  \/ Crash

Spec == Init /\ [][Next]_vars

\* Awaits return, the poller's timer fires and rooms grow old; nothing is promised
\* about people, faults, crashes and the hour.
FairSpec ==
  /\ Spec
  /\ WF_vars(Cycle)
  /\ \A t \in Openers \cup Closers : WF_vars(Run(t))
  /\ \A c \in Room : WF_vars(RoomAges(c))

----------------------------------------------------------------------------
(* Properties.                                                             *)

\* The state is well-formed: rooms are rooms, empty looks are counted only for a
\* session that was seen in use, and the watch's own stop runs exactly while the
\* poller waits for it.
TypeOK ==
  /\ binding \in Room \cup {None}
  /\ \A t \in DOMAIN task : task[t].room \in Room \cup {None}
  /\ poller.room \in Room \cup {None}
  /\ memory.empty \in 0..StopTicks /\ (memory.empty > 0 => memory.occupied)
  /\ poller.at = "auto" <=> task["auto"].at # "idle"

\* An event that may still take place is bound to a room that exists, unless the
\* answer to the binding was lost or a closed event was restored while a stop or a
\* cancellation was deleting its room (the order of sweepOrphanEventVoiceChannels, createAndBindVoice).
BoundRoomExists ==
  IsOpen /\ binding # None => There(binding) \/ history.mishaps # {}

\* The watch ends a session only when it saw the room used in this very session and
\* then found it empty twice, unless the event was cancelled and restored
\* (nextEmptyLiveVoiceCheck, forgetLiveVoiceWatch).
NobodyIsCutOff == history.hasty => history.restored

\* A live session whose room was seen in use does not stay live with an empty room
\* (the watch of checkEventLifecycle, across failures and restarts).
LeftSessionsEnd ==
  []<>(\/ status # "live" \/ ~history.seen
       \/ \E c \in Room : c = binding /\ (Occupied(c) \/ ~There(c)))

\* What ends a session that was left is never lost: while an event that was never
\* restored is live and its room was seen in use, the watch knows it, on disk too, and
\* the event is bound to a room to be looked at. A stop that fails, a run that saves
\* beside the watch, a list that is stale and a crash leave it so (the safety half of
\* LeftSessionsEnd).
UseIsRemembered ==
  status = "live" /\ history.seen /\ ~history.restored =>
    memory.occupied /\ file.occupied /\ binding # None

\* A room that no event needs any more is removed once it is empty: rooms of a lost
\* race between Mass and Start, of a crash between creation and binding, and rooms
\* that were kept because somebody was in them (sweepOrphanEventVoiceChannels).
UnneededRoomsGo ==
  \A c \in Room : []<>(~There(c) \/ Occupied(c) \/ (binding = c /\ IsOpen))

\* An event does not stay scheduled past its start, whatever fails before
\* (checkEventLifecycle).
DueEventsStart == []<>(status # "scheduled" \/ clock # "start")
=============================================================================
