---------------------------- MODULE LiveRoster ----------------------------
(***************************************************************************)
(* The event page of the web frontend and its live roster: the page's      *)
(* loads and seat commands (features/events/event-detail.ts), the service  *)
(* that keeps one WebSocket for the page                                   *)
(* (core/services/realtime-roster.service.ts), and the part of the backend *)
(* they talk to: the version of a roster, advanced by a compare-and-swap,  *)
(* and the hub that notifies the sockets after the commit.                 *)
(*                                                                         *)
(* A roster is its version.  A load's generation is compared with the      *)
(* page's only for equality, so a load carries two Booleans instead:       *)
(* newest (its generation is still loadGeneration) and spins (it is still  *)
(* loadingGeneration).  Delays are left out: a timer is set or fires.      *)
(***************************************************************************)
EXTENDS Naturals, Sequences

CONSTANTS Event,        \* events a page can show
          Flash,        \* the flash masses among them: no roster, no socket
          Socket,       \* WebSocket objects of the browser, reused once closed
          None,         \* no event, no socket, no snapshot, no command
          Budgets       \* bounds: how often a behaviour may at most visit or reload
                        \* the page, send a seat command of its own, see a change
                        \* of a roster, a fault (hidden page, lost socket, failed
                        \* request, restart) and a lagging hub receiver

ASSUME RosterAssumption ==
  /\ Flash \subseteq Event
  /\ None \notin Event \cup Socket
  /\ None \notin [event : Event, version : Nat, by : {"load", "command"}]
  /\ Budgets \subseteq [{"visits", "commands", "changes", "faults", "lags"} -> Nat]

VARIABLES
  version,      \* events.roster_version, by event
  unpublished,  \* committed changes whose hub.publish has not run yet
  page,         \* signals and fields of the component
  loads,        \* requests of load() and loadRosterSnapshot() in flight
  command,      \* the seat command in flight
  service,      \* requestedEventId, socket, reconnectTimer, connectionState
  sockets,      \* each socket with the hub receiver behind it
  visible,      \* document.visibilityState
  left          \* what is left of the budget chosen at the start

vars == <<version, unpublished, page, loads, command, service, sockets,
          visible, left>>
backend == <<version, unpublished>>

Change(e, v) == [event |-> e, version |-> v]
\* by: whether a load or a seat command fetched it
Snapshot(e, v, by) == [event |-> e, version |-> v, by |-> by]
Message(kind, e, v) == [type |-> kind, event |-> e, version |-> v]
Idle == [phase |-> "closed", event |-> None, feed |-> <<>>, latest |-> 0]

Init ==
  /\ version = [e \in Event |-> 0]
  /\ unpublished = {}
  /\ page = [event |-> None, snapshot |-> None, panel |-> "loading",
             loading |-> FALSE, failed |-> FALSE, unheard |-> FALSE]
  /\ loads = {}
  /\ command = None
  /\ service = [requested |-> None, socket |-> None, timer |-> FALSE,
                state |-> "disconnected"]
  /\ sockets = [s \in Socket |-> Idle]
  /\ visible = TRUE
  /\ left \in Budgets

Spend(what) == left[what] > 0 /\ left' = [left EXCEPT ![what] = @ - 1]

----------------------------------------------------------------------------
(* The service.  An operator maps [service, sockets] to its successor.     *)

State == [service |-> service, sockets |-> sockets]
Becomes(w) == service' = w.service /\ sockets' = w.sockets

\* stopSocketOnly: no timer, no socket; the socket is closed if it still can be.
StopSocketOnly(w) ==
  LET s == w.service.socket
  IN [service |-> [w.service EXCEPT !.timer = FALSE, !.socket = None],
      sockets |-> IF s # None /\ w.sockets[s].phase \notin {"closing", "closed"}
                  THEN [w.sockets EXCEPT ![s].phase = "closing", ![s].feed = <<>>]
                  ELSE w.sockets]

Disconnected(w) == [w EXCEPT !.service.state = "disconnected"]

StopConnection(w) ==
  Disconnected(StopSocketOnly([w EXCEPT !.service.requested = None]))

FreeSockets(w) == {s \in Socket : w.sockets[s].phase = "closed" /\ w.service.socket # s}
\* Sockets are interchangeable: any free one stands for a new WebSocket.
NewSocket(w) == CHOOSE s \in FreeSockets(w) : TRUE

\* Opens socket s for the requested event; nothing while the page is hidden.
OpenSocket(w, s, isReconnect) ==
  IF w.service.requested = None \/ ~visible THEN w
  ELSE [service |-> [w.service EXCEPT !.socket = s,
                       !.state = IF isReconnect THEN "reconnecting" ELSE "connecting"],
        sockets |-> [w.sockets EXCEPT ![s] =
                       [Idle EXCEPT !.phase = "opening", !.event = w.service.requested]]]

ScheduleReconnect(w) ==
  IF w.service.requested = None \/ w.service.timer THEN w
  ELSE [w EXCEPT !.service.timer = TRUE, !.service.state = "reconnecting"]

Connect(w, e, s) ==
  IF w.service.requested = e /\ (w.service.socket # None \/ w.service.timer) THEN w
  ELSE LET asked == [StopConnection(w) EXCEPT !.service.requested = e]
       IN IF visible THEN OpenSocket(asked, s, FALSE) ELSE Disconnected(asked)

\* Mutant of IsCurrentConnection: the events of a replaced socket count as well.
IsCurrentConnectionAny(s) == TRUE

IsCurrentConnection(s) == service.socket = s

\* The reconnect timer fires.
ReconnectTimer ==
  /\ service.timer
  /\ FreeSockets(State) # {}
  /\ Becomes(OpenSocket([State EXCEPT !.service.timer = FALSE], NewSocket(State), TRUE))
  /\ UNCHANGED <<version, unpublished, page, loads, command, visible, left>>

Hide ==
  /\ visible /\ Spend("faults")
  /\ visible' = FALSE
  /\ Becomes(Disconnected(StopSocketOnly(State)))
  /\ UNCHANGED <<version, unpublished, page, loads, command>>

Show ==
  /\ ~visible
  /\ visible' = TRUE
  /\ IF service.requested # None /\ service.socket = None /\ ~service.timer
     THEN LET s == NewSocket(State)
          IN /\ FreeSockets(State) # {}
             /\ service' = [service EXCEPT !.socket = s, !.state = "connecting"]
             /\ sockets' = [sockets EXCEPT ![s] = [Idle EXCEPT !.phase = "opening",
                                                     !.event = service.requested]]
     ELSE UNCHANGED <<service, sockets>>
  /\ UNCHANGED <<version, unpublished, page, loads, command, left>>

\* onopen; the socket's task on the backend has not subscribed yet.
OnOpen(s) ==
  /\ sockets[s].phase = "opening"
  /\ sockets' = [sockets EXCEPT ![s].phase = "open"]
  /\ service' = IF IsCurrentConnection(s) THEN [service EXCEPT !.state = "connected"]
                ELSE service
  /\ UNCHANGED <<version, unpublished, page, loads, command, visible, left>>

\* The network or the backend ends the connection; the browser reports it later.
OnError(s) ==
  /\ sockets[s].phase \in {"opening", "open", "subscribed", "live"} /\ Spend("faults")
  /\ sockets' = [sockets EXCEPT ![s].phase = "lost", ![s].feed = <<>>]
  /\ service' = IF IsCurrentConnection(s) THEN [service EXCEPT !.state = "error"]
                ELSE service
  /\ UNCHANGED <<version, unpublished, page, loads, command, visible>>

OnClose(s) ==
  /\ sockets[s].phase \in {"lost", "closing"}
  /\ LET closed == [State EXCEPT !.sockets[s] = Idle]
         without == [closed EXCEPT !.service.socket = None]
     IN Becomes(IF ~IsCurrentConnection(s) THEN closed
                ELSE IF service.requested = None \/ ~visible THEN Disconnected(without)
                ELSE ScheduleReconnect(without))
  /\ UNCHANGED <<version, unpublished, page, loads, command, visible, left>>

----------------------------------------------------------------------------
(* The backend.                                                            *)

\* A roster transaction commits: the version moves by a compare-and-swap.
Advance(e) ==
  /\ version' = [version EXCEPT ![e] = @ + 1]
  /\ unpublished' = unpublished \cup {Change(e, version[e] + 1)}

SomeoneChanges(e) ==
  /\ e \notin Flash /\ Spend("changes")
  /\ Advance(e)
  /\ UNCHANGED <<page, loads, command, service, sockets, visible>>

Notified(m) ==
  [s \in Socket |->
     IF sockets[s].phase \in {"subscribed", "live"} /\ sockets[s].event = m.event
     THEN [sockets[s] EXCEPT !.feed = Append(@, m)] ELSE sockets[s]]

\* hub.publish, after the commit and in no order with other handlers.
Publish(c) ==
  /\ c \in unpublished
  /\ unpublished' = unpublished \ {c}
  /\ sockets' = Notified(Message("roster_changed", c.event, c.version))
  /\ UNCHANGED <<version, page, loads, command, service, visible, left>>

\* roster_socket subscribes first and reads the version afterwards ...
Subscribe(s) ==
  /\ sockets[s].phase = "open"
  /\ sockets' = [sockets EXCEPT ![s].phase = "subscribed"]
  /\ UNCHANGED <<version, unpublished, page, loads, command, service, visible, left>>

\* Mutant of Greet: a new socket waits for the next change.
GreetSilently(s) ==
  /\ sockets[s].phase = "subscribed"
  /\ sockets' = [sockets EXCEPT ![s].phase = "live"]
  /\ UNCHANGED <<version, unpublished, page, loads, command, service, visible, left>>

\* ... and sends it before anything the hub has sent meanwhile.
Greet(s) ==
  /\ sockets[s].phase = "subscribed"
  /\ LET e == sockets[s].event
     IN sockets' = [sockets EXCEPT ![s].phase = "live",
                      ![s].latest = version[e],
                      ![s].feed = <<Message("ready", e, version[e])>> \o @]
  /\ UNCHANGED <<version, unpublished, page, loads, command, service, visible, left>>

\* Mutant of Lag: the receiver skips what it missed and goes on.
LagSilently(s) ==
  /\ sockets[s].phase = "live" /\ sockets[s].feed # <<>>
  /\ Head(sockets[s].feed).type = "roster_changed"
  /\ Spend("lags")
  /\ \E n \in 1..Len(sockets[s].feed) :
       sockets' = [sockets EXCEPT ![s].feed = SubSeq(@, n + 1, Len(@))]
  /\ UNCHANGED <<version, unpublished, page, loads, command, service, visible>>

\* The receiver falls behind: the oldest n notifications are gone and the
\* socket gets resync_required with the last version it forwarded.
Lag(s) ==
  /\ sockets[s].phase = "live" /\ sockets[s].feed # <<>>
  /\ Head(sockets[s].feed).type = "roster_changed"
  /\ Spend("lags")
  /\ \E n \in 1..Len(sockets[s].feed) :
       sockets' = [sockets EXCEPT ![s].feed =
                     <<Message("resync_required", sockets[s].event, sockets[s].latest)>>
                       \o SubSeq(@, n + 1, Len(@))]
  /\ UNCHANGED <<version, unpublished, page, loads, command, service, visible>>

\* The backend restarts: changes not yet published never are, sockets are
\* lost, and so is the command it was executing.
BackendRestart ==
  /\ Spend("faults")
  /\ unpublished' = {}
  /\ sockets' = [s \in Socket |->
                   IF sockets[s].phase \in {"closed", "closing"} THEN sockets[s]
                   ELSE [sockets[s] EXCEPT !.phase = "lost", !.feed = <<>>]]
  /\ command' = IF command # None /\ command.at \in {"sent", "committed"}
                THEN None ELSE command
  /\ UNCHANGED <<version, page, loads, service, visible>>

----------------------------------------------------------------------------
(* The page.                                                               *)

\* load(silent): raises the generation, and the spinner unless it is silent.
Started(e, silent) ==
  {[l EXCEPT !.newest = FALSE, !.spins = @ /\ silent] : l \in loads}
    \cup {[event |-> e, by |-> "load", at |-> "event", silent |-> silent,
           newest |-> TRUE, spins |-> ~silent, version |-> 0]}

\* The route parameter changes: the roster is dropped, then load().
Navigate(e) ==
  /\ e # page.event /\ Spend("visits")
  /\ Becomes(StopConnection(State))
  /\ page' = [event |-> e, snapshot |-> None, panel |-> "loading",
              loading |-> TRUE, failed |-> FALSE, unheard |-> FALSE]
  /\ loads' = Started(e, FALSE)
  /\ UNCHANGED <<version, unpublished, command, visible>>

\* load() after one of the page's own forms, silent or not.
Reload(silent) ==
  /\ page.event # None /\ Spend("visits")
  /\ page' = [page EXCEPT !.loading = @ \/ ~silent, !.failed = FALSE, !.unheard = FALSE]
  /\ loads' = Started(page.event, silent)
  /\ UNCHANGED <<version, unpublished, command, service, sockets, visible>>

\* onmessage: the page ignores another event's message and a version older than
\* the roster it shows, whatever event that is of, and refetches silently for any
\* other.  unheard is a history flag: what it ignored may have been the only news.
OnMessage(s) ==
  /\ sockets[s].phase = "live" /\ sockets[s].feed # <<>>
  /\ LET m == Head(sockets[s].feed)
         mine == IsCurrentConnection(s) /\ m.event = service.requested /\ m.event = page.event
         older == page.snapshot # None /\ m.version < page.snapshot.version
         news == m.type = "resync_required" \/ page.snapshot.event # m.event
     IN /\ sockets' = [sockets EXCEPT ![s].feed = Tail(@), ![s].latest = m.version]
        /\ IF mine /\ ~older
           THEN /\ loads' = Started(page.event, TRUE)
                /\ page' = [page EXCEPT !.failed = FALSE, !.unheard = FALSE]
           ELSE /\ page' = [page EXCEPT !.unheard = @ \/ (mine /\ older /\ news)]
                /\ UNCHANGED loads
  /\ UNCHANGED <<version, unpublished, command, service, visible, left>>

\* Mutant of IsStaleLoad: only the event is compared.
IsStaleLoadByEvent(l) == l.event # page.event

IsStaleLoad(l) == ~l.newest \/ l.event # page.event

\* Mutant of Lowered: a superseded load leaves the spinner to its successor.
LoweredUnlessStale(l) == page.loading /\ (~l.spins \/ IsStaleLoad(l))

\* load()'s finally: the spinner stays up unless this load raised it last.
Lowered(l) == page.loading /\ ~l.spins
FirstPanel(l, p) == IF l.silent THEN p ELSE "loading"

\* GET api/events/{id} is answered: a stale load ends, a flash mass is ready,
\* any other event connects the socket and asks for its roster.
EventArrives(l) ==
  /\ l \in loads /\ l.at = "event"
  /\ IF IsStaleLoad(l)
     THEN /\ loads' = loads \ {l}
          /\ page' = [page EXCEPT !.loading = Lowered(l)]
          /\ UNCHANGED <<service, sockets>>
     ELSE IF l.event \in Flash
     THEN /\ loads' = loads \ {l}
          /\ page' = [page EXCEPT !.loading = Lowered(l), !.panel = "ready"]
          /\ UNCHANGED <<service, sockets>>
     ELSE /\ loads' = (loads \ {l}) \cup {[l EXCEPT !.at = "roster"]}
          /\ page' = [page EXCEPT !.panel = FirstPanel(l, @)]
          /\ FreeSockets(State) # {}
          /\ Becomes(Connect(State, l.event, NewSocket(State)))
  /\ UNCHANGED <<version, unpublished, command, visible, left>>

EventFails(l) ==
  /\ l \in loads /\ l.at = "event" /\ Spend("faults")
  /\ loads' = loads \ {l}
  /\ page' = [page EXCEPT !.failed = @ \/ ~IsStaleLoad(l), !.loading = Lowered(l)]
  /\ UNCHANGED <<version, unpublished, command, service, sockets, visible>>

\* GET api/events/{id}/roster is executed by the backend.
RosterIsRead(l) ==
  /\ l \in loads /\ l.at = "roster"
  /\ loads' = (loads \ {l}) \cup {[l EXCEPT !.at = "read", !.version = version[l.event]]}
  /\ UNCHANGED <<version, unpublished, page, command, service, sockets, visible, left>>

\* Mutant of Applied: a panel state the template does not know.
AppliedUnmarked(p, snapshot) == [p EXCEPT !.snapshot = snapshot, !.panel = "updated"]

\* applyRosterSnapshot
Applied(p, snapshot) == [p EXCEPT !.snapshot = snapshot, !.panel = "ready"]

\* Mutant of RosterArrives: the answer is not checked again after the second await.
RosterArrivesAlways(l) ==
  /\ l \in loads /\ l.at = "read"
  /\ loads' = loads \ {l}
  /\ page' = Applied([page EXCEPT !.loading = Lowered(l)],
                    Snapshot(l.event, l.version, l.by))
  /\ UNCHANGED <<version, unpublished, command, service, sockets, visible, left>>

RosterArrives(l) ==
  /\ l \in loads /\ l.at = "read"
  /\ loads' = loads \ {l}
  /\ page' = LET done == [page EXCEPT !.loading = Lowered(l)]
             IN IF IsStaleLoad(l) THEN done
                ELSE Applied(done, Snapshot(l.event, l.version, l.by))
  /\ UNCHANGED <<version, unpublished, command, service, sockets, visible, left>>

RosterFails(l) ==
  /\ l \in loads /\ l.at \in {"roster", "read"} /\ Spend("faults")
  /\ loads' = loads \ {l}
  /\ page' = LET done == [page EXCEPT !.loading = Lowered(l)]
             IN IF IsStaleLoad(l) THEN done
                ELSE [done EXCEPT !.snapshot = None, !.panel = "error"]
  /\ UNCHANGED <<version, unpublished, command, service, sockets, visible>>

----------------------------------------------------------------------------
(* A seat command of this page, one at a time: rosterCommandSaving disables *)
(* the others.                                                             *)

SendCommand ==
  /\ command = None /\ page.snapshot # None /\ page.event \notin Flash
  /\ Spend("commands")
  /\ command' = [event |-> page.event, expected |-> page.snapshot.version,
                 at |-> "sent", version |-> 0]
  /\ UNCHANGED <<version, unpublished, page, loads, service, sockets, visible>>

\* advance_roster_version: the expected version, or 409.
CommandRuns ==
  /\ command # None /\ command.at = "sent"
  /\ IF version[command.event] = command.expected
     THEN /\ Advance(command.event)
          /\ command' = [command EXCEPT !.at = "committed"]
     ELSE /\ command' = [command EXCEPT !.at = "conflict"]
          /\ UNCHANGED backend
  /\ UNCHANGED <<page, loads, service, sockets, visible, left>>

\* The handler publishes, then reads the roster it answers with.
CommandAnswers ==
  /\ command # None /\ command.at = "committed"
  /\ LET own == Change(command.event, command.expected + 1)
     IN /\ own \notin unpublished
        /\ command' = [command EXCEPT !.at = "answered", !.version = version[command.event]]
  /\ UNCHANGED <<version, unpublished, page, loads, service, sockets, visible, left>>

\* loadRosterSnapshot(true) with the page's present generation and event.
Refetch ==
  loads' = loads \cup {[event |-> page.event, by |-> "command", at |-> "roster",
                        silent |-> TRUE, newest |-> TRUE, spins |-> FALSE, version |-> 0]}

CommandArrives ==
  /\ command # None /\ command.at \in {"answered", "conflict"}
  /\ command' = None
  /\ \/ /\ command.at = "answered"
        /\ page' = Applied(page, Snapshot(command.event, command.version, "command"))
        /\ UNCHANGED loads
     \/ /\ command.at = "conflict"
        /\ Refetch
        /\ UNCHANGED page
  /\ UNCHANGED <<version, unpublished, service, sockets, visible, left>>

\* Any other error only shows a toast.
CommandFails ==
  /\ command # None /\ Spend("faults")
  /\ command' = None
  /\ UNCHANGED <<version, unpublished, page, loads, service, sockets, visible>>

----------------------------------------------------------------------------

User == \/ \E e \in Event : Navigate(e)
        \/ \E silent \in BOOLEAN : Reload(silent)
        \/ SendCommand
        \/ Hide
        \/ Show

Others == \E e \in Event : SomeoneChanges(e)

Failures == \/ \E s \in Socket : OnError(s) \/ Lag(s)
            \/ \E l \in loads : EventFails(l) \/ RosterFails(l)
            \/ BackendRestart
            \/ CommandFails

Transport == \/ \E c \in unpublished : Publish(c)
             \/ \E s \in Socket : \/ OnOpen(s) \/ OnClose(s) \/ OnMessage(s)
                                  \/ Subscribe(s) \/ Greet(s)
             \/ ReconnectTimer

Requests == \/ \E l \in loads : EventArrives(l) \/ RosterIsRead(l) \/ RosterArrives(l)
            \/ CommandRuns \/ CommandAnswers \/ CommandArrives

Next == User \/ Others \/ Failures \/ Transport \/ Requests

Spec == Init /\ [][Next]_vars

\* Every request is answered, every notification and browser event is delivered
\* and the timer fires.  Nothing makes a user come back to a hidden page.
FairSpec == /\ Spec
            /\ WF_vars(Requests)
            /\ WF_vars(Transport)

----------------------------------------------------------------------------
(* Properties.                                                             *)

EventOrNone == Event \cup {None}
Origin == {"load", "command"}

\* Every variable has its type.
TypeOK ==
  /\ version \in [Event -> Nat]
  /\ unpublished \subseteq [event : Event, version : Nat]
  /\ page \in [event : EventOrNone,
               snapshot : [event : Event, version : Nat, by : Origin] \cup {None},
               panel : {"loading", "ready", "error"}, loading : BOOLEAN, failed : BOOLEAN,
               unheard : BOOLEAN]
  /\ loads \subseteq [event : Event, by : Origin,
                      at : {"event", "roster", "read"}, silent : BOOLEAN,
                      newest : BOOLEAN, spins : BOOLEAN, version : Nat]
  /\ command \in [event : Event, expected : Nat, version : Nat,
                  at : {"sent", "committed", "answered", "conflict"}] \cup {None}
  /\ service \in [requested : EventOrNone, socket : Socket \cup {None}, timer : BOOLEAN,
                  state : {"disconnected", "connecting", "connected", "reconnecting", "error"}]
  /\ sockets \in [Socket -> [phase : {"closed", "opening", "open", "subscribed", "live",
                                     "lost", "closing"},
                             event : EventOrNone, latest : Nat,
                             feed : Seq([type : {"ready", "roster_changed", "resync_required"},
                                         event : Event, version : Nat])]]
  /\ visible \in BOOLEAN
  /\ left \in [{"visits", "commands", "changes", "faults", "lags"} -> Nat]

Leaving == {"closed", "closing"}

\* "Maintains the single live-roster WebSocket requested by the current page"
\* (realtime-roster.service.ts:19): whatever the order of navigations, hidden
\* pages, timers and close events, a socket that is not the service's own is on
\* its way out, the service's own is for the requested event of the page shown,
\* and there is never a socket and a pending reconnect at once.
SingleSocket ==
  /\ \A s \in Socket : sockets[s].phase \notin Leaving => service.socket = s
  /\ service.socket # None =>
       /\ sockets[service.socket].event = service.requested
       /\ ~service.timer
  /\ service.requested \in {None, page.event}

\* The roster that a load put on screen is that of the route, in every order of
\* answers, navigations and messages ("a superseded load can detect it's stale
\* and discard itself instead of overwriting newer state", event-detail.ts:2572).
LoadsShowTheRoute ==
  page.snapshot # None /\ page.snapshot.by = "load" => page.snapshot.event = page.event

\* While the page stays on an event its loads never take the roster it shows back
\* to an older version, however their answers are reordered.
LoadsNeverGoBack ==
  [][/\ page.snapshot # None /\ page'.snapshot # None
     /\ page.snapshot.by = "load" /\ page'.snapshot.by = "load"
     /\ page'.event = page.event
     => page'.snapshot.version >= page.snapshot.version]_vars

\* Only the load that raised the full-page spinner may keep it up, so it is
\* lowered in the end even when the socket starts silent loads meanwhile
\* (event-detail.ts:5123).
SpinnerIsLowered == page.loading ~> ~page.loading

\* The page claims to show the roster of its event.
Claims == /\ visible /\ page.event \notin Flash \cup {None}
          /\ page.panel = "ready" /\ ~page.failed
IsFresh == /\ page.snapshot # None
           /\ page.snapshot.event = page.event
           /\ page.snapshot.version = version[page.event]

\* Nothing but a load in flight keeps the full-page spinner up: the safety half
\* of SpinnerIsLowered, in every order of answers, messages and navigations.
SpinnerHasOwner == page.loading => \E l \in loads : l.spins

\* Once the users rest, a visible page that claims to show a roster a load has
\* fetched shows the present one, unless it let the news pass: between hidden
\* pages, lost sockets, restarts, failed requests and superseded loads no change
\* is lost for ever.
LoadsAreNeverStale ==
  <>[](Claims /\ page.snapshot.by = "load" /\ ~page.unheard => IsFresh)

\* A resync_required is "sent when the socket missed messages" and "the client
\* must refetch" (roster_hub.rs:44): the news always reaches the page.  The code
\* compares a version that lags behind with that of the roster on screen.
NewsReachesThePage == <>[](Claims /\ page.snapshot.by = "load" => IsFresh)

\* What will tell the page of the present version: a socket that will be greeted,
\* a change not yet published, or a message on its way.
NewsComes ==
  \/ service.timer
  \/ /\ service.socket # None
     /\ LET own == sockets[service.socket]
        IN \/ own.phase \in {"opening", "open", "subscribed", "lost"}
           \/ \E i \in DOMAIN own.feed :
                /\ own.feed[i].event = page.event
                /\ \/ own.feed[i].type = "resync_required"
                   \/ own.feed[i].version = version[page.event]
  \/ Change(page.event, version[page.event]) \in unpublished

\* The safety half of LoadsAreNeverStale: at every moment, a roster on screen that
\* is no longer the present one is about to be replaced.
NothingIsMissed ==
  Claims /\ page.snapshot.by = "load" /\ ~page.unheard =>
    \/ IsFresh
    \/ \E l \in loads : l.newest /\ l.by = "load"
    \/ NewsComes

============================================================================
