------------------------- MODULE LiveRoster_proofs -------------------------
(***************************************************************************)
(* Theorems of LiveRoster, for any events, sockets and budgets: the page   *)
(* has one socket, its loads show the event of the route and never take    *)
(* its roster back to an older version.                                    *)
(***************************************************************************)
EXTENDS LiveRoster, SequenceTheorems, TLAPS

----------------------------------------------------------------------------
(* The inductive invariant: one part for the socket service, one for the   *)
(* page and its loads.                                                     *)

Note == [type : {"ready", "roster_changed", "resync_required"}, event : Event, version : Nat]
SocketRow == [phase : {"closed", "opening", "open", "subscribed", "live", "lost", "closing"},
              event : EventOrNone, latest : Nat, feed : Seq(Note)]
ServiceRow ==
  [requested : EventOrNone, socket : Socket \cup {None}, timer : BOOLEAN,
   state : {"disconnected", "connecting", "connected", "reconnecting", "error"}]
LoadRow == [event : Event, by : Origin, at : {"event", "roster", "read"}, silent : BOOLEAN,
            newest : BOOLEAN, spins : BOOLEAN, version : Nat]
SnapshotRow == [event : Event, version : Nat, by : Origin]
CommandRow == [event : Event, expected : Nat, version : Nat,
               at : {"sent", "committed", "answered", "conflict"}]
PageRow == [event : EventOrNone, snapshot : SnapshotRow \cup {None},
            panel : {"loading", "ready", "error"}, loading : BOOLEAN, failed : BOOLEAN,
            unheard : BOOLEAN]

\* A service and its sockets, of which it owns at most one.
WellFormed(w) ==
  /\ w \in [service : ServiceRow, sockets : [Socket -> SocketRow]]
  /\ \A s \in Socket : w.sockets[s].phase # "closed" => w.sockets[s].event \in Event
Single(w) ==
  /\ \A s \in Socket : w.sockets[s].phase \notin Leaving => w.service.socket = s
  /\ w.service.socket # None =>
       w.sockets[w.service.socket].event = w.service.requested /\ ~w.service.timer
Good(w) == WellFormed(w) /\ Single(w)

SocketsOK == Good(State) /\ service.requested \in {None, page.event}

BackendOK ==
  /\ version \in [Event -> Nat]
  /\ unpublished \subseteq [event : Event, version : Nat]
  /\ visible \in BOOLEAN
  /\ left \in [{"visits", "commands", "changes", "faults", "lags"} -> Nat]

\* Something was asked for, so the page has a route.
PageOK ==
  /\ page \in PageRow /\ loads \subseteq LoadRow /\ command \in CommandRow \cup {None}
  /\ page.snapshot # None \/ command # None \/ loads # {} => page.event \in Event

\* What a load has shown is of the route and not ahead of the backend; the newest
\* load is the only one of its kind and has not read less than that.
Loaded == page.snapshot # None /\ page.snapshot.by = "load"
ShownOK ==
  Loaded => page.snapshot.event = page.event /\ page.snapshot.version <= version[page.event]
OrderOK ==
  /\ \A l \in loads : l.newest => l.event = page.event
  /\ \A l \in loads : l.at = "read" => l.version <= version[l.event]
  /\ \A l, m \in loads : l.newest /\ m.newest /\ l.by = "load" /\ m.by = "load" => l = m
  /\ \A l \in loads : l.newest /\ l.by = "load" /\ l.at = "read" /\ Loaded =>
       page.snapshot.version <= l.version

PagePart == PageOK /\ ShownOK /\ OrderOK
IInv == BackendOK /\ SocketsOK /\ PagePart

----------------------------------------------------------------------------
(* The operators of the service.                                           *)

LEMMA NewSocketIsFree ==
  ASSUME NEW w, FreeSockets(w) # {}
  PROVE  NewSocket(w) \in Socket
BY DEF NewSocket, FreeSockets

LEMMA IdleIsARow == Idle \in SocketRow
<1>1. <<>> \in Seq(Note)
  BY EmptySeq
<1> QED BY <1>1 DEF Idle, SocketRow, EventOrNone

\* The parts of a well-formed pair, and how to put one together.
LEMMA Parts ==
  ASSUME NEW w, WellFormed(w)
  PROVE  /\ w = [service |-> w.service, sockets |-> w.sockets]
         /\ w.service \in ServiceRow /\ w.sockets \in [Socket -> SocketRow]
BY DEF WellFormed

LEMMA PairIs ==
  ASSUME NEW v \in ServiceRow, NEW f \in [Socket -> SocketRow],
         \A s \in Socket : f[s].phase # "closed" => f[s].event \in Event,
         \A s \in Socket : f[s].phase \notin Leaving => v.socket = s,
         v.socket # None => f[v.socket].event = v.requested /\ ~v.timer
  PROVE  Good([service |-> v, sockets |-> f])
BY DEF Good, WellFormed, Single

\* stopSocketOnly leaves no socket, no timer and only sockets that are leaving.
LEMMA StoppedSocket ==
  ASSUME NEW w, Good(w)
  PROVE  LET u == StopSocketOnly(w)
         IN  /\ Good(u) /\ u.service.socket = None /\ ~u.service.timer
             /\ u.service.requested = w.service.requested
<1> DEFINE v == [w.service EXCEPT !.timer = FALSE, !.socket = None]
           c == w.service.socket
           f == IF c # None /\ w.sockets[c].phase \notin {"closing", "closed"}
                THEN [w.sockets EXCEPT ![c].phase = "closing", ![c].feed = <<>>]
                ELSE w.sockets
<1>1. StopSocketOnly(w) = [service |-> v, sockets |-> f]
  BY DEF StopSocketOnly
<1>2. w.service \in ServiceRow /\ w.sockets \in [Socket -> SocketRow]
  BY Parts DEF Good
<1>3. /\ v \in ServiceRow /\ v.socket = None /\ ~v.timer
      /\ v.requested = w.service.requested
  BY <1>2 DEF ServiceRow
<1>4. <<>> \in Seq(Note)
  BY EmptySeq
<1>5. /\ f \in [Socket -> SocketRow]
      /\ \A s \in Socket : f[s].phase # "closed" => f[s].event \in Event
      /\ \A s \in Socket : f[s].phase \in Leaving
  <2>1. CASE c # None /\ w.sockets[c].phase \notin {"closing", "closed"}
    <3>1. c \in Socket
      BY <1>2, <2>1 DEF ServiceRow
    <3>2. /\ f \in [Socket -> SocketRow]
          /\ \A s \in Socket : s # c => f[s] = w.sockets[s]
          /\ f[c].phase = "closing" /\ f[c].event = w.sockets[c].event
      BY <1>2, <1>4, <2>1, <3>1 DEF SocketRow
    <3>3. w.sockets[c].event \in Event
      BY <2>1, <3>1 DEF Good, WellFormed
    <3>4. \A s \in Socket : s # c => w.sockets[s].phase \in Leaving
      BY DEF Good, Single
    <3>5. \A s \in Socket : w.sockets[s].phase # "closed" => w.sockets[s].event \in Event
      BY DEF Good, WellFormed
    <3> HIDE DEF f
    <3> QED BY <3>2, <3>3, <3>4, <3>5 DEF Leaving
  <2>2. CASE ~(c # None /\ w.sockets[c].phase \notin {"closing", "closed"})
    <3>1. f = w.sockets
      BY <2>2
    <3>2. \A s \in Socket : w.sockets[s].phase # "closed" => w.sockets[s].event \in Event
      BY DEF Good, WellFormed
    <3>3. \A s \in Socket : w.sockets[s].phase \in Leaving
      <4> TAKE s \in Socket
      <4>1. CASE w.sockets[s].phase \notin Leaving
        <5>1. c = s /\ s # None
          BY <4>1, RosterAssumption DEF Good, Single, RosterAssumption
        <5> QED BY <4>1, <5>1, <2>2 DEF Leaving
      <4> QED BY <4>1
    <3> QED BY <1>2, <3>1, <3>2, <3>3
  <2> QED BY <2>1, <2>2
<1> HIDE DEF v, f
<1>6. Good([service |-> v, sockets |-> f])
  BY <1>3, <1>5, PairIs
<1> QED BY <1>1, <1>3, <1>6

\* What is asked for may change while there is no socket.
LEMMA AskedAnew ==
  ASSUME NEW w, Good(w), w.service.socket = None,
         NEW v \in ServiceRow, v.socket = None
  PROVE  Good([service |-> v, sockets |-> w.sockets])
<1>1. w.sockets \in [Socket -> SocketRow]
  BY Parts DEF Good
<1>2. /\ \A s \in Socket : w.sockets[s].phase # "closed" => w.sockets[s].event \in Event
      /\ \A s \in Socket : w.sockets[s].phase \notin Leaving => v.socket = s
  BY DEF Good, WellFormed, Single
<1> QED BY <1>1, <1>2, PairIs

LEMMA StoppedConnection ==
  ASSUME NEW w, Good(w)
  PROVE  LET u == StopConnection(w)
         IN  /\ Good(u) /\ u.service.socket = None /\ ~u.service.timer
             /\ u.service.requested = None
<1> DEFINE v == [w.service EXCEPT !.requested = None]
           unasked == [w EXCEPT !.service.requested = None]
<1>1. w.service \in ServiceRow /\ w.sockets \in [Socket -> SocketRow]
  BY Parts DEF Good
<1>2. w = [service |-> w.service, sockets |-> w.sockets]
  BY Parts DEF Good
<1>3. unasked = [service |-> v, sockets |-> w.sockets]
  BY <1>2
<1>4. StopSocketOnly(unasked).service = [w.service EXCEPT !.requested = None, !.timer = FALSE,
                                                         !.socket = None]
  BY <1>1, <1>3 DEF StopSocketOnly, ServiceRow
<1>5. StopSocketOnly(unasked).sockets = StopSocketOnly(w).sockets
  BY <1>1, <1>3 DEF StopSocketOnly, ServiceRow
<1> DEFINE idle == [w.service EXCEPT !.requested = None, !.timer = FALSE, !.socket = None,
                                     !.state = "disconnected"]
<1>6. StopConnection(w) = [service |-> idle, sockets |-> StopSocketOnly(w).sockets]
  <2>1. StopConnection(w) = [StopSocketOnly(unasked) EXCEPT !.service.state = "disconnected"]
    BY DEF StopConnection, Disconnected
  <2>2. StopSocketOnly(unasked) = [service |-> StopSocketOnly(unasked).service,
                                   sockets |-> StopSocketOnly(unasked).sockets]
    BY DEF StopSocketOnly
  <2> HIDE DEF unasked
  <2> QED BY <1>1, <1>4, <1>5, <2>1, <2>2 DEF ServiceRow
<1>7. idle \in ServiceRow /\ idle.socket = None /\ ~idle.timer /\ idle.requested = None
  BY <1>1 DEF ServiceRow, EventOrNone
<1> HIDE DEF idle
<1>8. Good([service |-> idle, sockets |-> StopSocketOnly(w).sockets])
  BY <1>7, StoppedSocket, AskedAnew
<1> QED BY <1>6, <1>7, <1>8

LEMMA Opened ==
  ASSUME NEW w, Good(w), w.service.socket = None, ~w.service.timer,
         NEW s \in Socket, NEW isReconnect \in BOOLEAN
  PROVE  /\ Good(OpenSocket(w, s, isReconnect))
         /\ OpenSocket(w, s, isReconnect).service.requested = w.service.requested
<1>1. CASE w.service.requested = None \/ ~visible
  BY <1>1 DEF OpenSocket
<1>2. CASE ~(w.service.requested = None \/ ~visible)
  <2> DEFINE v == [w.service EXCEPT !.socket = s,
                     !.state = IF isReconnect THEN "reconnecting" ELSE "connecting"]
             f == [w.sockets EXCEPT ![s] =
                     [Idle EXCEPT !.phase = "opening", !.event = w.service.requested]]
  <2>1. OpenSocket(w, s, isReconnect) = [service |-> v, sockets |-> f]
    BY <1>2 DEF OpenSocket
  <2>2. w.service \in ServiceRow /\ w.sockets \in [Socket -> SocketRow]
    BY Parts DEF Good
  <2>3. w.service.requested \in Event
    BY <1>2, <2>2 DEF ServiceRow, EventOrNone
  <2>4. v \in ServiceRow /\ v.socket = s /\ ~v.timer /\ v.requested = w.service.requested
    BY <2>2 DEF ServiceRow
  <2>5. /\ f \in [Socket -> SocketRow] /\ f[s].phase = "opening"
        /\ f[s].event = w.service.requested
        /\ \A t \in Socket : t # s => f[t] = w.sockets[t]
    BY <2>2, <2>3, IdleIsARow DEF SocketRow, EventOrNone
  <2>6. /\ \A t \in Socket : w.sockets[t].phase # "closed" => w.sockets[t].event \in Event
        /\ \A t \in Socket : w.sockets[t].phase \in Leaving
    BY RosterAssumption DEF Good, WellFormed, Single, RosterAssumption
  <2> HIDE DEF v, f
  <2>7. \A t \in Socket : f[t].phase # "closed" => f[t].event \in Event
    BY <2>3, <2>5, <2>6
  <2>8. \A t \in Socket : f[t].phase \notin Leaving => v.socket = t
    BY <2>4, <2>5, <2>6
  <2>9. Good([service |-> v, sockets |-> f])
    BY <2>4, <2>5, <2>7, <2>8, PairIs
  <2> QED BY <2>1, <2>4, <2>9
<1> QED BY <1>1, <1>2

LEMMA Connected ==
  ASSUME NEW w, Good(w), NEW e \in Event, NEW s \in Socket
  PROVE  Good(Connect(w, e, s)) /\ Connect(w, e, s).service.requested = e
<1>1. CASE w.service.requested = e /\ (w.service.socket # None \/ w.service.timer)
  BY <1>1 DEF Connect
<1>2. CASE ~(w.service.requested = e /\ (w.service.socket # None \/ w.service.timer))
  <2> DEFINE u == StopConnection(w)
             asked == [u EXCEPT !.service.requested = e]
             v == [u.service EXCEPT !.requested = e]
  <2>1. Good(u) /\ u.service.socket = None /\ ~u.service.timer
    BY StoppedConnection
  <2> HIDE DEF u
  <2>2. /\ u = [service |-> u.service, sockets |-> u.sockets]
        /\ u.service \in ServiceRow
    BY <2>1, Parts DEF Good
  <2>3. asked = [service |-> v, sockets |-> u.sockets]
    BY <2>2
  <2>4. v \in ServiceRow /\ v.socket = None /\ ~v.timer /\ v.requested = e
    BY <2>1, <2>2 DEF ServiceRow, EventOrNone
  <2>5. Connect(w, e, s) = IF visible THEN OpenSocket(asked, s, FALSE) ELSE Disconnected(asked)
    BY <1>2 DEF Connect, u
  <2> HIDE DEF v, asked
  <2>6. Good([service |-> v, sockets |-> u.sockets])
    BY <2>1, <2>4, AskedAnew
  <2>7. Good(asked) /\ asked.service = v /\ asked.sockets = u.sockets
    BY <2>3, <2>6
  <2>8. CASE visible
    <3>1. /\ Good(OpenSocket(asked, s, FALSE))
          /\ OpenSocket(asked, s, FALSE).service.requested = asked.service.requested
      BY <2>4, <2>7, Opened
    <3> QED BY <2>4, <2>5, <2>7, <2>8, <3>1
  <2>9. CASE ~visible
    <3> DEFINE x == [v EXCEPT !.state = "disconnected"]
    <3>1. x \in ServiceRow /\ x.socket = None /\ x.requested = e
      BY <2>4 DEF ServiceRow
    <3>2. Disconnected(asked) = [service |-> x, sockets |-> u.sockets]
      BY <2>3 DEF Disconnected
    <3> HIDE DEF x
    <3>3. Good([service |-> x, sockets |-> u.sockets])
      BY <2>1, <3>1, AskedAnew
    <3> QED BY <2>5, <2>9, <3>1, <3>2, <3>3
  <2> QED BY <2>8, <2>9
<1> QED BY <1>1, <1>2

LEMMA Disconnects ==
  ASSUME NEW w, Good(w)
  PROVE  Good(Disconnected(w)) /\ Disconnected(w).service.requested = w.service.requested
<1> DEFINE x == [w.service EXCEPT !.state = "disconnected"]
<1>1. /\ w = [service |-> w.service, sockets |-> w.sockets]
      /\ w.service \in ServiceRow /\ w.sockets \in [Socket -> SocketRow]
  BY Parts DEF Good
<1>2. /\ x \in ServiceRow /\ x.socket = w.service.socket /\ x.timer = w.service.timer
      /\ x.requested = w.service.requested
  BY <1>1 DEF ServiceRow
<1>3. Disconnected(w) = [service |-> x, sockets |-> w.sockets]
  BY <1>1 DEF Disconnected
<1> HIDE DEF x
<1>4. /\ \A s \in Socket : w.sockets[s].phase # "closed" => w.sockets[s].event \in Event
      /\ \A s \in Socket : w.sockets[s].phase \notin Leaving => w.service.socket = s
      /\ w.service.socket # None =>
           w.sockets[w.service.socket].event = w.service.requested /\ ~w.service.timer
  BY DEF Good, WellFormed, Single
<1>5. Good([service |-> x, sockets |-> w.sockets])
  BY <1>1, <1>2, <1>4, PairIs
<1> QED BY <1>2, <1>3, <1>5

LEMMA Rescheduled ==
  ASSUME NEW w, Good(w), w.service.socket = None
  PROVE  /\ Good(ScheduleReconnect(w))
         /\ ScheduleReconnect(w).service.requested = w.service.requested
<1>1. CASE w.service.requested = None \/ w.service.timer
  BY <1>1 DEF ScheduleReconnect
<1>2. CASE ~(w.service.requested = None \/ w.service.timer)
  <2> DEFINE x == [w.service EXCEPT !.timer = TRUE, !.state = "reconnecting"]
  <2>1. w = [service |-> w.service, sockets |-> w.sockets] /\ w.service \in ServiceRow
    BY Parts DEF Good
  <2>2. x \in ServiceRow /\ x.socket = None /\ x.requested = w.service.requested
    BY <2>1 DEF ServiceRow
  <2>3. ScheduleReconnect(w) = [service |-> x, sockets |-> w.sockets]
    BY <1>2, <2>1 DEF ScheduleReconnect
  <2> HIDE DEF x
  <2>4. Good([service |-> x, sockets |-> w.sockets])
    BY <2>2, AskedAnew
  <2> QED BY <2>2, <2>3, <2>4
<1> QED BY <1>1, <1>2

----------------------------------------------------------------------------
(* What steps have in common.                                              *)

LEMMA Spent ==
  ASSUME left \in [{"visits", "commands", "changes", "faults", "lags"} -> Nat],
         NEW what \in {"visits", "commands", "changes", "faults", "lags"}, Spend(what)
  PROVE  left' \in [{"visits", "commands", "changes", "faults", "lags"} -> Nat]
<1>1. left[what] \in Nat /\ left[what] > 0 /\ left' = [left EXCEPT ![what] = left[what] - 1]
  BY DEF Spend
<1>2. left[what] - 1 \in Nat
  BY <1>1
<1> QED BY <1>1, <1>2

LEMMA ServiceElsewhere ==
  ASSUME SocketsOK, UNCHANGED <<service, sockets>>, page'.event = page.event
  PROVE  SocketsOK'
<1>1. State' = State
  BY DEF State
<1> QED BY <1>1 DEF SocketsOK

LEMMA ServiceBecomes ==
  ASSUME NEW w, Good(w), Becomes(w), w.service.requested \in {None, page'.event}
  PROVE  SocketsOK'
<1>1. w = [service |-> w.service, sockets |-> w.sockets]
  BY Parts DEF Good
<1>2. State' = [service |-> w.service, sockets |-> w.sockets]
  BY DEF Becomes, State
<1>3. Good(State')
  BY <1>1, <1>2
<1>4. service'.requested = w.service.requested
  BY DEF Becomes
<1> QED BY <1>3, <1>4 DEF SocketsOK

\* Sockets may change as long as none comes back and none changes its event.
LEMMA SocketsMove ==
  ASSUME SocketsOK, page'.event = page.event,
         service' \in ServiceRow, service'.requested = service.requested,
         service'.socket = service.socket, service'.timer = service.timer,
         sockets' \in [Socket -> SocketRow],
         \A s \in Socket : /\ sockets'[s].event = sockets[s].event
                           /\ sockets'[s].phase # "closed" => sockets[s].phase # "closed"
                           /\ sockets'[s].phase \notin Leaving => sockets[s].phase \notin Leaving
  PROVE  SocketsOK'
<1>1. State' = [service |-> service', sockets |-> sockets']
  BY DEF State
<1>2. State = [service |-> service, sockets |-> sockets]
  BY DEF State
<1>3. /\ \A s \in Socket : sockets[s].phase # "closed" => sockets[s].event \in Event
      /\ \A s \in Socket : sockets[s].phase \notin Leaving => service.socket = s
      /\ service.socket # None =>
           sockets[service.socket].event = service.requested /\ ~service.timer
      /\ service.requested \in {None, page.event}
  BY <1>2 DEF SocketsOK, Good, WellFormed, Single
<1>4. service'.socket \in Socket \cup {None}
  BY DEF ServiceRow
<1>5. Good([service |-> service', sockets |-> sockets'])
  <2>1. \A s \in Socket : sockets'[s].phase # "closed" => sockets'[s].event \in Event
    BY <1>3
  <2>2. \A s \in Socket : sockets'[s].phase \notin Leaving => service'.socket = s
    BY <1>3
  <2>3. service'.socket # None =>
          sockets'[service'.socket].event = service'.requested /\ ~service'.timer
    BY <1>3, <1>4
  <2> QED BY <2>1, <2>2, <2>3, PairIs
<1> QED BY <1>1, <1>3, <1>5 DEF SocketsOK

LEMMA ServiceParts ==
  ASSUME SocketsOK
  PROVE  /\ service \in ServiceRow /\ sockets \in [Socket -> SocketRow]
         /\ \A s \in Socket : sockets[s].phase # "closed" => sockets[s].event \in Event
         /\ \A s \in Socket : sockets[s].phase \notin Leaving => service.socket = s
         /\ service.socket # None =>
              sockets[service.socket].event = service.requested /\ ~service.timer
         /\ service.requested \in {None, page.event}
<1>1. State = [service |-> service, sockets |-> sockets]
  BY DEF State
<1>2. Good(State) /\ service.requested \in {None, page.event}
  BY DEF SocketsOK
<1>3. State.service = service /\ State.sockets = sockets
  BY <1>1
<1> QED BY <1>2, <1>3 DEF Good, WellFormed, Single

\* A step that leaves the page and its loads alone; rosters only grow.
LEMMA PageElsewhere ==
  ASSUME BackendOK, BackendOK', PagePart, UNCHANGED <<page, loads>>,
         \/ command' \in {command, None}
         \/ command' \in CommandRow /\ page.event \in Event,
         \A e \in Event : version[e] <= version'[e]
  PROVE  PagePart'
<1>1. PageOK'
  BY DEF PagePart, PageOK
<1>2. /\ version \in [Event -> Nat] /\ version' \in [Event -> Nat]
      /\ loads \subseteq LoadRow /\ page \in PageRow
      /\ Loaded => page.event \in Event /\ page.snapshot.version \in Nat
  BY DEF BackendOK, PagePart, PageOK, Loaded, PageRow, SnapshotRow
<1>3. ShownOK'
  <2>1. SUFFICES ASSUME Loaded
                 PROVE  page.snapshot.event = page.event
                        /\ page.snapshot.version <= version'[page.event]
    BY DEF ShownOK, Loaded
  <2>2. page.snapshot.event = page.event /\ page.snapshot.version <= version[page.event]
    BY <2>1 DEF PagePart, ShownOK
  <2>3. page.event \in Event /\ page.snapshot.version \in Nat
    BY <1>2, <2>1
  <2>4. /\ version[page.event] \in Nat /\ version'[page.event] \in Nat
        /\ version[page.event] <= version'[page.event]
    BY <1>2, <2>3
  <2> QED BY <2>2, <2>3, <2>4
<1>4. OrderOK'
  <2>1. \A l \in loads : l.at = "read" => l.version <= version'[l.event]
    <3> SUFFICES ASSUME NEW l \in loads, l.at = "read" PROVE l.version <= version'[l.event]
      OBVIOUS
    <3>1. l.version \in Nat /\ l.event \in Event
      BY <1>2 DEF LoadRow
    <3>2. l.version <= version[l.event]
      BY DEF PagePart, OrderOK
    <3>3. version[l.event] \in Nat /\ version'[l.event] \in Nat
          /\ version[l.event] <= version'[l.event]
      BY <1>2, <3>1
    <3> QED BY <3>1, <3>2, <3>3
  <2> QED BY <2>1 DEF PagePart, OrderOK, Loaded
<1> QED BY <1>1, <1>3, <1>4 DEF PagePart

LEMMA StartedLoads ==
  ASSUME loads \subseteq LoadRow, NEW e \in Event, NEW silent \in BOOLEAN
  PROVE  /\ Started(e, silent) \subseteq LoadRow
         /\ \A l \in Started(e, silent) : l.newest => l.event = e /\ l.at = "event"
         /\ \A l, m \in Started(e, silent) : l.newest /\ m.newest => l = m
         /\ \A l \in Started(e, silent) : l.at = "read" =>
              \E m \in loads : m.at = "read" /\ m.event = l.event /\ m.version = l.version
<1> DEFINE older(l) == [l EXCEPT !.newest = FALSE, !.spins = l.spins /\ silent]
           fresh == [event |-> e, by |-> "load", at |-> "event", silent |-> silent,
                     newest |-> TRUE, spins |-> ~silent, version |-> 0]
<1>1. Started(e, silent) = {older(l) : l \in loads} \cup {fresh}
  BY DEF Started
<1>2. /\ fresh \in LoadRow /\ fresh.event = e /\ fresh.at = "event"
  BY DEF LoadRow, Origin
<1>3. \A l \in loads : /\ older(l) \in LoadRow /\ older(l).newest = FALSE
                       /\ older(l).at = l.at /\ older(l).event = l.event
                       /\ older(l).version = l.version
  <2> TAKE l \in loads
  <2>1. l \in LoadRow
    OBVIOUS
  <2>2. (l.spins /\ silent) \in BOOLEAN
    OBVIOUS
  <2> QED BY <2>1, <2>2 DEF LoadRow
<1> HIDE DEF older, fresh
<1> QED BY <1>1, <1>2, <1>3

Purse == {"visits", "commands", "changes", "faults", "lags"}

LEMMA BackendElsewhere ==
  ASSUME BackendOK, UNCHANGED <<version, unpublished>>, visible' \in BOOLEAN,
         UNCHANGED left \/ \E what \in Purse : Spend(what)
  PROVE  BackendOK' /\ \A e \in Event : version[e] <= version'[e]
<1>1. left' \in [Purse -> Nat]
  BY Spent DEF BackendOK, Purse
<1>2. \A e \in Event : version[e] <= version'[e]
  BY DEF BackendOK
<1> QED BY <1>1, <1>2 DEF BackendOK, Purse

LEMMA Advances ==
  ASSUME BackendOK, NEW e \in Event, Advance(e)
  PROVE  /\ version' \in [Event -> Nat] /\ unpublished' \subseteq [event : Event, version : Nat]
         /\ \A d \in Event : version[d] <= version'[d]
<1>1. version \in [Event -> Nat] /\ version[e] \in Nat /\ version[e] + 1 \in Nat
  BY DEF BackendOK
<1>2. version' = [version EXCEPT ![e] = version[e] + 1]
  BY DEF Advance
<1>3. Change(e, version[e] + 1) \in [event : Event, version : Nat]
  BY <1>1 DEF Change
<1>4. unpublished' \subseteq [event : Event, version : Nat]
  BY <1>3 DEF Advance, BackendOK
<1>5. \A d \in Event : version[d] <= version'[d]
  BY <1>1, <1>2
<1> QED BY <1>1, <1>2, <1>4, <1>5

\* load() begins, on the same page or on a new one.
LEMMA LoadStarts ==
  ASSUME BackendOK, PagePart, UNCHANGED <<version, command>>, NEW silent \in BOOLEAN,
         page' \in PageRow, page'.event \in Event, loads' = Started(page'.event, silent),
         \/ page'.snapshot = None
         \/ page'.snapshot = page.snapshot /\ page'.event = page.event
  PROVE  PagePart'
<1>1. loads \subseteq LoadRow
  BY DEF PagePart, PageOK
<1>2. /\ loads' \subseteq LoadRow
      /\ \A l \in loads' : l.newest => l.event = page'.event /\ l.at = "event"
      /\ \A l, m \in loads' : l.newest /\ m.newest => l = m
      /\ \A l \in loads' : l.at = "read" =>
           \E m \in loads : m.at = "read" /\ m.event = l.event /\ m.version = l.version
  BY <1>1, StartedLoads
<1>3. PageOK'
  BY <1>2 DEF PagePart, PageOK
<1>4. ShownOK'
  BY DEF PagePart, ShownOK, Loaded
<1>5. OrderOK'
  BY <1>2 DEF PagePart, OrderOK
<1> QED BY <1>3, <1>4, <1>5 DEF PagePart

\* A load ends without showing anything.
LEMMA LoadEnds ==
  ASSUME BackendOK, PagePart, UNCHANGED <<version, command>>, NEW l \in loads,
         page' \in PageRow, page'.event = page.event, loads' = loads \ {l},
         page'.snapshot \in {None, page.snapshot}
  PROVE  PagePart'
<1>1. PageOK'
  BY DEF PagePart, PageOK
<1>2. ShownOK'
  BY DEF PagePart, ShownOK, Loaded
<1>3. OrderOK'
  BY DEF PagePart, OrderOK, Loaded
<1> QED BY <1>1, <1>2, <1>3 DEF PagePart

\* Only a flag of the page changes.
LEMMA PageFlagged ==
  ASSUME PagePart, UNCHANGED <<version, command, loads>>, page' \in PageRow,
         page'.event = page.event, page'.snapshot = page.snapshot
  PROVE  PagePart'
<1>1. PageOK'
  BY DEF PagePart, PageOK
<1>2. ShownOK'
  BY DEF PagePart, ShownOK, Loaded
<1>3. OrderOK'
  BY DEF PagePart, OrderOK, Loaded
<1> QED BY <1>1, <1>2, <1>3 DEF PagePart

\* A load goes on to its roster.
LEMMA LoadAsks ==
  ASSUME BackendOK, PagePart, UNCHANGED <<version, command>>, NEW l \in loads, l.at = "event",
         page' \in PageRow, page'.event = page.event, page'.snapshot = page.snapshot,
         loads' = (loads \ {l}) \cup {[l EXCEPT !.at = "roster"]}
  PROVE  PagePart'
<1> DEFINE next == [l EXCEPT !.at = "roster"]
<1>1. /\ next \in LoadRow /\ next.at = "roster" /\ next.newest = l.newest
      /\ next.event = l.event /\ next.by = l.by
  BY DEF PagePart, PageOK, LoadRow
<1> HIDE DEF next
<1>2. loads' = (loads \ {l}) \cup {next}
  BY DEF next
<1>3. PageOK'
  BY <1>1, <1>2 DEF PagePart, PageOK
<1>4. ShownOK'
  BY DEF PagePart, ShownOK, Loaded
<1>5. OrderOK'
  BY <1>1, <1>2 DEF PagePart, OrderOK, Loaded
<1> QED BY <1>3, <1>4, <1>5 DEF PagePart

----------------------------------------------------------------------------
(* The steps of the service, of its sockets and of the hub.                *)

LEMMA Feeds ==
  ASSUME NEW feed \in Seq(Note), NEW m \in Note
  PROVE  /\ Append(feed, m) \in Seq(Note) /\ <<m>> \o feed \in Seq(Note)
         /\ feed # <<>> => Tail(feed) \in Seq(Note) /\ Head(feed) \in Note
         /\ \A n \in 1..Len(feed) : <<m>> \o SubSeq(feed, n + 1, Len(feed)) \in Seq(Note)
<1>1. <<m>> \in Seq(Note) /\ Len(feed) \in Nat
  OBVIOUS
<1>2. \A n \in 1..Len(feed) : SubSeq(feed, n + 1, Len(feed)) \in Seq(Note)
  <2> TAKE n \in 1..Len(feed)
  <2>1. n + 1 \in Int /\ Len(feed) \in Int /\ (n + 1)..Len(feed) \subseteq 1..Len(feed)
    BY <1>1
  <2>2. \A i \in (n + 1)..Len(feed) : feed[i] \in Note
    BY <2>1, ElementOfSeq
  <2> QED BY <2>1, <2>2, SubSeqProperties
<1>3. \A f \in Seq(Note) : <<m>> \o f \in Seq(Note)
  BY <1>1, ConcatProperties
<1>4. feed # <<>> => Tail(feed) \in Seq(Note) /\ Head(feed) \in Note
  BY HeadTailProperties
<1>5. Append(feed, m) \in Seq(Note)
  BY AppendProperties
<1> QED BY <1>2, <1>3, <1>4, <1>5

\* A step of the sockets alone keeps the rest.
LEMMA SocketStep ==
  ASSUME IInv, SocketsOK', UNCHANGED <<version, unpublished, page, loads, command>>,
         visible' \in BOOLEAN, UNCHANGED left \/ \E what \in Purse : Spend(what)
  PROVE  IInv'
<1>1. BackendOK' /\ \A e \in Event : version[e] <= version'[e]
  BY BackendElsewhere DEF IInv
<1>2. PagePart'
  BY <1>1, PageElsewhere DEF IInv
<1> QED BY <1>1, <1>2 DEF IInv

LEMMA TimerCleared ==
  ASSUME NEW w, Good(w)
  PROVE  [w EXCEPT !.service.timer = FALSE]
           = [service |-> [w.service EXCEPT !.timer = FALSE], sockets |-> w.sockets]
<1> DEFINE v == [w.service EXCEPT !.timer = FALSE]
<1>1. w = [service |-> w.service, sockets |-> w.sockets]
  BY Parts DEF Good
<1>2. [w EXCEPT !.service.timer = FALSE] = [w EXCEPT !.service = v]
  OBVIOUS
<1> HIDE DEF v
<1>3. [w EXCEPT !.service = v] = [service |-> v, sockets |-> w.sockets]
  BY <1>1
<1> QED BY <1>2, <1>3 DEF v

LEMMA ReconnectTimerStep == ASSUME IInv, ReconnectTimer PROVE IInv'
<1> DEFINE w == [State EXCEPT !.service.timer = FALSE]
           v == [State.service EXCEPT !.timer = FALSE]
           s == NewSocket(State)
<1>1. /\ service \in ServiceRow /\ service.timer /\ Good(State) /\ s \in Socket
      /\ service.socket = None /\ service.requested \in {None, page.event}
  BY ServiceParts, NewSocketIsFree DEF IInv, ReconnectTimer, SocketsOK
<1>2. w = [service |-> v, sockets |-> sockets]
  <2>1. w = [service |-> v, sockets |-> State.sockets]
    BY <1>1, TimerCleared
  <2> QED BY <2>1 DEF State
<1>3. v \in ServiceRow /\ v.socket = None /\ ~v.timer /\ v.requested = service.requested
  <2>1. State.service = service
    BY DEF State
  <2> QED BY <1>1, <2>1 DEF ServiceRow
<1> HIDE DEF v, s
<1>4. Good([service |-> v, sockets |-> sockets])
  <2>1. State.service.socket = None /\ State.sockets = sockets
    BY <1>1 DEF State
  <2> QED BY <1>1, <1>3, <2>1, AskedAnew
<1>5. Good(w) /\ w.service = v
  BY <1>2, <1>4
<1>6. Becomes(OpenSocket(w, s, TRUE)) /\ UNCHANGED <<version, unpublished, page, loads, command, visible, left>>
  BY DEF ReconnectTimer, s
<1> HIDE DEF w
<1>7. /\ Good(OpenSocket(w, s, TRUE))
      /\ OpenSocket(w, s, TRUE).service.requested = w.service.requested
  BY <1>1, <1>3, <1>5, Opened
<1>8. SocketsOK'
  BY <1>1, <1>3, <1>5, <1>6, <1>7, ServiceBecomes
<1> QED BY <1>6, <1>8, SocketStep DEF IInv, BackendOK

LEMMA HideStep == ASSUME IInv, Hide PROVE IInv'
<1> DEFINE u == StopSocketOnly(State)
<1>1. Good(u) /\ u.service.requested = State.service.requested
  BY StoppedSocket DEF IInv, SocketsOK
<1> HIDE DEF u
<1>2. Good(Disconnected(u)) /\ Disconnected(u).service.requested = u.service.requested
  BY <1>1, Disconnects
<1>3. State.service = service /\ service.requested \in {None, page.event}
  BY DEF State, IInv, SocketsOK
<1>4. /\ Becomes(Disconnected(u)) /\ visible' = FALSE /\ Spend("faults")
      /\ UNCHANGED <<version, unpublished, page, loads, command>>
  BY DEF Hide, u
<1>5. SocketsOK'
  BY <1>1, <1>2, <1>3, <1>4, ServiceBecomes
<1> QED BY <1>4, <1>5, SocketStep DEF Purse

LEMMA ShowStep == ASSUME IInv, Show PROVE IInv'
<1>1. visible' = TRUE /\ UNCHANGED <<version, unpublished, page, loads, command, left>>
  BY DEF Show
<1>2. SocketsOK'
  <2>1. CASE service.requested # None /\ service.socket = None /\ ~service.timer
    <3> DEFINE s == NewSocket(State)
               v == [service EXCEPT !.socket = s, !.state = "connecting"]
               f == [sockets EXCEPT ![s] = [Idle EXCEPT !.phase = "opening",
                                              !.event = service.requested]]
    <3>1. s \in Socket /\ service' = v /\ sockets' = f
      BY <2>1, NewSocketIsFree DEF Show
    <3> HIDE DEF s
    <3>2. /\ service \in ServiceRow /\ sockets \in [Socket -> SocketRow]
          /\ \A t \in Socket : sockets[t].phase # "closed" => sockets[t].event \in Event
          /\ \A t \in Socket : sockets[t].phase \in Leaving
          /\ service.requested \in {None, page.event}
      BY <2>1, ServiceParts, RosterAssumption DEF IInv, RosterAssumption
    <3>3. service.requested \in Event
      BY <2>1, <3>2 DEF ServiceRow, EventOrNone
    <3>4. v \in ServiceRow /\ v.socket = s /\ ~v.timer /\ v.requested = service.requested
      BY <2>1, <3>1, <3>2 DEF ServiceRow
    <3>5. /\ f \in [Socket -> SocketRow] /\ f[s].phase = "opening"
          /\ f[s].event = service.requested
          /\ \A t \in Socket : t # s => f[t] = sockets[t]
      BY <3>1, <3>2, <3>3, IdleIsARow DEF SocketRow, EventOrNone
    <3> HIDE DEF v, f
    <3>6. /\ \A t \in Socket : f[t].phase # "closed" => f[t].event \in Event
          /\ \A t \in Socket : f[t].phase \notin Leaving => v.socket = t
      BY <3>2, <3>3, <3>4, <3>5
    <3>7. Good([service |-> v, sockets |-> f])
      BY <3>4, <3>5, <3>6, PairIs
    <3>8. State' = [service |-> v, sockets |-> f]
      BY <3>1 DEF State
    <3> QED BY <1>1, <3>1, <3>2, <3>4, <3>7, <3>8 DEF SocketsOK
  <2>2. CASE ~(service.requested # None /\ service.socket = None /\ ~service.timer)
    <3>1. UNCHANGED <<service, sockets>>
      BY <2>2 DEF Show
    <3> QED BY <1>1, <3>1, ServiceElsewhere DEF IInv
  <2> QED BY <2>1, <2>2
<1> QED BY <1>1, <1>2, SocketStep

LEMMA OnOpenStep == ASSUME IInv, NEW s \in Socket, OnOpen(s) PROVE IInv'
<1>1. /\ sockets[s].phase = "opening" /\ sockets' = [sockets EXCEPT ![s].phase = "open"]
      /\ UNCHANGED <<version, unpublished, page, loads, command, visible, left>>
  BY DEF OnOpen
<1>2. service \in ServiceRow /\ sockets \in [Socket -> SocketRow]
  BY ServiceParts DEF IInv
<1>3. /\ service' \in ServiceRow /\ service'.requested = service.requested
      /\ service'.socket = service.socket /\ service'.timer = service.timer
  BY <1>2 DEF OnOpen, ServiceRow
<1>4. /\ sockets' \in [Socket -> SocketRow]
      /\ \A t \in Socket : /\ sockets'[t].event = sockets[t].event
                           /\ sockets'[t].phase # "closed" => sockets[t].phase # "closed"
                           /\ sockets'[t].phase \notin Leaving => sockets[t].phase \notin Leaving
  BY <1>1, <1>2 DEF SocketRow, Leaving
<1>5. SocketsOK'
  BY <1>1, <1>3, <1>4, SocketsMove DEF IInv
<1> QED BY <1>1, <1>5, SocketStep DEF IInv, BackendOK

LEMMA OnErrorStep == ASSUME IInv, NEW s \in Socket, OnError(s) PROVE IInv'
<1>1. /\ sockets[s].phase \in {"opening", "open", "subscribed", "live"}
      /\ sockets' = [sockets EXCEPT ![s].phase = "lost", ![s].feed = <<>>]
      /\ Spend("faults") /\ UNCHANGED <<version, unpublished, page, loads, command, visible>>
  BY DEF OnError
<1>2. service \in ServiceRow /\ sockets \in [Socket -> SocketRow]
  BY ServiceParts DEF IInv
<1>3. /\ service' \in ServiceRow /\ service'.requested = service.requested
      /\ service'.socket = service.socket /\ service'.timer = service.timer
  BY <1>2 DEF OnError, ServiceRow
<1>4. <<>> \in Seq(Note)
  BY EmptySeq
<1>5. /\ sockets' \in [Socket -> SocketRow]
      /\ \A t \in Socket : /\ sockets'[t].event = sockets[t].event
                           /\ sockets'[t].phase # "closed" => sockets[t].phase # "closed"
                           /\ sockets'[t].phase \notin Leaving => sockets[t].phase \notin Leaving
  BY <1>1, <1>2, <1>4 DEF SocketRow, Leaving
<1>6. SocketsOK'
  BY <1>1, <1>3, <1>5, SocketsMove DEF IInv
<1> QED BY <1>1, <1>6, SocketStep DEF IInv, BackendOK, Purse

LEMMA OnCloseStep == ASSUME IInv, NEW s \in Socket, OnClose(s) PROVE IInv'
<1> DEFINE closed == [State EXCEPT !.sockets[s] = Idle]
           without == [closed EXCEPT !.service.socket = None]
           f == [sockets EXCEPT ![s] = Idle]
           v == [service EXCEPT !.socket = None]
<1>1. /\ sockets[s].phase \in {"lost", "closing"}
      /\ Becomes(IF ~IsCurrentConnection(s) THEN closed
                 ELSE IF service.requested = None \/ ~visible THEN Disconnected(without)
                 ELSE ScheduleReconnect(without))
      /\ UNCHANGED <<version, unpublished, page, loads, command, visible, left>>
  BY DEF OnClose
<1>2. /\ service \in ServiceRow /\ sockets \in [Socket -> SocketRow]
      /\ \A t \in Socket : sockets[t].phase # "closed" => sockets[t].event \in Event
      /\ \A t \in Socket : sockets[t].phase \notin Leaving => service.socket = t
      /\ service.socket # None =>
           sockets[service.socket].event = service.requested /\ ~service.timer
      /\ service.requested \in {None, page.event}
  BY ServiceParts DEF IInv
<1>3. closed = [service |-> service, sockets |-> f]
  <2>1. State.service = service /\ State.sockets = sockets
        /\ State = [service |-> service, sockets |-> sockets]
    BY DEF State
  <2>2. closed = [State EXCEPT !.sockets = f]
    BY <2>1
  <2> QED BY <2>1, <2>2
<1> HIDE DEF closed
<1>4. without = [service |-> v, sockets |-> f]
  <2>1. closed.service = service
    BY <1>3
  <2>2. without = [closed EXCEPT !.service = [closed.service EXCEPT !.socket = None]]
    OBVIOUS
  <2>3. without = [closed EXCEPT !.service = v]
    BY <2>1, <2>2
  <2> HIDE DEF f, v, without
  <2> QED BY <1>3, <2>3
<1>5. /\ f \in [Socket -> SocketRow] /\ f[s].phase = "closed"
      /\ \A t \in Socket : t # s => f[t] = sockets[t]
  <2>1. Idle.phase = "closed"
    BY DEF Idle
  <2> QED BY <1>2, <2>1, IdleIsARow
<1>6. v \in ServiceRow /\ v.socket = None /\ v.requested = service.requested
  BY <1>2 DEF ServiceRow
<1> HIDE DEF f, v, without
<1>7. \A t \in Socket : f[t].phase # "closed" => f[t].event \in Event
  BY <1>2, <1>5
<1>8. CASE ~IsCurrentConnection(s)
  <2>1. service.socket # s
    BY <1>8 DEF IsCurrentConnection
  <2>2. \A t \in Socket : f[t].phase \notin Leaving => service.socket = t
    BY <1>2, <1>5 DEF Leaving
  <2>3. service.socket # None => f[service.socket].event = service.requested /\ ~service.timer
    BY <1>2, <1>5, <2>1 DEF ServiceRow
  <2>4. Good(closed)
    BY <1>2, <1>3, <1>5, <1>7, <2>2, <2>3, PairIs
  <2>5. closed.service.requested \in {None, page'.event}
    BY <1>1, <1>2, <1>3
  <2> QED BY <1>1, <1>8, <2>4, <2>5, ServiceBecomes, SocketStep DEF IInv, BackendOK
<1>9. CASE IsCurrentConnection(s)
  <2>1. service.socket = s
    BY <1>9 DEF IsCurrentConnection
  <2>2. \A t \in Socket : f[t].phase \in Leaving
    BY <1>2, <1>5, <2>1 DEF Leaving
  <2>3. Good([service |-> v, sockets |-> f])
    BY <1>5, <1>6, <1>7, <2>2, PairIs
  <2>4. Good(without) /\ without.service = v
    BY <1>4, <2>3
  <2>5. /\ Good(Disconnected(without)) /\ Good(ScheduleReconnect(without))
        /\ Disconnected(without).service.requested = service.requested
        /\ ScheduleReconnect(without).service.requested = service.requested
    BY <1>6, <2>4, Disconnects, Rescheduled
  <2>6. \/ Becomes(Disconnected(without))
        \/ Becomes(ScheduleReconnect(without))
    BY <1>1, <1>9
  <2>7. SocketsOK'
    BY <1>1, <1>2, <2>5, <2>6, ServiceBecomes
  <2> QED BY <1>1, <2>7, SocketStep DEF IInv, BackendOK
<1> QED BY <1>8, <1>9

\* Only the feeds and the latest versions change, and phases that count as alive.
LEMMA FeedStep ==
  ASSUME SocketsOK, UNCHANGED <<service, page>>, NEW f \in [Socket -> SocketRow], sockets' = f,
         \A s \in Socket : /\ f[s].event = sockets[s].event
                           /\ f[s].phase # "closed" => sockets[s].phase # "closed"
                           /\ f[s].phase \notin Leaving => sockets[s].phase \notin Leaving
  PROVE  SocketsOK'
BY ServiceParts, SocketsMove

LEMMA PublishStep == ASSUME IInv, NEW c \in unpublished, Publish(c) PROVE IInv'
<1> DEFINE m == Message("roster_changed", c.event, c.version)
           f == Notified(m)
<1>1. /\ unpublished' = unpublished \ {c} /\ sockets' = f
      /\ UNCHANGED <<version, page, loads, command, service, visible, left>>
  BY DEF Publish
<1>2. m \in Note
  BY DEF IInv, BackendOK, Message, Note
<1>3. sockets \in [Socket -> SocketRow]
  BY ServiceParts DEF IInv
<1> HIDE DEF m
<1>4. /\ f \in [Socket -> SocketRow]
      /\ \A s \in Socket : f[s].event = sockets[s].event /\ f[s].phase = sockets[s].phase
  <2>1. \A s \in Socket : Append(sockets[s].feed, m) \in Seq(Note)
    BY <1>2, <1>3, Feeds DEF SocketRow
  <2>2. \A s \in Socket : [sockets[s] EXCEPT !.feed = Append(sockets[s].feed, m)] \in SocketRow
    BY <1>3, <2>1 DEF SocketRow
  <2>3. \A s \in Socket : [sockets[s] EXCEPT !.feed = Append(sockets[s].feed, m)].event
                            = sockets[s].event
                          /\ [sockets[s] EXCEPT !.feed = Append(sockets[s].feed, m)].phase
                            = sockets[s].phase
    BY <1>3 DEF SocketRow
  <2> QED BY <1>3, <2>2, <2>3 DEF Notified
<1> HIDE DEF f
<1>5. SocketsOK'
  BY <1>1, <1>4, FeedStep DEF IInv
<1>6. BackendOK' /\ \A e \in Event : version[e] <= version'[e]
  BY <1>1 DEF IInv, BackendOK
<1>7. PagePart'
  BY <1>1, <1>6, PageElsewhere DEF IInv
<1> QED BY <1>5, <1>6, <1>7 DEF IInv

LEMMA SubscribeStep == ASSUME IInv, NEW s \in Socket, Subscribe(s) PROVE IInv'
<1> DEFINE f == [sockets EXCEPT ![s].phase = "subscribed"]
<1>1. /\ sockets[s].phase = "open" /\ sockets' = f
      /\ UNCHANGED <<version, unpublished, page, loads, command, service, visible, left>>
  BY DEF Subscribe
<1>2. sockets \in [Socket -> SocketRow]
  BY ServiceParts DEF IInv
<1>3. /\ f \in [Socket -> SocketRow]
      /\ \A t \in Socket : /\ f[t].event = sockets[t].event
                           /\ f[t].phase # "closed" => sockets[t].phase # "closed"
                           /\ f[t].phase \notin Leaving => sockets[t].phase \notin Leaving
  BY <1>1, <1>2 DEF SocketRow, Leaving
<1> HIDE DEF f
<1>4. SocketsOK'
  BY <1>1, <1>3, FeedStep DEF IInv
<1> QED BY <1>1, <1>4, SocketStep DEF IInv, BackendOK

LEMMA GreetStep == ASSUME IInv, NEW s \in Socket, Greet(s) PROVE IInv'
<1> DEFINE e == sockets[s].event
           m == Message("ready", e, version[e])
           more == <<m>> \o sockets[s].feed
           f == [sockets EXCEPT ![s].phase = "live", ![s].latest = version[e],
                                ![s].feed = more]
<1>1. /\ sockets[s].phase = "subscribed" /\ sockets' = f
      /\ UNCHANGED <<version, unpublished, page, loads, command, service, visible, left>>
  BY DEF Greet
<1>2. sockets \in [Socket -> SocketRow] /\ e \in Event /\ version[e] \in Nat
  BY <1>1, ServiceParts DEF IInv, BackendOK
<1>3. m \in Note
  BY <1>2 DEF Message, Note
<1>4. more \in Seq(Note)
  BY <1>2, <1>3, Feeds DEF SocketRow
<1> HIDE DEF more, m
<1>5. /\ f \in [Socket -> SocketRow]
      /\ \A t \in Socket : /\ f[t].event = sockets[t].event
                           /\ f[t].phase # "closed" => sockets[t].phase # "closed"
                           /\ f[t].phase \notin Leaving => sockets[t].phase \notin Leaving
  BY <1>1, <1>2, <1>4 DEF SocketRow, Leaving
<1> HIDE DEF f
<1>6. SocketsOK'
  BY <1>1, <1>5, FeedStep DEF IInv
<1> QED BY <1>1, <1>6, SocketStep DEF IInv, BackendOK

LEMMA LagStep == ASSUME IInv, NEW s \in Socket, Lag(s) PROVE IInv'
<1> DEFINE m == Message("resync_required", sockets[s].event, sockets[s].latest)
           cut(n) == <<m>> \o SubSeq(sockets[s].feed, n + 1, Len(sockets[s].feed))
           f(n) == [sockets EXCEPT ![s].feed = cut(n)]
<1>1. /\ sockets[s].phase = "live" /\ Spend("lags")
      /\ UNCHANGED <<version, unpublished, page, loads, command, service, visible>>
  BY DEF Lag
<1>2. PICK n \in 1..Len(sockets[s].feed) : sockets' = f(n)
  BY DEF Lag
<1>3. sockets \in [Socket -> SocketRow] /\ sockets[s].event \in Event
  BY <1>1, ServiceParts DEF IInv
<1>4. m \in Note
  BY <1>3 DEF Message, Note, SocketRow
<1>5. cut(n) \in Seq(Note)
  BY <1>3, <1>4, Feeds DEF SocketRow
<1> HIDE DEF cut, m
<1>6. /\ f(n) \in [Socket -> SocketRow]
      /\ \A t \in Socket : /\ f(n)[t].event = sockets[t].event
                           /\ f(n)[t].phase = sockets[t].phase
  BY <1>3, <1>5 DEF SocketRow
<1> HIDE DEF f
<1>7. SocketsOK'
  BY <1>1, <1>2, <1>6, FeedStep DEF IInv
<1> QED BY <1>1, <1>7, SocketStep DEF IInv, BackendOK, Purse

LEMMA BackendRestartStep == ASSUME IInv, BackendRestart PROVE IInv'
<1> DEFINE f == [s \in Socket |->
                   IF sockets[s].phase \in {"closed", "closing"} THEN sockets[s]
                   ELSE [sockets[s] EXCEPT !.phase = "lost", !.feed = <<>>]]
<1>1. /\ Spend("faults") /\ unpublished' = {} /\ sockets' = f /\ command' \in {command, None}
      /\ UNCHANGED <<version, page, loads, service, visible>>
  BY DEF BackendRestart
<1>2. sockets \in [Socket -> SocketRow]
  BY ServiceParts DEF IInv
<1>3. <<>> \in Seq(Note)
  BY EmptySeq
<1>4. /\ f \in [Socket -> SocketRow]
      /\ \A t \in Socket : /\ f[t].event = sockets[t].event
                           /\ f[t].phase # "closed" => sockets[t].phase # "closed"
                           /\ f[t].phase \notin Leaving => sockets[t].phase \notin Leaving
  BY <1>2, <1>3 DEF SocketRow, Leaving
<1> HIDE DEF f
<1>5. SocketsOK'
  BY <1>1, <1>4, FeedStep DEF IInv
<1>6. left' \in [Purse -> Nat]
  BY <1>1, Spent DEF IInv, BackendOK, Purse
<1>7. BackendOK' /\ \A e \in Event : version[e] <= version'[e]
  BY <1>1, <1>6 DEF IInv, BackendOK, Purse
<1>8. PagePart'
  BY <1>1, <1>7, PageElsewhere DEF IInv
<1> QED BY <1>5, <1>7, <1>8 DEF IInv

----------------------------------------------------------------------------
(* The steps of the page, of its commands and of other users.              *)

LEMMA SomeoneChangesStep == ASSUME IInv, NEW e \in Event, SomeoneChanges(e) PROVE IInv'
<1>1. /\ Spend("changes") /\ Advance(e)
      /\ UNCHANGED <<page, loads, command, service, sockets, visible>>
  BY DEF SomeoneChanges
<1>2. left' \in [Purse -> Nat]
  BY <1>1, Spent DEF IInv, BackendOK, Purse
<1>3. BackendOK' /\ \A d \in Event : version[d] <= version'[d]
  BY <1>1, <1>2, Advances DEF IInv, BackendOK, Purse
<1>4. SocketsOK'
  BY <1>1, ServiceElsewhere DEF IInv
<1>5. PagePart'
  BY <1>1, <1>3, PageElsewhere DEF IInv
<1> QED BY <1>3, <1>4, <1>5 DEF IInv

LEMMA NavigateStep == ASSUME IInv, NEW e \in Event, Navigate(e) PROVE IInv'
<1> DEFINE w == StopConnection(State)
<1>1. /\ Spend("visits") /\ Becomes(w) /\ loads' = Started(e, FALSE)
      /\ page' = [event |-> e, snapshot |-> None, panel |-> "loading",
                  loading |-> TRUE, failed |-> FALSE, unheard |-> FALSE]
      /\ UNCHANGED <<version, unpublished, command, visible>>
  BY DEF Navigate
<1>2. Good(w) /\ w.service.requested = None
  BY StoppedConnection DEF IInv, SocketsOK
<1> HIDE DEF w
<1>3. page' \in PageRow /\ page'.event = e /\ page'.snapshot = None
  BY <1>1 DEF PageRow, EventOrNone
<1>4. SocketsOK'
  BY <1>1, <1>2, ServiceBecomes
<1>5. BackendOK'
  BY <1>1, BackendElsewhere DEF IInv, BackendOK, Purse
<1>6. PagePart'
  BY <1>1, <1>3, LoadStarts DEF IInv
<1> QED BY <1>4, <1>5, <1>6 DEF IInv

LEMMA ReloadStep == ASSUME IInv, NEW silent \in BOOLEAN, Reload(silent) PROVE IInv'
<1> DEFINE up == page.loading \/ ~silent
<1>1. /\ page.event # None /\ Spend("visits") /\ loads' = Started(page.event, silent)
      /\ page' = [page EXCEPT !.loading = up, !.failed = FALSE, !.unheard = FALSE]
      /\ UNCHANGED <<version, unpublished, command, service, sockets, visible>>
  BY DEF Reload
<1>2. up \in BOOLEAN /\ page \in PageRow
  BY DEF IInv, PagePart, PageOK
<1> HIDE DEF up
<1>3. /\ page' \in PageRow /\ page'.event = page.event /\ page'.snapshot = page.snapshot
      /\ page.event \in Event
  BY <1>1, <1>2 DEF PageRow, EventOrNone
<1>4. SocketsOK'
  BY <1>1, <1>3, ServiceElsewhere DEF IInv
<1>5. BackendOK'
  BY <1>1, BackendElsewhere DEF IInv, BackendOK, Purse
<1>6. PagePart'
  BY <1>1, <1>3, LoadStarts DEF IInv
<1> QED BY <1>4, <1>5, <1>6 DEF IInv

LEMMA OnMessageStep == ASSUME IInv, NEW s \in Socket, OnMessage(s) PROVE IInv'
<1> DEFINE m == Head(sockets[s].feed)
           rest == Tail(sockets[s].feed)
           f == [sockets EXCEPT ![s].feed = rest, ![s].latest = m.version]
           missed == \/ page.unheard
                     \/ /\ IsCurrentConnection(s) /\ m.event = service.requested
                        /\ m.event = page.event
                        /\ page.snapshot # None /\ m.version < page.snapshot.version
                        /\ m.type = "resync_required" \/ page.snapshot.event # m.event
<1>1. /\ sockets[s].feed # <<>> /\ sockets' = f
      /\ \/ /\ m.event = page.event /\ loads' = Started(page.event, TRUE)
            /\ page' = [page EXCEPT !.failed = FALSE, !.unheard = FALSE]
         \/ UNCHANGED loads /\ page' = [page EXCEPT !.unheard = missed]
      /\ UNCHANGED <<version, unpublished, command, service, visible, left>>
  BY DEF OnMessage
<1>2. sockets \in [Socket -> SocketRow] /\ page \in PageRow /\ missed \in BOOLEAN
  BY ServiceParts DEF IInv, PagePart, PageOK, PageRow
<1> HIDE DEF missed
<1>3. rest \in Seq(Note) /\ m \in Note
  <2>1. sockets[s].feed \in Seq(Note)
    BY <1>2 DEF SocketRow
  <2> QED BY <1>1, <2>1, HeadTailProperties
<1> HIDE DEF m, rest
<1>4. /\ f \in [Socket -> SocketRow]
      /\ \A t \in Socket : f[t].event = sockets[t].event /\ f[t].phase = sockets[t].phase
  BY <1>2, <1>3 DEF SocketRow, Note
<1> HIDE DEF f
<1>5. page' \in PageRow /\ page'.event = page.event /\ page'.snapshot = page.snapshot
  BY <1>1, <1>2 DEF PageRow
<1>6. SocketsOK'
  BY <1>1, <1>4, <1>5, ServiceParts, SocketsMove DEF IInv
<1>7. BackendOK' /\ \A e \in Event : version[e] <= version'[e]
  BY <1>1, BackendElsewhere DEF IInv, BackendOK
<1>8. PagePart'
  <2>1. CASE m.event = page.event /\ loads' = Started(page.event, TRUE)
    <3>1. page'.event \in Event
      BY <1>3, <1>5, <2>1 DEF Note
    <3> QED BY <1>1, <1>5, <2>1, <3>1, LoadStarts DEF IInv
  <2>2. CASE UNCHANGED loads
    BY <1>1, <1>5, <2>2, PageFlagged DEF IInv
  <2> QED BY <1>1, <2>1, <2>2
<1> QED BY <1>6, <1>7, <1>8 DEF IInv

LEMMA Spinner ==
  ASSUME PagePart, NEW l \in loads
  PROVE  Lowered(l) \in BOOLEAN
BY DEF Lowered

LEMMA EventArrivesStep == ASSUME IInv, NEW l \in loads, EventArrives(l) PROVE IInv'
<1> DEFINE down == Lowered(l)
           first == FirstPanel(l, page.panel)
           s == NewSocket(State)
<1>1. /\ l.at = "event"
      /\ UNCHANGED <<version, unpublished, command, visible, left>>
  BY DEF EventArrives
<1>2. /\ page \in PageRow /\ l \in LoadRow /\ down \in BOOLEAN
      /\ first \in {"loading", "ready", "error"}
  <2>1. page \in PageRow /\ l \in LoadRow
    BY DEF IInv, PagePart, PageOK
  <2>2. first \in {"loading", page.panel}
    BY DEF FirstPanel
  <2> QED BY <2>1, <2>2, Spinner DEF IInv, PageRow
<1>3. BackendOK'
  BY <1>1, BackendElsewhere DEF IInv, BackendOK
<1>4. CASE /\ loads' = loads \ {l}
           /\ page' = [page EXCEPT !.loading = down] \/ page' = [page EXCEPT !.loading = down, !.panel = "ready"]
           /\ UNCHANGED <<service, sockets>>
  <2> HIDE DEF down
  <2>1. page' \in PageRow /\ page'.event = page.event /\ page'.snapshot = page.snapshot
    BY <1>2, <1>4 DEF PageRow
  <2>2. SocketsOK'
    BY <1>4, <2>1, ServiceElsewhere DEF IInv
  <2>3. PagePart'
    BY <1>1, <1>4, <2>1, LoadEnds DEF IInv
  <2> QED BY <1>3, <2>2, <2>3 DEF IInv
<1>5. CASE /\ ~IsStaleLoad(l)
           /\ loads' = (loads \ {l}) \cup {[l EXCEPT !.at = "roster"]}
           /\ page' = [page EXCEPT !.panel = first]
           /\ FreeSockets(State) # {} /\ Becomes(Connect(State, l.event, s))
  <2>1. page' \in PageRow /\ page'.event = page.event /\ page'.snapshot = page.snapshot
    <3> HIDE DEF first
    <3> QED BY <1>2, <1>5 DEF PageRow
  <2>2. l.event \in Event /\ l.event = page.event
    BY <1>2, <1>5 DEF IsStaleLoad, LoadRow
  <2>3. s \in Socket
    BY <1>5, NewSocketIsFree
  <2> HIDE DEF s
  <2>4. /\ Good(Connect(State, l.event, s))
        /\ Connect(State, l.event, s).service.requested = l.event
    BY <2>2, <2>3, Connected DEF IInv, SocketsOK
  <2>5. SocketsOK'
    BY <1>5, <2>1, <2>2, <2>4, ServiceBecomes
  <2>6. PagePart'
    BY <1>1, <1>5, <2>1, LoadAsks DEF IInv
  <2> QED BY <1>3, <2>5, <2>6 DEF IInv
<1>6. QED BY <1>4, <1>5 DEF EventArrives

LEMMA EventFailsStep == ASSUME IInv, NEW l \in loads, EventFails(l) PROVE IInv'
<1> DEFINE down == Lowered(l)
           failed == page.failed \/ ~IsStaleLoad(l)
<1>1. /\ Spend("faults") /\ loads' = loads \ {l}
      /\ page' = [page EXCEPT !.failed = failed, !.loading = down]
      /\ UNCHANGED <<version, unpublished, command, service, sockets, visible>>
  BY DEF EventFails
<1>2. page \in PageRow /\ down \in BOOLEAN /\ failed \in BOOLEAN
  BY Spinner DEF IInv, PagePart, PageOK
<1> HIDE DEF down, failed
<1>3. page' \in PageRow /\ page'.event = page.event /\ page'.snapshot = page.snapshot
  BY <1>1, <1>2 DEF PageRow
<1>4. BackendOK'
  BY <1>1, BackendElsewhere DEF IInv, BackendOK, Purse
<1>5. SocketsOK'
  BY <1>1, <1>3, ServiceElsewhere DEF IInv
<1>6. PagePart'
  BY <1>1, <1>3, LoadEnds DEF IInv
<1> QED BY <1>4, <1>5, <1>6 DEF IInv

LEMMA RosterIsReadStep == ASSUME IInv, NEW l \in loads, RosterIsRead(l) PROVE IInv'
<1> DEFINE next == [l EXCEPT !.at = "read", !.version = version[l.event]]
<1>1. /\ l.at = "roster" /\ loads' = (loads \ {l}) \cup {next}
      /\ UNCHANGED <<version, unpublished, page, command, service, sockets, visible, left>>
  BY DEF RosterIsRead
<1>2. l \in LoadRow /\ version \in [Event -> Nat]
  BY DEF IInv, BackendOK, PagePart, PageOK
<1>3. /\ next \in LoadRow /\ next.at = "read" /\ next.newest = l.newest
      /\ next.event = l.event /\ next.by = l.by /\ next.version = version[l.event]
  BY <1>2 DEF LoadRow
<1> HIDE DEF next
<1>4. BackendOK'
  BY <1>1, BackendElsewhere DEF IInv, BackendOK
<1>5. SocketsOK'
  BY <1>1, ServiceElsewhere DEF IInv
<1>6. PageOK' /\ ShownOK'
  BY <1>1, <1>3 DEF IInv, PagePart, PageOK, ShownOK, Loaded
<1>7. OrderOK'
  <2>1. /\ \A k \in loads : k.newest => k.event = page.event
        /\ \A k \in loads : k.at = "read" => k.version <= version[k.event]
        /\ \A k, m \in loads : k.newest /\ m.newest /\ k.by = "load" /\ m.by = "load" => k = m
        /\ \A k \in loads : k.newest /\ k.by = "load" /\ k.at = "read" /\ Loaded =>
             page.snapshot.version <= k.version
        /\ Loaded => page.snapshot.version <= version[page.event]
    BY DEF IInv, PagePart, OrderOK, ShownOK
  <2>2. \A k \in loads' : k.newest => k.event = page.event
    BY <1>1, <1>3, <2>1
  <2>3. version[l.event] <= version[l.event]
    BY <1>2 DEF LoadRow
  <2>4. \A k \in loads' : k.at = "read" => k.version <= version[k.event]
    BY <1>1, <1>3, <2>1, <2>3
  <2>5. \A k, m \in loads' : k.newest /\ m.newest /\ k.by = "load" /\ m.by = "load" => k = m
    BY <1>1, <1>3, <2>1
  <2>6. \A k \in loads' : k.newest /\ k.by = "load" /\ k.at = "read" /\ Loaded =>
          page.snapshot.version <= k.version
    BY <1>1, <1>3, <2>1
  <2> QED BY <1>1, <2>2, <2>4, <2>5, <2>6 DEF OrderOK, Loaded
<1> QED BY <1>4, <1>5, <1>6, <1>7 DEF IInv, PagePart

\* What a load shows is not older than what an earlier load has shown.
LEMMA NewestShows ==
  ASSUME IInv, NEW l \in loads, l.at = "read", ~IsStaleLoad(l)
  PROVE  /\ l.event = page.event /\ l.version \in Nat
         /\ l.by = "load" /\ Loaded => page.snapshot.version <= l.version
         /\ l.version <= version[l.event]
BY DEF IInv, PagePart, PageOK, OrderOK, IsStaleLoad, LoadRow

LEMMA RosterArrivesStep == ASSUME IInv, NEW l \in loads, RosterArrives(l) PROVE IInv'
<1> DEFINE down == Lowered(l)
           done == [page EXCEPT !.loading = down]
           snapshot == Snapshot(l.event, l.version, l.by)
<1>1. /\ l.at = "read" /\ loads' = loads \ {l}
      /\ page' = IF IsStaleLoad(l) THEN done ELSE Applied(done, snapshot)
      /\ UNCHANGED <<version, unpublished, command, service, sockets, visible, left>>
  BY DEF RosterArrives
<1>2. page \in PageRow /\ l \in LoadRow /\ down \in BOOLEAN
  BY Spinner DEF IInv, PagePart, PageOK
<1> HIDE DEF down
<1>3. done \in PageRow /\ done.event = page.event /\ done.snapshot = page.snapshot
  BY <1>2 DEF PageRow
<1>4. BackendOK'
  BY <1>1, BackendElsewhere DEF IInv, BackendOK
<1>5. CASE IsStaleLoad(l)
  <2>1. page' = done
    BY <1>1, <1>5
  <2> HIDE DEF done
  <2>2. SocketsOK'
    BY <1>1, <1>3, <2>1, ServiceElsewhere DEF IInv
  <2>3. PagePart'
    BY <1>1, <1>3, <2>1, LoadEnds DEF IInv
  <2> QED BY <1>4, <2>2, <2>3 DEF IInv
<1>6. CASE ~IsStaleLoad(l)
  <2>1. /\ snapshot \in SnapshotRow /\ snapshot.event = l.event /\ snapshot.by = l.by
        /\ snapshot.version = l.version
    BY <1>2 DEF Snapshot, SnapshotRow, LoadRow
  <2>2. /\ l.event = page.event /\ l.version <= version[l.event]
    BY <1>1, <1>6, NewestShows
  <2> HIDE DEF done, snapshot
  <2>3. page' \in PageRow /\ page'.event = page.event /\ page'.snapshot = snapshot
    BY <1>1, <1>3, <1>6, <2>1 DEF Applied, PageRow
  <2>4. SocketsOK'
    BY <1>1, <2>3, ServiceElsewhere DEF IInv
  <2>5. PageOK'
    BY <1>1, <1>2, <2>2, <2>3 DEF IInv, PagePart, PageOK, LoadRow
  <2>6. ShownOK'
    BY <1>1, <2>1, <2>2, <2>3 DEF ShownOK, Loaded
  <2>7. OrderOK'
    <3>1. /\ \A k \in loads : k.newest => k.event = page.event
          /\ \A k \in loads : k.at = "read" => k.version <= version[k.event]
          /\ \A k, m \in loads : k.newest /\ m.newest /\ k.by = "load" /\ m.by = "load" => k = m
      BY DEF IInv, PagePart, OrderOK
    <3>2. l.newest
      BY <1>6 DEF IsStaleLoad
    <3>3. Loaded' => l.by = "load"
      BY <2>1, <2>3 DEF Loaded
    <3>4. \A k \in loads' : k.newest /\ k.by = "load" /\ k.at = "read" /\ Loaded' =>
            page'.snapshot.version <= k.version
      BY <1>1, <3>1, <3>2, <3>3
    <3> QED BY <1>1, <2>3, <3>1, <3>4 DEF OrderOK
  <2> QED BY <1>4, <2>4, <2>5, <2>6, <2>7 DEF IInv, PagePart
<1> QED BY <1>5, <1>6

LEMMA RosterFailsStep == ASSUME IInv, NEW l \in loads, RosterFails(l) PROVE IInv'
<1> DEFINE down == Lowered(l)
           done == [page EXCEPT !.loading = down]
<1>1. /\ Spend("faults") /\ loads' = loads \ {l}
      /\ page' = IF IsStaleLoad(l) THEN done ELSE [done EXCEPT !.snapshot = None, !.panel = "error"]
      /\ UNCHANGED <<version, unpublished, command, service, sockets, visible>>
  BY DEF RosterFails
<1>2. page \in PageRow /\ down \in BOOLEAN
  BY Spinner DEF IInv, PagePart, PageOK
<1> HIDE DEF down
<1>3. done \in PageRow /\ done.event = page.event /\ done.snapshot = page.snapshot
  BY <1>2 DEF PageRow
<1> HIDE DEF done
<1>4. page' \in PageRow /\ page'.event = page.event /\ page'.snapshot \in {None, page.snapshot}
  BY <1>1, <1>3 DEF PageRow
<1>5. BackendOK'
  BY <1>1, BackendElsewhere DEF IInv, BackendOK, Purse
<1>6. SocketsOK'
  BY <1>1, <1>4, ServiceElsewhere DEF IInv
<1>7. PagePart'
  BY <1>1, <1>4, LoadEnds DEF IInv
<1> QED BY <1>5, <1>6, <1>7 DEF IInv

LEMMA SendCommandStep == ASSUME IInv, SendCommand PROVE IInv'
<1>1. /\ page.snapshot # None /\ Spend("commands")
      /\ command' = [event |-> page.event, expected |-> page.snapshot.version,
                     at |-> "sent", version |-> 0]
      /\ UNCHANGED <<version, unpublished, page, loads, service, sockets, visible>>
  BY DEF SendCommand
<1>2. page.snapshot \in SnapshotRow /\ page.event \in Event
  BY <1>1 DEF IInv, PagePart, PageOK, PageRow
<1>3. command' \in CommandRow
  BY <1>1, <1>2 DEF CommandRow, SnapshotRow
<1>4. BackendOK' /\ \A e \in Event : version[e] <= version'[e]
  BY <1>1, BackendElsewhere DEF IInv, BackendOK, Purse
<1>5. SocketsOK'
  BY <1>1, ServiceElsewhere DEF IInv
<1>6. PagePart'
  BY <1>1, <1>2, <1>3, <1>4, PageElsewhere DEF IInv
<1> QED BY <1>4, <1>5, <1>6 DEF IInv

\* A command is only under way on a page that has a route.
LEMMA CommandIsRouted ==
  ASSUME IInv, command # None
  PROVE  command \in CommandRow /\ page.event \in Event
BY DEF IInv, PagePart, PageOK

LEMMA CommandRunsStep == ASSUME IInv, CommandRuns PROVE IInv'
<1>1. /\ command # None /\ UNCHANGED <<page, loads, service, sockets, visible, left>>
      /\ \/ Advance(command.event) /\ command' = [command EXCEPT !.at = "committed"]
         \/ command' = [command EXCEPT !.at = "conflict"] /\ UNCHANGED <<version, unpublished>>
  BY DEF CommandRuns, backend
<1>2. command \in CommandRow /\ page.event \in Event
  BY <1>1, CommandIsRouted
<1>3. command' \in CommandRow /\ command.event \in Event
  BY <1>1, <1>2 DEF CommandRow
<1>4. BackendOK' /\ \A e \in Event : version[e] <= version'[e]
  <2>1. CASE Advance(command.event)
    BY <1>1, <1>3, <2>1, Advances DEF IInv, BackendOK
  <2>2. CASE UNCHANGED <<version, unpublished>>
    BY <1>1, <2>2, BackendElsewhere DEF IInv, BackendOK
  <2> QED BY <1>1, <2>1, <2>2
<1>5. SocketsOK'
  BY <1>1, ServiceElsewhere DEF IInv
<1>6. PagePart'
  BY <1>1, <1>2, <1>3, <1>4, PageElsewhere DEF IInv
<1> QED BY <1>4, <1>5, <1>6 DEF IInv

LEMMA CommandAnswersStep == ASSUME IInv, CommandAnswers PROVE IInv'
<1>1. /\ command # None
      /\ command' = [command EXCEPT !.at = "answered", !.version = version[command.event]]
      /\ UNCHANGED <<version, unpublished, page, loads, service, sockets, visible, left>>
  BY DEF CommandAnswers
<1>2. command \in CommandRow /\ page.event \in Event
  BY <1>1, CommandIsRouted
<1>3. version[command.event] \in Nat
  BY <1>2 DEF IInv, BackendOK, CommandRow
<1>4. command' \in CommandRow
  BY <1>1, <1>2, <1>3 DEF CommandRow
<1>5. BackendOK' /\ \A e \in Event : version[e] <= version'[e]
  BY <1>1, BackendElsewhere DEF IInv, BackendOK
<1>6. SocketsOK'
  BY <1>1, ServiceElsewhere DEF IInv
<1>7. PagePart'
  BY <1>1, <1>2, <1>4, <1>5, PageElsewhere DEF IInv
<1> QED BY <1>5, <1>6, <1>7 DEF IInv

LEMMA CommandArrivesStep == ASSUME IInv, CommandArrives PROVE IInv'
<1>1. /\ command # None /\ command' = None
      /\ UNCHANGED <<version, unpublished, service, sockets, visible, left>>
  BY DEF CommandArrives
<1>2. command \in CommandRow /\ page.event \in Event /\ page \in PageRow /\ loads \subseteq LoadRow
  BY <1>1, CommandIsRouted DEF IInv, PagePart, PageOK
<1>3. BackendOK'
  BY <1>1, BackendElsewhere DEF IInv, BackendOK
<1>4. CASE /\ page' = Applied(page, Snapshot(command.event, command.version, "command"))
           /\ UNCHANGED loads
  <2> DEFINE snapshot == Snapshot(command.event, command.version, "command")
  <2>1. snapshot \in SnapshotRow /\ snapshot.by = "command"
    BY <1>2 DEF Snapshot, SnapshotRow, CommandRow, Origin
  <2> HIDE DEF snapshot
  <2>2. page' \in PageRow /\ page'.event = page.event /\ page'.snapshot = snapshot
    BY <1>2, <1>4, <2>1 DEF Applied, PageRow, snapshot
  <2>3. ~Loaded'
    BY <2>1, <2>2 DEF Loaded
  <2>4. SocketsOK'
    BY <1>1, <2>2, ServiceElsewhere DEF IInv
  <2>5. PageOK'
    BY <1>1, <1>2, <1>4, <2>2 DEF PageOK
  <2>6. ShownOK' /\ OrderOK'
    BY <1>1, <1>4, <2>2, <2>3 DEF IInv, PagePart, ShownOK, OrderOK
  <2> QED BY <1>3, <2>4, <2>5, <2>6 DEF IInv, PagePart
<1>5. CASE Refetch /\ UNCHANGED page
  <2> DEFINE fresh == [event |-> page.event, by |-> "command", at |-> "roster",
                       silent |-> TRUE, newest |-> TRUE, spins |-> FALSE, version |-> 0]
  <2>1. /\ fresh \in LoadRow /\ fresh.event = page.event /\ fresh.by = "command"
        /\ fresh.at = "roster"
    BY <1>2 DEF LoadRow, Origin
  <2>2. loads' = loads \cup {fresh}
    BY <1>5 DEF Refetch
  <2> HIDE DEF fresh
  <2>3. SocketsOK'
    BY <1>1, <1>5, ServiceElsewhere DEF IInv
  <2>4. PageOK'
    BY <1>1, <1>2, <1>5, <2>1, <2>2 DEF PageOK
  <2>5. ShownOK' /\ OrderOK'
    BY <1>1, <1>5, <2>1, <2>2 DEF IInv, PagePart, ShownOK, OrderOK, Loaded
  <2> QED BY <1>3, <2>3, <2>4, <2>5 DEF IInv, PagePart
<1> QED BY <1>4, <1>5 DEF CommandArrives

LEMMA CommandFailsStep == ASSUME IInv, CommandFails PROVE IInv'
<1>1. /\ Spend("faults") /\ command' = None
      /\ UNCHANGED <<version, unpublished, page, loads, service, sockets, visible>>
  BY DEF CommandFails
<1>2. BackendOK' /\ \A e \in Event : version[e] <= version'[e]
  BY <1>1, BackendElsewhere DEF IInv, BackendOK, Purse
<1>3. SocketsOK'
  BY <1>1, ServiceElsewhere DEF IInv
<1>4. PagePart'
  BY <1>1, <1>2, PageElsewhere DEF IInv
<1> QED BY <1>2, <1>3, <1>4 DEF IInv

----------------------------------------------------------------------------
(* The invariant, and what follows from it.                                *)

LEMMA InitIsGood == Init => IInv
<1> SUFFICES ASSUME Init PROVE IInv
  OBVIOUS
<1>1. BackendOK
  BY RosterAssumption DEF Init, BackendOK, RosterAssumption
<1>2. SocketsOK
  <2>1. service \in ServiceRow /\ service.socket = None /\ service.requested = None
    BY DEF Init, ServiceRow, EventOrNone
  <2>2. sockets \in [Socket -> SocketRow] /\ \A s \in Socket : sockets[s].phase = "closed"
    <3>1. Idle.phase = "closed"
      BY DEF Idle
    <3> QED BY <3>1, IdleIsARow DEF Init
  <2>3. Good([service |-> service, sockets |-> sockets])
    BY <2>1, <2>2, PairIs DEF Leaving
  <2> QED BY <2>1, <2>3 DEF SocketsOK, State
<1>3. PageOK
  BY DEF Init, PageOK, PageRow, EventOrNone
<1>4. ShownOK /\ OrderOK
  BY DEF Init, ShownOK, OrderOK, Loaded
<1> QED BY <1>1, <1>2, <1>3, <1>4 DEF IInv, PagePart

LEMMA NextKeepsIt == IInv /\ [Next]_vars => IInv'
<1> SUFFICES ASSUME IInv, [Next]_vars PROVE IInv'
  OBVIOUS
<1>1. CASE User
  BY <1>1, NavigateStep, ReloadStep, SendCommandStep, HideStep, ShowStep DEF User
<1>2. CASE Others
  BY <1>2, SomeoneChangesStep DEF Others
<1>3. CASE Failures
  BY <1>3, OnErrorStep, LagStep, EventFailsStep, RosterFailsStep, BackendRestartStep,
     CommandFailsStep DEF Failures
<1>4. CASE Transport
  BY <1>4, PublishStep, OnOpenStep, OnCloseStep, OnMessageStep, SubscribeStep, GreetStep,
     ReconnectTimerStep DEF Transport
<1>5. CASE Requests
  BY <1>5, EventArrivesStep, RosterIsReadStep, RosterArrivesStep, CommandRunsStep,
     CommandAnswersStep, CommandArrivesStep DEF Requests
<1>6. CASE UNCHANGED vars
  <2>1. UNCHANGED <<version, unpublished, page, loads, command, service, sockets, visible, left>>
    BY <1>6 DEF vars
  <2>2. SocketsOK' /\ visible' \in BOOLEAN
    BY <2>1, ServiceElsewhere DEF IInv, BackendOK
  <2> QED BY <2>1, <2>2, SocketStep
<1> QED BY <1>1, <1>2, <1>3, <1>4, <1>5, <1>6 DEF Next

LEMMA Invariant == Spec => []IInv
BY InitIsGood, NextKeepsIt, PTL DEF Spec

LEMMA GoodIsTyped == IInv => TypeOK
<1> SUFFICES ASSUME IInv PROVE TypeOK
  OBVIOUS
<1>1. service \in ServiceRow /\ sockets \in [Socket -> SocketRow]
  BY ServiceParts DEF IInv
<1>2. BackendOK /\ PageOK
  BY DEF IInv, PagePart
<1> QED BY <1>1, <1>2 DEF TypeOK, BackendOK, PageOK, PageRow, SnapshotRow, LoadRow, CommandRow,
           ServiceRow, SocketRow, Note

\* Every variable of the page, its socket and the backend keeps its type
\* (TypeOK): the operators of the service only ever make services and sockets.
THEOREM RosterTypes == Spec => []TypeOK
BY Invariant, GoodIsTyped, PTL

\* The page never has two live sockets, nor one beside a pending reconnect, nor
\* one for another event (realtime-roster.service.ts).
THEOREM OneSocket == Spec => []SingleSocket
<1>1. IInv => SingleSocket
  <2> SUFFICES ASSUME IInv PROVE SingleSocket
    OBVIOUS
  <2> QED BY ServiceParts DEF IInv, SingleSocket
<1> QED BY <1>1, Invariant, PTL

\* A roster that a load put on screen is that of the route (isStaleLoad).
THEOREM RouteIsShown == Spec => []LoadsShowTheRoute
<1>1. IInv => LoadsShowTheRoute
  BY DEF IInv, PagePart, ShownOK, Loaded, LoadsShowTheRoute
<1> QED BY <1>1, Invariant, PTL

\* What a step may do to the roster on screen.
LEMMA SnapshotMoves ==
  ASSUME IInv, [Next]_vars
  PROVE  \/ page'.snapshot \in {None, page.snapshot} \/ page'.snapshot.by = "command"
         \/ \E l \in loads : RosterArrives(l)
<1>0. page \in PageRow
  BY DEF IInv, PagePart, PageOK
<1>1. CASE User
  <2>1. ASSUME NEW e \in Event, Navigate(e) PROVE page'.snapshot = None
    BY <2>1 DEF Navigate
  <2>2. ASSUME NEW silent \in BOOLEAN, Reload(silent) PROVE page'.snapshot = page.snapshot
    <3> DEFINE up == page.loading \/ ~silent
    <3>1. page' = [page EXCEPT !.loading = up, !.failed = FALSE, !.unheard = FALSE]
      BY <2>2 DEF Reload
    <3> HIDE DEF up
    <3> QED BY <1>0, <3>1 DEF PageRow
  <2>3. CASE SendCommand \/ Hide \/ Show
    BY <2>3 DEF SendCommand, Hide, Show
  <2> QED BY <1>1, <2>1, <2>2, <2>3 DEF User
<1>2. CASE Others
  BY <1>2 DEF Others, SomeoneChanges
<1>3. CASE Failures
  BY <1>0, <1>3 DEF Failures, OnError, Lag, EventFails, RosterFails, BackendRestart, CommandFails,
                    PageRow
<1>4. CASE Transport
  BY <1>0, <1>4 DEF Transport, Publish, OnOpen, OnClose, OnMessage, Subscribe, Greet, ReconnectTimer,
                    PageRow
<1>5. CASE Requests
  <2>1. ASSUME NEW l \in loads, EventArrives(l) PROVE page'.snapshot = page.snapshot
    <3> DEFINE down == Lowered(l)
               first == FirstPanel(l, page.panel)
    <3>1. \/ page' = [page EXCEPT !.loading = down]
          \/ page' = [page EXCEPT !.loading = down, !.panel = "ready"]
          \/ page' = [page EXCEPT !.panel = first]
      BY <2>1 DEF EventArrives
    <3> HIDE DEF down, first
    <3> QED BY <1>0, <3>1 DEF PageRow
  <2>2. ASSUME NEW l \in loads, RosterIsRead(l) PROVE page'.snapshot = page.snapshot
    BY <2>2 DEF RosterIsRead
  <2>3. CASE CommandRuns \/ CommandAnswers
    BY <2>3 DEF CommandRuns, CommandAnswers
  <2>4. CASE CommandArrives
    <3>1. CASE page' = Applied(page, Snapshot(command.event, command.version, "command"))
      BY <1>0, <3>1 DEF Applied, Snapshot, PageRow
    <3> QED BY <2>4, <3>1 DEF CommandArrives
  <2> QED BY <1>5, <2>1, <2>2, <2>3, <2>4 DEF Requests
<1>6. CASE UNCHANGED vars
  BY <1>6 DEF vars
<1> QED BY <1>1, <1>2, <1>3, <1>4, <1>5, <1>6 DEF Next

\* While the page stays on an event its loads never take it back to an older
\* roster (load, loadRosterSnapshot and their generations).
THEOREM NeverBack == Spec => LoadsNeverGoBack
<1> DEFINE both == /\ page.snapshot # None /\ page'.snapshot # None
                   /\ page.snapshot.by = "load" /\ page'.snapshot.by = "load"
                   /\ page'.event = page.event
<1>1. IInv /\ [Next]_vars => [both => page'.snapshot.version >= page.snapshot.version]_vars
  <2> SUFFICES ASSUME IInv, [Next]_vars, both
               PROVE  page'.snapshot.version >= page.snapshot.version
    OBVIOUS
  <2>1. Loaded /\ page.snapshot.version \in Nat
    BY DEF Loaded, IInv, PagePart, PageOK, PageRow, SnapshotRow
  <2>2. CASE page'.snapshot \in {None, page.snapshot}
    BY <2>1, <2>2
  <2>3. ASSUME NEW l \in loads, RosterArrives(l)
        PROVE  page'.snapshot.version >= page.snapshot.version
    <3>1. l.at = "read" /\ page' = IF IsStaleLoad(l) THEN [page EXCEPT !.loading = Lowered(l)]
            ELSE Applied([page EXCEPT !.loading = Lowered(l)], Snapshot(l.event, l.version, l.by))
      BY <2>3 DEF RosterArrives
    <3>2. page \in PageRow
      BY DEF IInv, PagePart, PageOK
    <3>3. CASE IsStaleLoad(l)
      <4>1. page'.snapshot = page.snapshot
        BY <3>1, <3>2, <3>3 DEF PageRow
      <4> QED BY <2>2, <4>1
    <3>4. CASE ~IsStaleLoad(l)
      <4>1. page'.snapshot = Snapshot(l.event, l.version, l.by)
        BY <3>1, <3>2, <3>4 DEF Applied, PageRow
      <4>2. l.by = "load" /\ page'.snapshot.version = l.version
        BY <4>1 DEF Snapshot
      <4>3. l.version \in Nat /\ page.snapshot.version <= l.version
        BY <2>1, <3>1, <3>4, <4>2, NewestShows
      <4> QED BY <2>1, <4>2, <4>3
    <3> QED BY <3>3, <3>4
  <2> QED BY <2>2, <2>3, SnapshotMoves
<1> QED BY <1>1, Invariant, PTL DEF Spec, LoadsNeverGoBack
----------------------------------------------------------------------------
(* No news is lost.  While a page is visible and asks for its event, its    *)
(* socket is there or about to be; what it does not show yet is told by     *)
(* that socket, by a change still to be published or by its newest load.    *)

Held(w, seen) ==
  /\ w.service.socket # None => w.sockets[w.service.socket].phase \notin Leaving
  /\ seen /\ w.service.requested # None => w.service.socket # None \/ w.service.timer
  /\ ~seen => w.service.socket = None
Live(w) == w.service.socket # None /\ w.sockets[w.service.socket].phase = "live"
\* u has no live socket but one that w has, with the same messages before it.
Quiet(w, u) ==
  Live(u) => /\ u.service.socket = w.service.socket
             /\ u.sockets[u.service.socket] = w.sockets[u.service.socket]

Told == NewsComes \/ ~visible \/ page.unheard

Reading == \A l \in loads : l.newest /\ l.by = "load" /\ l.at = "read" =>
             l.version = version[page.event] \/ Told
Showing == Loaded /\ ~page.failed =>
             \/ page.snapshot.version = version[page.event]
             \/ Told
             \/ \E l \in loads : l.newest /\ l.by = "load"
Asked == Loaded \/ (\E l \in loads : l.newest /\ l.by = "load" /\ l.at # "event") =>
           service.requested = page.event /\ page.event \notin Flash
Panelled == page.panel = "ready" /\ page.event \notin Flash => page.snapshot # None
Bounded ==
  /\ page.snapshot # None => page.snapshot.version <= version[page.snapshot.event]
  /\ command # None /\ command.at = "answered" => command.version <= version[command.event]

NewsOK == Reading /\ Showing /\ Asked /\ Panelled /\ Bounded /\ SpinnerHasOwner
NInv == IInv /\ Held(State, visible) /\ NewsOK

LEMMA BecomesIs ==
  ASSUME NEW w, Good(w), Becomes(w)
  PROVE  State' = w
<1>1. w = [service |-> w.service, sockets |-> w.sockets]
  BY Parts DEF Good
<1> QED BY <1>1 DEF Becomes, State

LEMMA HeldOpened ==
  ASSUME NEW w, Good(w), w.service.socket = None, NEW s \in Socket, NEW isReconnect \in BOOLEAN
  PROVE  Held(OpenSocket(w, s, isReconnect), visible) /\ ~Live(OpenSocket(w, s, isReconnect))
<1>1. CASE w.service.requested = None \/ ~visible
  BY <1>1 DEF OpenSocket, Held, Live
<1>2. CASE ~(w.service.requested = None \/ ~visible)
  <2> DEFINE v == [w.service EXCEPT !.socket = s,
                     !.state = IF isReconnect THEN "reconnecting" ELSE "connecting"]
             row == [Idle EXCEPT !.phase = "opening", !.event = w.service.requested]
             f == [w.sockets EXCEPT ![s] = row]
  <2>1. OpenSocket(w, s, isReconnect) = [service |-> v, sockets |-> f]
    BY <1>2 DEF OpenSocket
  <2>2. w.service \in ServiceRow /\ w.sockets \in [Socket -> SocketRow]
    BY Parts DEF Good
  <2>3. v.socket = s /\ row.phase = "opening"
    BY <2>2 DEF ServiceRow, Idle
  <2> HIDE DEF v, row
  <2>4. f[s].phase = "opening" /\ s # None
    BY <2>2, <2>3, RosterAssumption DEF RosterAssumption
  <2> HIDE DEF f
  <2> QED BY <1>2, <2>1, <2>3, <2>4 DEF Held, Live, Leaving
<1> QED BY <1>1, <1>2

LEMMA HeldConnected ==
  ASSUME NEW w, Good(w), Held(w, visible), NEW e \in Event, NEW s \in Socket
  PROVE  Held(Connect(w, e, s), visible) /\ Quiet(w, Connect(w, e, s))
<1>1. CASE w.service.requested = e /\ (w.service.socket # None \/ w.service.timer)
  BY <1>1 DEF Connect, Quiet
<1>2. CASE ~(w.service.requested = e /\ (w.service.socket # None \/ w.service.timer))
  <2> DEFINE u == StopConnection(w)
             asked == [u EXCEPT !.service.requested = e]
             v == [u.service EXCEPT !.requested = e]
  <2>1. Good(u) /\ u.service.socket = None /\ ~u.service.timer
    BY StoppedConnection
  <2> HIDE DEF u
  <2>2. u = [service |-> u.service, sockets |-> u.sockets] /\ u.service \in ServiceRow
    BY <2>1, Parts DEF Good
  <2>3. asked = [service |-> v, sockets |-> u.sockets]
    BY <2>2
  <2>4. v \in ServiceRow /\ v.socket = None
    BY <2>1, <2>2 DEF ServiceRow, EventOrNone
  <2>5. Connect(w, e, s) = IF visible THEN OpenSocket(asked, s, FALSE) ELSE Disconnected(asked)
    BY <1>2 DEF Connect, u
  <2> HIDE DEF v, asked
  <2>6. Good(asked) /\ asked.service.socket = None
    BY <2>1, <2>3, <2>4, AskedAnew
  <2>7. CASE visible
    BY <2>5, <2>6, <2>7, HeldOpened DEF Quiet
  <2>8. CASE ~visible
    <3> DEFINE x == [v EXCEPT !.state = "disconnected"]
    <3>1. x.socket = None
      BY <2>4 DEF ServiceRow
    <3>2. Disconnected(asked) = [service |-> x, sockets |-> u.sockets]
      BY <2>3 DEF Disconnected
    <3> HIDE DEF x
    <3> QED BY <2>5, <2>8, <3>1, <3>2 DEF Held, Live, Quiet
  <2> QED BY <2>7, <2>8
<1> QED BY <1>1, <1>2

LEMMA PartsNext ==
  ASSUME IInv'
  PROVE  /\ service' \in ServiceRow /\ sockets' \in [Socket -> SocketRow]
         /\ service'.socket # None =>
              sockets'[service'.socket].event = service'.requested /\ ~service'.timer
         /\ service'.requested \in {None, page'.event}
         /\ State'.service = service' /\ State'.sockets = sockets'
<1>1. State' = [service |-> service', sockets |-> sockets']
  BY DEF State
<1>2. Good(State') /\ service'.requested \in {None, page'.event}
  BY DEF IInv, SocketsOK
<1>3. State'.service = service' /\ State'.sockets = sockets'
  BY <1>1
<1> QED BY <1>2, <1>3 DEF Good, WellFormed, Single

\* A socket that is not live yet will be greeted: only a live one must be asked
\* what it still has to say.
LEMMA ToldUnlessLive ==
  ASSUME IInv', Held(State', visible'), service'.requested = page'.event, page'.event \in Event,
         ~Live(State')
  PROVE  Told'
<1>1. /\ service' \in ServiceRow /\ sockets' \in [Socket -> SocketRow]
      /\ State'.service = service' /\ State'.sockets = sockets'
  BY PartsNext
<1>2. service'.requested # None
  BY RosterAssumption DEF RosterAssumption
<1>3. CASE ~visible' \/ service'.timer
  BY <1>3 DEF Told, NewsComes
<1>4. CASE visible' /\ ~service'.timer
  <2>1. service'.socket # None /\ sockets'[service'.socket].phase \notin Leaving
    BY <1>1, <1>2, <1>4 DEF Held
  <2>2. service'.socket \in Socket
    BY <1>1, <2>1 DEF ServiceRow
  <2>3. sockets'[service'.socket].phase \in {"opening", "open", "subscribed", "lost"}
    BY <1>1, <2>1, <2>2 DEF Live, Leaving, SocketRow
  <2> QED BY <2>1, <2>3 DEF Told, NewsComes
<1> QED BY <1>3, <1>4

LEMMA QuietTells ==
  ASSUME IInv, Held(State, visible), IInv', Held(State', visible'), Quiet(State, State'),
         service'.requested = page'.event, page.event \in Event, page'.event = page.event,
         page.unheard => page'.unheard,
         version'[page.event] = version[page.event], unpublished \subseteq unpublished', Told
  PROVE  Told'
<1>1. CASE ~Live(State')
  BY <1>1, ToldUnlessLive
<1>2. CASE Live(State')
  <2>1. /\ State'.service = service' /\ State'.sockets = sockets'
        /\ State.service = service /\ State.sockets = sockets
    BY PartsNext DEF State
  <2>2. /\ service'.socket = service.socket /\ service.socket # None
        /\ sockets'[service.socket] = sockets[service.socket]
        /\ sockets[service.socket].phase = "live"
    BY <1>2, <2>1 DEF Live, Quiet
  <2>3. visible /\ ~service.timer
    BY <2>1, <2>2, ServiceParts DEF Held, IInv
  <2>4. CASE page.unheard
    BY <2>4 DEF Told
  <2>5. CASE Change(page.event, version[page.event]) \in unpublished
    BY <2>5 DEF Told, NewsComes, Change
  <2>6. CASE \E i \in DOMAIN sockets[service.socket].feed :
               /\ sockets[service.socket].feed[i].event = page.event
               /\ \/ sockets[service.socket].feed[i].type = "resync_required"
                  \/ sockets[service.socket].feed[i].version = version[page.event]
    BY <2>2, <2>6 DEF Told, NewsComes
  <2> QED BY <2>2, <2>3, <2>4, <2>5, <2>6 DEF Told, NewsComes
<1> QED BY <1>1, <1>2

\* A step that leaves the page alone, but for what it has let pass, and its loads.
LEMMA PageHears ==
  ASSUME NInv, UNCHANGED loads, service'.requested = service.requested, Bounded',
         page'.event = page.event, page'.snapshot = page.snapshot, page'.panel = page.panel,
         page'.failed = page.failed, page'.loading = page.loading,
         service.requested = page.event /\ page.event \in Event =>
           Told' \/ (version'[page.event] = version[page.event] /\ (Told => Told'))
  PROVE  NewsOK'
<1>1. Loaded \/ loads # {} => page.event \in Event
  BY DEF NInv, IInv, PagePart, PageOK, Loaded
<1>2. Asked' /\ Panelled' /\ SpinnerHasOwner'
  <2>1. Asked'
    BY DEF NInv, NewsOK, Asked, Loaded
  <2>2. Panelled'
    BY DEF NInv, NewsOK, Panelled
  <2>3. SpinnerHasOwner'
    <3>1. page.loading => \E l \in loads : l.spins
      BY DEF NInv, NewsOK, SpinnerHasOwner
    <3> QED BY <3>1 DEF SpinnerHasOwner
  <2> QED BY <2>1, <2>2, <2>3
<1>3. Reading'
  <2> SUFFICES ASSUME NEW l \in loads, l.newest, l.by = "load", l.at = "read"
               PROVE  l.version = version'[page.event] \/ Told'
    BY DEF Reading
  <2>1. service.requested = page.event /\ page.event \in Event
    BY <1>1 DEF NInv, NewsOK, Asked
  <2>2. l.version = version[page.event] \/ Told
    BY DEF NInv, NewsOK, Reading
  <2> QED BY <2>1, <2>2
<1>4. Showing'
  <2> SUFFICES ASSUME Loaded, ~page.failed
               PROVE  \/ page.snapshot.version = version'[page.event] \/ Told'
                      \/ \E l \in loads : l.newest /\ l.by = "load"
    BY DEF Showing, Loaded
  <2>1. service.requested = page.event /\ page.event \in Event
    BY <1>1 DEF NInv, NewsOK, Asked
  <2>2. \/ page.snapshot.version = version[page.event] \/ Told
        \/ \E l \in loads : l.newest /\ l.by = "load"
    BY DEF NInv, NewsOK, Showing
  <2> QED BY <2>1, <2>2
<1> QED BY <1>2, <1>3, <1>4 DEF NewsOK

\* A step of the service that brings no live socket forward.
LEMMA QuietStep ==
  ASSUME NInv, IInv', Held(State', visible'), Quiet(State, State'),
         service'.requested = service.requested,
         UNCHANGED <<version, unpublished, page, loads, command>>
  PROVE  NInv'
<1>1. Bounded'
  BY DEF NInv, NewsOK, Bounded
<1>2. ASSUME service.requested = page.event, page.event \in Event, Told PROVE Told'
  BY <1>2, QuietTells DEF NInv
<1>3. NewsOK'
  BY <1>1, <1>2, PageHears
<1> QED BY <1>3 DEF NInv
LEMMA ReconnectTimerTells == ASSUME NInv, ReconnectTimer PROVE NInv'
<1> DEFINE w == [State EXCEPT !.service.timer = FALSE]
           v == [State.service EXCEPT !.timer = FALSE]
           s == NewSocket(State)
           u == OpenSocket(w, s, TRUE)
<1>1. /\ service \in ServiceRow /\ service.timer /\ Good(State) /\ s \in Socket
      /\ service.socket = None /\ IInv'
  BY ServiceParts, NewSocketIsFree, ReconnectTimerStep DEF NInv, IInv, ReconnectTimer, SocketsOK
<1>2. w = [service |-> v, sockets |-> sockets]
  <2>1. w = [service |-> v, sockets |-> State.sockets]
    BY <1>1, TimerCleared
  <2> QED BY <2>1 DEF State
<1>3. v \in ServiceRow /\ v.socket = None /\ ~v.timer /\ v.requested = service.requested
  <2>1. State.service = service
    BY DEF State
  <2> QED BY <1>1, <2>1 DEF ServiceRow
<1>4. Becomes(u) /\ UNCHANGED <<version, unpublished, page, loads, command, visible, left>>
  BY DEF ReconnectTimer
<1> HIDE DEF v, s
<1>5. Good(w) /\ w.service = v
  <2>1. State.service.socket = None /\ State.sockets = sockets
    BY <1>1 DEF State
  <2>2. Good([service |-> v, sockets |-> sockets])
    BY <1>1, <1>3, <2>1, AskedAnew
  <2> QED BY <1>2, <2>2
<1> HIDE DEF w
<1>6. Good(u) /\ u.service.requested = service.requested /\ Held(u, visible) /\ ~Live(u)
  BY <1>1, <1>3, <1>5, Opened, HeldOpened
<1> HIDE DEF u
<1>7. State' = u /\ service'.requested = service.requested
  BY <1>4, <1>6, BecomesIs DEF Becomes
<1> QED BY <1>1, <1>4, <1>6, <1>7, QuietStep DEF Quiet

LEMMA HideTells == ASSUME NInv, Hide PROVE NInv'
<1> DEFINE u == StopSocketOnly(State)
           x == Disconnected(u)
<1>1. IInv' /\ Good(State)
  BY HideStep DEF NInv, IInv, SocketsOK
<1>2. Becomes(x) /\ visible' = FALSE /\ UNCHANGED <<version, unpublished, page, loads, command>>
  BY DEF Hide
<1>3. /\ Good(u) /\ u.service.socket = None
      /\ u.service.requested = State.service.requested
  BY <1>1, StoppedSocket
<1> HIDE DEF u
<1>4. Good(x) /\ x.service.requested = State.service.requested
  BY <1>3, Disconnects
<1>5. x.service.socket = None
  <2>1. u = [service |-> u.service, sockets |-> u.sockets] /\ u.service \in ServiceRow
    BY <1>3, Parts DEF Good
  <2>2. x = [service |-> [u.service EXCEPT !.state = "disconnected"], sockets |-> u.sockets]
    BY <2>1 DEF Disconnected
  <2> QED BY <1>3, <2>1, <2>2 DEF ServiceRow
<1> HIDE DEF x
<1>6. State' = x /\ service'.requested = service.requested
  BY <1>2, <1>4, BecomesIs DEF Becomes, State
<1>7. Held(x, visible') /\ ~Live(x)
  BY <1>2, <1>5 DEF Held, Live
<1> QED BY <1>1, <1>2, <1>6, <1>7, QuietStep DEF Quiet

LEMMA ShowTells == ASSUME NInv, Show PROVE NInv'
<1>1. /\ IInv' /\ ~visible /\ visible' = TRUE
      /\ UNCHANGED <<version, unpublished, page, loads, command, left>>
  BY ShowStep DEF NInv, Show
<1>2. /\ State.service = service /\ State.sockets = sockets
      /\ State'.service = service' /\ State'.sockets = sockets'
  BY DEF State
<1>3. service.socket = None
  BY <1>1, <1>2 DEF NInv, Held
<1>4. service'.requested = service.requested /\ Held(State', visible') /\ ~Live(State')
  <2>1. CASE service.requested # None /\ service.socket = None /\ ~service.timer
    <3> DEFINE s == NewSocket(State)
               row == [Idle EXCEPT !.phase = "opening", !.event = service.requested]
    <3>1. /\ s \in Socket /\ service' = [service EXCEPT !.socket = s, !.state = "connecting"]
          /\ sockets' = [sockets EXCEPT ![s] = row]
      BY <2>1, NewSocketIsFree DEF Show
    <3> HIDE DEF s
    <3>2. service \in ServiceRow /\ sockets \in [Socket -> SocketRow]
      BY ServiceParts DEF NInv, IInv
    <3>3. service'.socket = s /\ service'.requested = service.requested
      BY <3>1, <3>2 DEF ServiceRow
    <3>4. row.phase = "opening"
      BY DEF Idle
    <3> HIDE DEF row
    <3>5. sockets'[s].phase = "opening"
      BY <3>1, <3>2, <3>4
    <3>6. s # None
      BY <3>1, RosterAssumption DEF RosterAssumption
    <3>7. State'.service.socket = s /\ State'.sockets[State'.service.socket].phase = "opening"
      BY <1>2, <3>3, <3>5
    <3>8. Held(State', visible')
      BY <1>1, <3>6, <3>7 DEF Held, Leaving
    <3>9. ~Live(State')
      BY <3>7 DEF Live
    <3> QED BY <3>3, <3>8, <3>9
  <2>2. CASE ~(service.requested # None /\ service.socket = None /\ ~service.timer)
    <3>1. UNCHANGED <<service, sockets>>
      BY <2>2 DEF Show
    <3> QED BY <1>1, <1>2, <1>3, <2>2, <3>1 DEF Held, Live
  <2> QED BY <2>1, <2>2
<1> QED BY <1>1, <1>4, QuietStep DEF Quiet

\* A step that moves one socket to another phase, neither gone nor live.
LEMMA PhaseTells ==
  ASSUME NInv, IInv', NEW s \in Socket, sockets[s].phase \notin Leaving,
         NEW row, row.phase \notin Leaving \cup {"live"},
         sockets' = [sockets EXCEPT ![s] = row],
         service'.socket = service.socket, service'.requested = service.requested,
         service'.timer = service.timer,
         UNCHANGED <<version, unpublished, page, loads, command, visible>>
  PROVE  NInv'
<1>1. /\ State.service = service /\ State.sockets = sockets
      /\ State'.service = service' /\ State'.sockets = sockets'
  BY DEF State
<1>2. sockets \in [Socket -> SocketRow] /\ service.socket \in Socket \cup {None}
  BY ServiceParts DEF NInv, IInv, ServiceRow
<1>3. sockets'[s] = row /\ \A t \in Socket : t # s => sockets'[t] = sockets[t]
  BY <1>2
<1>4. Held(State', visible')
  BY <1>1, <1>2, <1>3 DEF NInv, Held
<1>5. Quiet(State, State')
  BY <1>1, <1>2, <1>3 DEF Quiet, Live
<1> QED BY <1>4, <1>5, QuietStep

LEMMA OnOpenTells == ASSUME NInv, NEW s \in Socket, OnOpen(s) PROVE NInv'
<1> DEFINE row == [sockets[s] EXCEPT !.phase = "open"]
<1>1. /\ sockets[s].phase = "opening" /\ sockets' = [sockets EXCEPT ![s] = row] /\ IInv'
      /\ UNCHANGED <<version, unpublished, page, loads, command, visible>>
  BY OnOpenStep DEF OnOpen, NInv
<1>2. service \in ServiceRow /\ sockets[s] \in SocketRow
  BY ServiceParts DEF NInv, IInv
<1>3. /\ service'.requested = service.requested
      /\ service'.socket = service.socket /\ service'.timer = service.timer
  BY <1>2 DEF OnOpen, ServiceRow
<1>4. row.phase = "open"
  BY <1>2 DEF SocketRow
<1> HIDE DEF row
<1> QED BY <1>1, <1>3, <1>4, PhaseTells DEF Leaving

LEMMA OnErrorTells == ASSUME NInv, NEW s \in Socket, OnError(s) PROVE NInv'
<1> DEFINE row == [sockets[s] EXCEPT !.phase = "lost", !.feed = <<>>]
<1>1. /\ sockets[s].phase \in {"opening", "open", "subscribed", "live"}
      /\ sockets' = [sockets EXCEPT ![s].phase = "lost", ![s].feed = <<>>] /\ IInv'
      /\ UNCHANGED <<version, unpublished, page, loads, command, visible>>
  BY OnErrorStep DEF OnError, NInv
<1>2. service \in ServiceRow /\ sockets \in [Socket -> SocketRow] /\ sockets[s] \in SocketRow
  BY ServiceParts DEF NInv, IInv
<1>3. /\ service'.requested = service.requested
      /\ service'.socket = service.socket /\ service'.timer = service.timer
  BY <1>2 DEF OnError, ServiceRow
<1>4. row.phase = "lost"
  BY <1>2 DEF SocketRow
<1>5. sockets' = [sockets EXCEPT ![s] = row]
  BY <1>1, <1>2
<1> HIDE DEF row
<1> QED BY <1>1, <1>3, <1>4, <1>5, PhaseTells DEF Leaving

LEMMA SubscribeTells == ASSUME NInv, NEW s \in Socket, Subscribe(s) PROVE NInv'
<1> DEFINE row == [sockets[s] EXCEPT !.phase = "subscribed"]
<1>1. /\ sockets[s].phase = "open" /\ sockets' = [sockets EXCEPT ![s] = row] /\ IInv'
      /\ UNCHANGED <<version, unpublished, page, loads, command, service, visible>>
  BY SubscribeStep DEF Subscribe, NInv
<1>2. sockets[s] \in SocketRow
  BY ServiceParts DEF NInv, IInv
<1>3. row.phase = "subscribed"
  BY <1>2 DEF SocketRow
<1> HIDE DEF row
<1> QED BY <1>1, <1>3, PhaseTells DEF Leaving

\* A socket that is closed is replaced after a while, if it was the service's own
\* and the page is there to see it.
LEMMA OnCloseTells == ASSUME NInv, NEW s \in Socket, OnClose(s) PROVE NInv'
<1> DEFINE closed == [State EXCEPT !.sockets[s] = Idle]
           without == [closed EXCEPT !.service.socket = None]
           f == [sockets EXCEPT ![s] = Idle]
           v == [service EXCEPT !.socket = None]
<1>1. /\ sockets[s].phase \in {"lost", "closing"} /\ IInv'
      /\ Becomes(IF ~IsCurrentConnection(s) THEN closed
                 ELSE IF service.requested = None \/ ~visible THEN Disconnected(without)
                 ELSE ScheduleReconnect(without))
      /\ UNCHANGED <<version, unpublished, page, loads, command, visible, left>>
  BY OnCloseStep DEF OnClose, NInv
<1>2. /\ State.service = service /\ State.sockets = sockets
      /\ State'.service = service' /\ State'.sockets = sockets'
      /\ State = [service |-> service, sockets |-> sockets]
  BY DEF State
<1>3. closed = [service |-> service, sockets |-> f]
  <2>1. closed = [State EXCEPT !.sockets = f]
    BY <1>2
  <2> QED BY <1>2, <2>1
<1> HIDE DEF closed
<1>4. without = [service |-> v, sockets |-> f]
  <2>1. closed.service = service
    BY <1>3
  <2>2. without = [closed EXCEPT !.service = [closed.service EXCEPT !.socket = None]]
    OBVIOUS
  <2>3. without = [closed EXCEPT !.service = v]
    BY <2>1, <2>2
  <2> HIDE DEF f, v, without
  <2> QED BY <1>3, <2>3
<1> HIDE DEF without
<1>5. service \in ServiceRow /\ sockets \in [Socket -> SocketRow]
  BY ServiceParts DEF NInv, IInv
<1>6. v \in ServiceRow /\ v.socket = None /\ v.requested = service.requested
  BY <1>5 DEF ServiceRow
<1>7. CASE ~IsCurrentConnection(s)
  <2>1. service' = service /\ sockets' = f /\ service.socket # s
    BY <1>1, <1>3, <1>7 DEF Becomes, IsCurrentConnection
  <2>2. \A t \in Socket : t # s => f[t] = sockets[t]
    BY <1>5
  <2> HIDE DEF f
  <2>3. service.socket # None => sockets'[service.socket] = sockets[service.socket]
    BY <1>5, <2>1, <2>2 DEF ServiceRow
  <2>4. Held(State', visible') /\ Quiet(State, State')
    BY <1>1, <1>2, <2>1, <2>3 DEF NInv, Held, Quiet, Live
  <2> QED BY <1>1, <2>1, <2>4, QuietStep
<1>8. CASE IsCurrentConnection(s)
  <2> HIDE DEF v
  <2>1. CASE service.requested = None \/ ~visible
    <3> DEFINE x == [v EXCEPT !.state = "disconnected"]
    <3>1. x.socket = None /\ x.requested = service.requested
      BY <1>6 DEF ServiceRow
    <3>2. Disconnected(without) = [service |-> x, sockets |-> f]
      BY <1>4 DEF Disconnected
    <3> HIDE DEF x
    <3>3. service' = x
      BY <1>1, <1>8, <2>1, <3>2 DEF Becomes
    <3>4. Held(State', visible') /\ ~Live(State')
      BY <1>1, <1>2, <2>1, <3>1, <3>3 DEF Held, Live
    <3> QED BY <1>1, <3>1, <3>3, <3>4, QuietStep DEF Quiet
  <2>2. CASE ~(service.requested = None \/ ~visible)
    <3> DEFINE x == [v EXCEPT !.timer = TRUE, !.state = "reconnecting"]
    <3>1. x.socket = None /\ x.requested = service.requested /\ x.timer
      BY <1>6 DEF ServiceRow
    <3>2. ScheduleReconnect(without) = IF v.timer THEN without ELSE [service |-> x, sockets |-> f]
      <4>1. without.service = v /\ without.service.requested # None
        BY <1>4, <1>6, <2>2
      <4>2. CASE v.timer
        BY <4>1, <4>2 DEF ScheduleReconnect
      <4>3. CASE ~v.timer
        <5>1. ScheduleReconnect(without)
                = [without EXCEPT !.service.timer = TRUE, !.service.state = "reconnecting"]
          BY <4>1, <4>3 DEF ScheduleReconnect
        <5>2. @ = [without EXCEPT !.service = x]
          BY <1>4, <4>1
        <5>3. @ = [service |-> x, sockets |-> f]
          BY <1>4
        <5> QED BY <4>3, <5>1, <5>2, <5>3
      <4> QED BY <4>2, <4>3
    <3> HIDE DEF x
    <3>3. service' = IF v.timer THEN v ELSE x
      BY <1>1, <1>4, <1>8, <2>2, <3>2 DEF Becomes
    <3>4. service'.socket = None /\ service'.timer /\ service'.requested = service.requested
      BY <1>6, <3>1, <3>3
    <3>5. Held(State', visible') /\ ~Live(State')
      BY <1>1, <1>2, <2>2, <3>4 DEF Held, Live
    <3> QED BY <1>1, <3>4, <3>5, QuietStep DEF Quiet
  <2> QED BY <2>1, <2>2
<1> QED BY <1>7, <1>8

\* What a feed says of the version v of event e.
Tells(feed, e, v) ==
  \E i \in DOMAIN feed : feed[i].event = e /\ (feed[i].type = "resync_required" \/ feed[i].version = v)

LEMMA FeedsTell ==
  ASSUME NEW feed \in Seq(Note), NEW m \in Note, NEW e, NEW v
  PROVE  /\ Tells(feed, e, v) => Tells(Append(feed, m), e, v)
         /\ m.event = e /\ (m.type = "resync_required" \/ m.version = v) =>
              /\ Tells(Append(feed, m), e, v)
              /\ \A rest \in Seq(Note) : Tells(<<m>> \o rest, e, v)
<1>1. DOMAIN feed = 1..Len(feed) /\ Len(feed) \in Nat
  OBVIOUS
<1>2. Tells(feed, e, v) => Tells(Append(feed, m), e, v)
  <2>1. /\ DOMAIN Append(feed, m) = 1..(Len(feed) + 1)
        /\ \A i \in 1..Len(feed) : Append(feed, m)[i] = feed[i]
    OBVIOUS
  <2> QED BY <1>1, <2>1 DEF Tells
<1>3. ASSUME m.event = e, m.type = "resync_required" \/ m.version = v
      PROVE  Tells(Append(feed, m), e, v)
  <2>1. Len(feed) + 1 \in DOMAIN Append(feed, m) /\ Append(feed, m)[Len(feed) + 1] = m
    BY <1>1
  <2> QED BY <1>3, <2>1 DEF Tells
<1>4. ASSUME m.event = e, m.type = "resync_required" \/ m.version = v, NEW rest \in Seq(Note)
      PROVE  Tells(<<m>> \o rest, e, v)
  <2>1. 1 \in DOMAIN (<<m>> \o rest) /\ (<<m>> \o rest)[1] = m
    OBVIOUS
  <2> QED BY <1>4, <2>1 DEF Tells
<1> QED BY <1>2, <1>3, <1>4

LEMMA HeadTells ==
  ASSUME NEW feed \in Seq(Note), feed # <<>>, NEW e, NEW v, Tells(feed, e, v)
  PROVE  \/ Tells(Tail(feed), e, v)
         \/ /\ Head(feed).event = e
            /\ Head(feed).type = "resync_required" \/ Head(feed).version = v
<1>1. PICK i \in 1..Len(feed) : /\ feed[i].event = e
                                /\ feed[i].type = "resync_required" \/ feed[i].version = v
  BY DEF Tells
<1>2. CASE i = 1
  BY <1>1, <1>2
<1>3. CASE i # 1
  <2>1. i - 1 \in DOMAIN Tail(feed) /\ Tail(feed)[i - 1] = feed[i]
    BY <1>3
  <2> QED BY <1>1, <2>1 DEF Tells
<1> QED BY <1>2, <1>3

LEMMA LiveTold ==
  ASSUME IInv, Held(State, visible), Live(State), Told
  PROVE  \/ page.unheard
         \/ Change(page.event, version[page.event]) \in unpublished
         \/ Tells(sockets[service.socket].feed, page.event, version[page.event])
<1>1. State.service = service /\ State.sockets = sockets
  BY DEF State
<1>2. service.socket # None /\ sockets[service.socket].phase = "live" /\ visible /\ ~service.timer
  BY <1>1, ServiceParts DEF Live, Held, IInv
<1> QED BY <1>2 DEF Told, NewsComes, Tells

LEMMA FeedTold ==
  ASSUME service'.socket # None,
         Tells(sockets'[service'.socket].feed, page'.event, version'[page'.event])
  PROVE  Told'
BY DEF Told, NewsComes, Tells

\* No socket leaves or comes back.
LEMMA HeldStill ==
  ASSUME IInv, Held(State, visible), UNCHANGED <<service, visible>>,
         \A s \in Socket : sockets[s].phase \notin Leaving => sockets'[s].phase \notin Leaving
  PROVE  Held(State', visible')
<1>1. /\ State.service = service /\ State.sockets = sockets
      /\ State'.service = service' /\ State'.sockets = sockets'
  BY DEF State
<1>2. service.socket \in Socket \cup {None}
  BY ServiceParts DEF IInv, ServiceRow
<1> QED BY <1>1, <1>2 DEF Held

\* The own socket is for the page's event.
LEMMA OwnFeed ==
  ASSUME IInv, Live(State), service.requested = page.event
  PROVE  /\ service.socket \in Socket /\ service.socket # None
         /\ sockets[service.socket].event = page.event
         /\ sockets[service.socket].phase = "live"
         /\ sockets[service.socket].feed \in Seq(Note)
<1>1. State.service = service /\ State.sockets = sockets
  BY DEF State
<1>2. service \in ServiceRow /\ sockets \in [Socket -> SocketRow]
  BY ServiceParts DEF IInv
<1>3. service.socket \in Socket
  BY <1>1, <1>2 DEF Live, ServiceRow
<1> QED BY <1>1, <1>2, <1>3, ServiceParts DEF Live, IInv, SocketRow

LEMMA PublishTells == ASSUME NInv, NEW c \in unpublished, Publish(c) PROVE NInv'
<1> DEFINE m == Message("roster_changed", c.event, c.version)
<1>1. /\ unpublished' = unpublished \ {c} /\ sockets' = Notified(m) /\ IInv'
      /\ UNCHANGED <<version, page, loads, command, service, visible, left>>
  BY PublishStep DEF Publish, NInv
<1>2. sockets \in [Socket -> SocketRow] /\ c \in [event : Event, version : Nat]
  BY ServiceParts DEF NInv, IInv, BackendOK
<1>3. /\ m \in Note /\ m.event = c.event /\ m.version = c.version
  BY <1>2 DEF Message, Note
<1> HIDE DEF m
<1>4. \A s \in Socket :
        /\ sockets'[s].phase = sockets[s].phase
        /\ sockets[s].phase \in {"subscribed", "live"} /\ sockets[s].event = m.event =>
             sockets'[s].feed = Append(sockets[s].feed, m)
        /\ sockets[s].event # m.event => sockets'[s].feed = sockets[s].feed
  BY <1>1, <1>2 DEF Notified, SocketRow
<1>5. Held(State', visible')
  BY <1>1, <1>4, HeldStill DEF NInv
<1>6. ASSUME service.requested = page.event, page.event \in Event, Told PROVE Told'
  <2>1. CASE ~Live(State')
    BY <1>1, <1>5, <1>6, <2>1, ToldUnlessLive
  <2>2. CASE Live(State')
    <3> DEFINE own == service.socket
    <3>1. State'.service = service /\ State'.sockets = sockets' /\ State.service = service
          /\ State.sockets = sockets
      BY <1>1 DEF State
    <3>2. own \in Socket
      <4>1. service \in ServiceRow
        BY ServiceParts DEF NInv, IInv
      <4> QED BY <2>2, <3>1, <4>1 DEF Live, ServiceRow
    <3>3. Live(State)
      BY <1>4, <2>2, <3>1, <3>2 DEF Live
    <3>4. /\ sockets[own].event = page.event /\ sockets[own].phase = "live" /\ own # None
          /\ sockets[own].feed \in Seq(Note)
      BY <1>6, <3>3, OwnFeed DEF NInv
    <3>5. \/ page.unheard
          \/ Change(page.event, version[page.event]) \in unpublished
          \/ Tells(sockets[own].feed, page.event, version[page.event])
      BY <1>6, <3>3, LiveTold DEF NInv
    <3>6. CASE page.unheard
      BY <1>1, <3>6 DEF Told
    <3>7. CASE Tells(sockets[own].feed, page.event, version[page.event])
      <4>1. Tells(sockets'[own].feed, page.event, version[page.event])
        <5>1. Tells(Append(sockets[own].feed, m), page.event, version[page.event])
          BY <1>3, <3>4, <3>7, FeedsTell
        <5>2. sockets'[own].feed \in {sockets[own].feed, Append(sockets[own].feed, m)}
          BY <1>4, <3>2, <3>4
        <5> QED BY <3>7, <5>1, <5>2
      <4> QED BY <1>1, <3>4, <4>1, FeedTold
    <3>8. CASE Change(page.event, version[page.event]) \in unpublished
      <4>1. CASE Change(page.event, version[page.event]) # c
        BY <1>1, <3>8, <4>1 DEF Told, NewsComes
      <4>2. CASE Change(page.event, version[page.event]) = c
        <5>1. m.event = page.event /\ m.version = version[page.event]
          BY <1>3, <4>2 DEF Change
        <5>2. Tells(Append(sockets[own].feed, m), page.event, version[page.event])
          BY <1>3, <3>4, <5>1, FeedsTell
        <5>3. Tells(sockets'[own].feed, page.event, version[page.event])
          BY <1>4, <3>2, <3>4, <5>1, <5>2
        <5> QED BY <1>1, <3>4, <5>3, FeedTold
      <4> QED BY <4>1, <4>2
    <3> QED BY <3>5, <3>6, <3>7, <3>8
  <2> QED BY <2>1, <2>2
<1>7. Bounded'
  BY <1>1 DEF NInv, NewsOK, Bounded
<1>8. NewsOK'
  BY <1>1, <1>6, <1>7, PageHears
<1> QED BY <1>1, <1>5, <1>8 DEF NInv

\* Only the feed and the phase of one socket, subscribed or live, change.
LEMMA OneFeedTells ==
  ASSUME NInv, IInv', NEW s \in Socket, sockets[s].phase \in {"subscribed", "live"},
         sockets'[s].phase = "live", \A t \in Socket : t # s => sockets'[t] = sockets[t],
         Tells(sockets'[s].feed, sockets[s].event, version[sockets[s].event]),
         UNCHANGED <<version, unpublished, page, loads, command, service, visible>>
  PROVE  NInv'
<1>1. Held(State', visible')
  <2>1. \A t \in Socket : sockets[t].phase \notin Leaving => sockets'[t].phase \notin Leaving
    BY DEF Leaving
  <2> QED BY <2>1, HeldStill DEF NInv
<1>2. /\ State.service = service /\ State.sockets = sockets
      /\ State'.service = service /\ State'.sockets = sockets'
  BY DEF State
<1>3. ASSUME service.requested = page.event, page.event \in Event, Told PROVE Told'
  <2>1. CASE service.socket = s
    <3>1. sockets[s].event = page.event /\ s # None
      BY <1>3, <2>1, ServiceParts, RosterAssumption DEF NInv, IInv, RosterAssumption
    <3> QED BY <2>1, <3>1, FeedTold
  <2>2. CASE service.socket # s
    <3>1. service.socket \in Socket \cup {None}
      BY ServiceParts DEF NInv, IInv, ServiceRow
    <3>2. Quiet(State, State')
      BY <1>2, <2>2, <3>1 DEF Quiet, Live
    <3> QED BY <1>1, <1>3, <3>2, QuietTells DEF NInv
  <2> QED BY <2>1, <2>2
<1>4. Bounded'
  BY DEF NInv, NewsOK, Bounded
<1>5. NewsOK'
  BY <1>3, <1>4, PageHears
<1> QED BY <1>1, <1>5 DEF NInv

LEMMA GreetTells == ASSUME NInv, NEW s \in Socket, Greet(s) PROVE NInv'
<1> DEFINE e == sockets[s].event
           m == Message("ready", e, version[e])
           more == <<m>> \o sockets[s].feed
<1>1. /\ sockets[s].phase = "subscribed" /\ IInv'
      /\ sockets' = [sockets EXCEPT ![s].phase = "live", ![s].latest = version[e],
                                    ![s].feed = more]
      /\ UNCHANGED <<version, unpublished, page, loads, command, service, visible, left>>
  BY GreetStep DEF Greet, NInv
<1>2. sockets \in [Socket -> SocketRow] /\ e \in Event /\ version[e] \in Nat
  BY <1>1, ServiceParts DEF NInv, IInv, BackendOK
<1>3. m \in Note /\ m.event = e /\ m.version = version[e]
  BY <1>2 DEF Message, Note
<1>4. sockets[s].feed \in Seq(Note)
  BY <1>2 DEF SocketRow
<1> HIDE DEF m
<1>5. Tells(more, e, version[e])
  BY <1>3, <1>4, FeedsTell
<1> HIDE DEF more
<1>6. /\ sockets'[s].phase = "live" /\ sockets'[s].feed = more
      /\ \A t \in Socket : t # s => sockets'[t] = sockets[t]
  BY <1>1, <1>2 DEF SocketRow
<1> QED BY <1>1, <1>5, <1>6, OneFeedTells

LEMMA LagTells == ASSUME NInv, NEW s \in Socket, Lag(s) PROVE NInv'
<1> DEFINE m == Message("resync_required", sockets[s].event, sockets[s].latest)
           cut(n) == <<m>> \o SubSeq(sockets[s].feed, n + 1, Len(sockets[s].feed))
<1>1. /\ sockets[s].phase = "live" /\ IInv'
      /\ UNCHANGED <<version, unpublished, page, loads, command, service, visible>>
  BY LagStep DEF Lag, NInv
<1>2. PICK n \in 1..Len(sockets[s].feed) : sockets' = [sockets EXCEPT ![s].feed = cut(n)]
  BY DEF Lag
<1>3. sockets \in [Socket -> SocketRow] /\ sockets[s].event \in Event
  BY <1>1, ServiceParts DEF NInv, IInv
<1>4. m \in Note /\ m.event = sockets[s].event /\ m.type = "resync_required"
  BY <1>3 DEF Message, Note, SocketRow
<1>5. sockets[s].feed \in Seq(Note) /\ n \in Nat /\ Len(sockets[s].feed) \in Nat
  BY <1>3 DEF SocketRow
<1> HIDE DEF m
<1>6. SubSeq(sockets[s].feed, n + 1, Len(sockets[s].feed)) \in Seq(Note)
  <2>1. n + 1 \in Int /\ Len(sockets[s].feed) \in Int
        /\ (n + 1)..Len(sockets[s].feed) \subseteq 1..Len(sockets[s].feed)
    BY <1>5
  <2>2. \A i \in (n + 1)..Len(sockets[s].feed) : sockets[s].feed[i] \in Note
    BY <1>5, <2>1, ElementOfSeq
  <2> QED BY <2>1, <2>2, SubSeqProperties
<1>7. Tells(cut(n), sockets[s].event, version[sockets[s].event])
  BY <1>4, <1>5, <1>6, FeedsTell
<1> HIDE DEF cut
<1>8. /\ sockets'[s].phase = "live" /\ sockets'[s].feed = cut(n)
      /\ \A t \in Socket : t # s => sockets'[t] = sockets[t]
  BY <1>1, <1>2, <1>3 DEF SocketRow
<1> QED BY <1>1, <1>7, <1>8, OneFeedTells

LEMMA BackendRestartTells == ASSUME NInv, BackendRestart PROVE NInv'
<1> DEFINE f == [s \in Socket |->
                   IF sockets[s].phase \in {"closed", "closing"} THEN sockets[s]
                   ELSE [sockets[s] EXCEPT !.phase = "lost", !.feed = <<>>]]
<1>1. /\ sockets' = f /\ command' \in {command, None} /\ IInv'
      /\ UNCHANGED <<version, page, loads, service, visible>>
  BY BackendRestartStep DEF BackendRestart, NInv
<1>2. sockets \in [Socket -> SocketRow] /\ service \in ServiceRow
  BY ServiceParts DEF NInv, IInv
<1>3. \A s \in Socket : /\ sockets[s].phase \notin Leaving => f[s].phase \notin Leaving
                        /\ f[s].phase # "live"
  BY <1>2 DEF SocketRow, Leaving
<1> HIDE DEF f
<1>4. Held(State', visible')
  BY <1>1, <1>3, HeldStill DEF NInv
<1>5. ~Live(State')
  BY <1>1, <1>2, <1>3 DEF Live, State, ServiceRow
<1>6. Bounded'
  BY <1>1 DEF NInv, NewsOK, Bounded
<1>7. NewsOK'
  BY <1>1, <1>4, <1>5, <1>6, ToldUnlessLive, PageHears
<1> QED BY <1>1, <1>4, <1>7 DEF NInv

\* A step of the backend or of a command: the service and the page rest.
LEMMA HeldElsewhere ==
  ASSUME Held(State, visible), UNCHANGED <<service, sockets, visible>>
  PROVE  Held(State', visible')
<1>1. State' = State
  BY DEF State
<1> QED BY <1>1

LEMMA ToldElsewhere ==
  ASSUME UNCHANGED <<version, unpublished, service, sockets, visible>>,
         page'.event = page.event, page.unheard => page'.unheard, Told
  PROVE  Told'
BY DEF Told, NewsComes

LEMMA AdvanceTells ==
  ASSUME NInv, IInv', NEW e \in Event, Advance(e), command' = None \/ command'.at # "answered"
           \/ command' = command,
         UNCHANGED <<page, loads, service, sockets, visible>>
  PROVE  NInv'
<1>1. /\ version \in [Event -> Nat] /\ version[e] \in Nat
      /\ version' = [version EXCEPT ![e] = version[e] + 1]
      /\ unpublished' = unpublished \cup {Change(e, version[e] + 1)}
  BY DEF NInv, IInv, BackendOK, Advance
<1>2. version' \in [Event -> Nat] /\ \A d \in Event : version[d] <= version'[d]
  BY <1>1
<1>3. Bounded'
  <2>1. page.snapshot # None => page.snapshot.version \in Nat /\ page.snapshot.event \in Event
    BY DEF NInv, IInv, PagePart, PageOK, PageRow, SnapshotRow
  <2>2. page.snapshot # None => page.snapshot.version <= version'[page.snapshot.event]
    <3> SUFFICES ASSUME page.snapshot # None
                 PROVE  page.snapshot.version <= version'[page.snapshot.event]
      OBVIOUS
    <3>1. page.snapshot.version <= version[page.snapshot.event]
      BY DEF NInv, NewsOK, Bounded
    <3>2. /\ version[page.snapshot.event] \in Nat /\ version'[page.snapshot.event] \in Nat
          /\ version[page.snapshot.event] <= version'[page.snapshot.event]
      BY <1>1, <1>2, <2>1
    <3> QED BY <2>1, <3>1, <3>2
  <2>3. command' # None /\ command'.at = "answered" =>
          command'.version <= version'[command'.event]
    <3> SUFFICES ASSUME command # None, command.at = "answered", command' = command
                 PROVE  command.version <= version'[command.event]
      OBVIOUS
    <3>1. command.version <= version[command.event]
      BY DEF NInv, NewsOK, Bounded
    <3>2. command.version \in Nat /\ command.event \in Event
      BY DEF NInv, IInv, PagePart, PageOK, CommandRow
    <3>3. /\ version[command.event] \in Nat /\ version'[command.event] \in Nat
          /\ version[command.event] <= version'[command.event]
      BY <1>1, <1>2, <3>2
    <3> QED BY <3>1, <3>2, <3>3
  <2> QED BY <2>2, <2>3 DEF Bounded
<1>4. ASSUME service.requested = page.event, page.event \in Event
      PROVE  Told' \/ (version'[page.event] = version[page.event] /\ (Told => Told'))
  <2>1. CASE e = page.event
    <3>1. Change(page.event, version'[page.event]) \in unpublished'
      BY <1>1, <2>1 DEF Change
    <3> QED BY <3>1 DEF Told, NewsComes
  <2>2. CASE e # page.event
    <3>1. version'[page.event] = version[page.event]
      BY <1>1, <1>4, <2>2
    <3> QED BY <1>1, <3>1 DEF Told, NewsComes
  <2> QED BY <2>1, <2>2
<1>5. NewsOK'
  BY <1>3, <1>4, PageHears
<1> QED BY <1>5, HeldElsewhere DEF NInv

LEMMA SomeoneChangesTells == ASSUME NInv, NEW e \in Event, SomeoneChanges(e) PROVE NInv'
<1>1. Advance(e) /\ UNCHANGED <<page, loads, command, service, sockets, visible>> /\ IInv'
  BY SomeoneChangesStep DEF SomeoneChanges, NInv
<1> QED BY <1>1, AdvanceTells

\* Only the command moves.
LEMMA CommandTells ==
  ASSUME NInv, IInv', UNCHANGED <<version, unpublished, page, loads, service, sockets, visible>>,
         \/ command' = None \/ command'.at # "answered"
         \/ command'.version <= version[command'.event]
  PROVE  NInv'
<1>1. Bounded'
  BY DEF NInv, NewsOK, Bounded
<1>2. NewsOK'
  BY <1>1, ToldElsewhere, PageHears
<1> QED BY <1>2, HeldElsewhere DEF NInv

LEMMA SendCommandTells == ASSUME NInv, SendCommand PROVE NInv'
<1>1. /\ command'.at = "sent" /\ IInv'
      /\ UNCHANGED <<version, unpublished, page, loads, service, sockets, visible>>
  BY SendCommandStep DEF SendCommand, NInv
<1> QED BY <1>1, CommandTells

LEMMA CommandRunsTells == ASSUME NInv, CommandRuns PROVE NInv'
<1>1. /\ command # None /\ UNCHANGED <<page, loads, service, sockets, visible>> /\ IInv'
      /\ \/ Advance(command.event) /\ command' = [command EXCEPT !.at = "committed"]
         \/ command' = [command EXCEPT !.at = "conflict"] /\ UNCHANGED <<version, unpublished>>
  BY CommandRunsStep DEF CommandRuns, backend, NInv
<1>2. command \in CommandRow
  BY <1>1, CommandIsRouted DEF NInv
<1>3. command.event \in Event /\ command'.at # "answered"
  BY <1>1, <1>2 DEF CommandRow
<1> QED BY <1>1, <1>3, AdvanceTells, CommandTells

LEMMA CommandAnswersTells == ASSUME NInv, CommandAnswers PROVE NInv'
<1>1. /\ command # None /\ IInv'
      /\ command' = [command EXCEPT !.at = "answered", !.version = version[command.event]]
      /\ UNCHANGED <<version, unpublished, page, loads, service, sockets, visible>>
  BY CommandAnswersStep DEF CommandAnswers, NInv
<1>2. command \in CommandRow
  BY <1>1, CommandIsRouted DEF NInv
<1>3. version[command.event] \in Nat
  BY <1>2 DEF NInv, IInv, BackendOK, CommandRow
<1>4. command'.version = version[command.event] /\ command'.event = command.event
  BY <1>1, <1>2 DEF CommandRow
<1>5. command'.version <= version[command'.event]
  BY <1>3, <1>4
<1> QED BY <1>1, <1>5, CommandTells

LEMMA CommandFailsTells == ASSUME NInv, CommandFails PROVE NInv'
<1>1. /\ command' = None /\ IInv'
      /\ UNCHANGED <<version, unpublished, page, loads, service, sockets, visible>>
  BY CommandFailsStep DEF CommandFails, NInv
<1> QED BY <1>1, CommandTells

LEMMA StartedNewest ==
  ASSUME loads \subseteq LoadRow, NEW e \in Event, NEW silent \in BOOLEAN
  PROVE  /\ \A l \in Started(e, silent) : l.newest => l.by = "load" /\ l.at = "event"
         /\ \E l \in Started(e, silent) : l.newest /\ l.by = "load" /\ (~silent => l.spins)
         /\ silent /\ (\E l \in loads : l.spins) => \E l \in Started(e, silent) : l.spins
<1> DEFINE older(l) == [l EXCEPT !.newest = FALSE, !.spins = l.spins /\ silent]
           fresh == [event |-> e, by |-> "load", at |-> "event", silent |-> silent,
                     newest |-> TRUE, spins |-> ~silent, version |-> 0]
<1>1. Started(e, silent) = {older(l) : l \in loads} \cup {fresh}
  BY DEF Started
<1>2. fresh.by = "load" /\ fresh.at = "event" /\ fresh.newest /\ (~silent => fresh.spins)
  OBVIOUS
<1>3. \A l \in loads : ~older(l).newest /\ (silent /\ l.spins => older(l).spins)
  <2> TAKE l \in loads
  <2> DEFINE kept == l.spins /\ silent
  <2>1. l \in LoadRow /\ older(l) = [l EXCEPT !.newest = FALSE, !.spins = kept]
    OBVIOUS
  <2>2. silent /\ l.spins => kept
    OBVIOUS
  <2> HIDE DEF kept, older
  <2>3. older(l).spins = kept /\ older(l).newest = FALSE
    BY <2>1 DEF LoadRow
  <2> QED BY <2>2, <2>3
<1> HIDE DEF older, fresh
<1> QED BY <1>1, <1>2, <1>3

\* load() begins: whatever was to be told, the new load will read.
LEMMA StartTells ==
  ASSUME NInv, IInv', Held(State', visible'), UNCHANGED <<version, command>>,
         NEW silent \in BOOLEAN, page'.event \in Event, loads' = Started(page'.event, silent),
         page'.loading => ~silent \/ page.loading,
         \/ page'.snapshot = None /\ page'.panel # "ready"
         \/ /\ page'.snapshot = page.snapshot /\ page'.event = page.event
            /\ page'.panel = page.panel /\ service'.requested = service.requested
  PROVE  NInv'
<1>1. /\ \A l \in loads' : l.newest => l.by = "load" /\ l.at = "event"
      /\ \E l \in loads' : l.newest /\ l.by = "load" /\ (~silent => l.spins)
      /\ silent /\ (\E l \in loads : l.spins) => \E l \in loads' : l.spins
  BY StartedNewest DEF NInv, IInv, PagePart, PageOK
<1>2. Reading' /\ Showing'
  BY <1>1 DEF Reading, Showing
<1>3. Asked' /\ Panelled' /\ Bounded'
  BY <1>1 DEF NInv, NewsOK, Asked, Panelled, Bounded, Loaded
<1>4. SpinnerHasOwner'
  BY <1>1 DEF NInv, NewsOK, SpinnerHasOwner
<1> QED BY <1>2, <1>3, <1>4 DEF NInv, NewsOK

LEMMA NavigateTells == ASSUME NInv, NEW e \in Event, Navigate(e) PROVE NInv'
<1> DEFINE w == StopConnection(State)
<1>1. /\ Becomes(w) /\ loads' = Started(e, FALSE) /\ IInv'
      /\ page' = [event |-> e, snapshot |-> None, panel |-> "loading",
                  loading |-> TRUE, failed |-> FALSE, unheard |-> FALSE]
      /\ UNCHANGED <<version, unpublished, command, visible>>
  BY NavigateStep DEF Navigate, NInv
<1>2. Good(w) /\ w.service.requested = None /\ w.service.socket = None
  BY StoppedConnection DEF NInv, IInv, SocketsOK
<1> HIDE DEF w
<1>3. State' = w
  BY <1>1, <1>2, BecomesIs
<1>4. Held(State', visible')
  BY <1>2, <1>3 DEF Held
<1> QED BY <1>1, <1>4, StartTells

LEMMA ReloadTells == ASSUME NInv, NEW silent \in BOOLEAN, Reload(silent) PROVE NInv'
<1> DEFINE up == page.loading \/ ~silent
<1>1. /\ page.event # None /\ loads' = Started(page.event, silent) /\ IInv'
      /\ page' = [page EXCEPT !.loading = up, !.failed = FALSE, !.unheard = FALSE]
      /\ UNCHANGED <<version, unpublished, command, service, sockets, visible>>
  BY ReloadStep DEF Reload, NInv
<1>2. page \in PageRow /\ (up => ~silent \/ page.loading)
  BY DEF NInv, IInv, PagePart, PageOK
<1> HIDE DEF up
<1>3. /\ page'.event = page.event /\ page'.snapshot = page.snapshot /\ page.event \in Event
      /\ page'.panel = page.panel /\ page'.loading = up
  BY <1>1, <1>2 DEF PageRow, EventOrNone
<1>4. Held(State', visible')
  BY <1>1, HeldElsewhere DEF NInv
<1> QED BY <1>1, <1>2, <1>3, <1>4, StartTells

\* A message that the page lets pass says nothing it does not show, or the page is
\* marked for it.
LEMMA OnMessageTells == ASSUME NInv, NEW s \in Socket, OnMessage(s) PROVE NInv'
<1> DEFINE m == Head(sockets[s].feed)
           rest == Tail(sockets[s].feed)
           f == [sockets EXCEPT ![s].feed = rest, ![s].latest = m.version]
           mine == IsCurrentConnection(s) /\ m.event = service.requested /\ m.event = page.event
           older == page.snapshot # None /\ m.version < page.snapshot.version
           news == m.type = "resync_required" \/ page.snapshot.event # m.event
           missed == page.unheard \/ (mine /\ older /\ news)
<1>1. /\ sockets[s].phase = "live" /\ sockets[s].feed # <<>> /\ sockets' = f /\ IInv'
      /\ IF mine /\ ~older
         THEN /\ loads' = Started(page.event, TRUE)
              /\ page' = [page EXCEPT !.failed = FALSE, !.unheard = FALSE]
         ELSE UNCHANGED loads /\ page' = [page EXCEPT !.unheard = missed]
      /\ UNCHANGED <<version, unpublished, command, service, visible, left>>
  BY OnMessageStep DEF OnMessage, NInv
<1>2. /\ sockets \in [Socket -> SocketRow] /\ page \in PageRow /\ missed \in BOOLEAN
      /\ version \in [Event -> Nat]
  BY ServiceParts DEF NInv, IInv, PagePart, PageOK, PageRow, BackendOK
<1>3. /\ rest \in Seq(Note) /\ m \in Note /\ sockets[s].feed \in Seq(Note)
  <2>1. sockets[s].feed \in Seq(Note)
    BY <1>2 DEF SocketRow
  <2> QED BY <1>1, <2>1, HeadTailProperties
<1> HIDE DEF m, rest, missed
<1>4. /\ \A t \in Socket : t # s => f[t] = sockets[t]
      /\ f[s].phase = "live" /\ f[s].feed = rest
  BY <1>1, <1>2 DEF SocketRow
<1> HIDE DEF f
<1>5. Held(State', visible')
  <2>1. \A t \in Socket : sockets[t].phase \notin Leaving => sockets'[t].phase \notin Leaving
    BY <1>1, <1>4 DEF Leaving
  <2> QED BY <1>1, <2>1, HeldStill DEF NInv
<1>6. CASE mine /\ ~older
  <2>1. page' = [page EXCEPT !.failed = FALSE, !.unheard = FALSE] /\ loads' = Started(page.event, TRUE)
    BY <1>1, <1>6
  <2>2. /\ page'.event = page.event /\ page'.snapshot = page.snapshot
        /\ page'.panel = page.panel /\ page'.loading = page.loading
    BY <1>2, <2>1 DEF PageRow
  <2>3. page.event \in Event
    BY <1>3, <1>6 DEF Note
  <2> QED BY <1>1, <1>5, <2>1, <2>2, <2>3, StartTells
<1>7. CASE ~(mine /\ ~older)
  <2>1. page' = [page EXCEPT !.unheard = missed] /\ UNCHANGED loads
    BY <1>1, <1>7
  <2>2. /\ page'.event = page.event /\ page'.snapshot = page.snapshot /\ page'.panel = page.panel
        /\ page'.failed = page.failed /\ page'.loading = page.loading /\ page'.unheard = missed
    BY <1>2, <2>1 DEF PageRow
  <2>3. page.unheard => missed
    BY DEF missed
  <2>4. ASSUME service.requested = page.event, page.event \in Event, Told PROVE Told'
    <3>1. CASE service.socket # s
      <4>1. /\ State.service = service /\ State.sockets = sockets
            /\ State'.service = service /\ State'.sockets = sockets'
        BY <1>1 DEF State
      <4>2. service.socket \in Socket \cup {None}
        BY ServiceParts DEF NInv, IInv, ServiceRow
      <4>3. Quiet(State, State')
        BY <1>1, <1>4, <3>1, <4>1, <4>2 DEF Quiet, Live
      <4> QED BY <1>1, <1>5, <2>2, <2>3, <2>4, <4>3, QuietTells DEF NInv
    <3>2. CASE service.socket = s
      <4>1. Live(State) /\ s # None
        BY <1>1, <3>2, RosterAssumption DEF Live, State, RosterAssumption
      <4>2. \/ page.unheard
            \/ Change(page.event, version[page.event]) \in unpublished
            \/ Tells(sockets[s].feed, page.event, version[page.event])
        BY <2>4, <3>2, <4>1, LiveTold DEF NInv
      <4>3. CASE page.unheard
        BY <2>2, <2>3, <4>3 DEF Told
      <4>4. CASE Change(page.event, version[page.event]) \in unpublished
        BY <1>1, <2>2, <4>4 DEF Told, NewsComes
      <4>5. CASE Tells(rest, page.event, version[page.event])
        BY <1>1, <1>4, <2>2, <3>2, <4>1, <4>5, FeedTold
      <4>6. CASE m.event = page.event /\ (m.type = "resync_required" \/ m.version = version[page.event])
        <5>1. mine /\ older
          BY <1>7, <2>4, <3>2, <4>6 DEF IsCurrentConnection
        <5>2. news
          <6>1. /\ page.snapshot.version <= version[page.snapshot.event]
                /\ page.snapshot.version \in Nat /\ m.version \in Nat
                /\ version[page.event] \in Nat
            BY <1>2, <1>3, <2>4, <5>1 DEF NInv, NewsOK, Bounded, PageRow, SnapshotRow, Note
          <6> QED BY <4>6, <5>1, <6>1
        <5> QED BY <2>2, <5>1, <5>2 DEF Told, missed
      <4>7. \/ Tells(rest, page.event, version[page.event])
            \/ m.event = page.event /\ (m.type = "resync_required" \/ m.version = version[page.event])
            \/ ~Tells(sockets[s].feed, page.event, version[page.event])
        <5>1. m = Head(sockets[s].feed) /\ rest = Tail(sockets[s].feed)
          BY DEF m, rest
        <5>2. Tells(sockets[s].feed, page.event, version[page.event]) =>
                \/ Tells(Tail(sockets[s].feed), page.event, version[page.event])
                \/ /\ Head(sockets[s].feed).event = page.event
                   /\ \/ Head(sockets[s].feed).type = "resync_required"
                      \/ Head(sockets[s].feed).version = version[page.event]
          BY <1>1, <1>3, HeadTells
        <5> QED BY <5>1, <5>2
      <4> QED BY <4>2, <4>3, <4>4, <4>5, <4>6, <4>7
    <3> QED BY <3>1, <3>2
  <2>5. Bounded'
    BY <1>1, <2>2 DEF NInv, NewsOK, Bounded
  <2>6. NewsOK'
    BY <1>1, <2>1, <2>2, <2>4, <2>5, PageHears
  <2> QED BY <1>1, <1>5, <2>6 DEF NInv
<1> QED BY <1>6, <1>7

\* A load ends without showing anything: its page has failed, shows no roster or
\* has a newer load.
LEMMA EndTells ==
  ASSUME NInv, IInv', NEW l \in loads, loads' = loads \ {l},
         UNCHANGED <<version, unpublished, command, service, sockets, visible>>,
         page'.event = page.event, page'.unheard = page.unheard, page'.loading = Lowered(l),
         page.failed => page'.failed, page'.snapshot \in {None, page.snapshot},
         page'.panel = "ready" => page.event \in Flash \/ (page.panel = "ready" /\ page'.snapshot = page.snapshot),
         l.newest /\ l.by = "load" => page'.failed \/ ~Loaded'
  PROVE  NInv'
<1>1. Told => Told'
  BY ToldElsewhere
<1>2. Reading'
  BY <1>1 DEF NInv, NewsOK, Reading
<1>3. Showing'
  <2> SUFFICES ASSUME Loaded', ~page'.failed
               PROVE  \/ page'.snapshot.version = version'[page'.event] \/ Told'
                      \/ \E k \in loads' : k.newest /\ k.by = "load"
    BY DEF Showing
  <2>1. Loaded /\ ~page.failed /\ page'.snapshot = page.snapshot
    BY DEF Loaded
  <2>2. \/ page.snapshot.version = version[page.event] \/ Told
        \/ \E k \in loads : k.newest /\ k.by = "load"
    BY <2>1 DEF NInv, NewsOK, Showing
  <2> QED BY <1>1, <2>1, <2>2
<1>4. Asked' /\ Panelled' /\ Bounded'
  BY DEF NInv, NewsOK, Asked, Panelled, Bounded, Loaded
<1>5. SpinnerHasOwner'
  <2>1. page'.loading => page.loading /\ ~l.spins
    BY DEF Lowered
  <2> QED BY <2>1 DEF NInv, NewsOK, SpinnerHasOwner
<1> QED BY <1>2, <1>3, <1>4, <1>5, HeldElsewhere DEF NInv, NewsOK

\* A load that is stale is not the newest one.
LEMMA StaleIsOld ==
  ASSUME NInv, NEW l \in loads
  PROVE  IsStaleLoad(l) <=> ~l.newest
BY DEF NInv, IInv, PagePart, OrderOK, IsStaleLoad

LEMMA EventArrivesTells == ASSUME NInv, NEW l \in loads, EventArrives(l) PROVE NInv'
<1> DEFINE down == Lowered(l)
           first == FirstPanel(l, page.panel)
           s == NewSocket(State)
           w == Connect(State, l.event, s)
           next == [l EXCEPT !.at = "roster"]
<1>1. /\ l.at = "event" /\ IInv' /\ UNCHANGED <<version, unpublished, command, visible, left>>
  BY EventArrivesStep DEF EventArrives, NInv
<1>2. page \in PageRow /\ l \in LoadRow
  BY DEF NInv, IInv, PagePart, PageOK
<1>3. CASE /\ loads' = loads \ {l} /\ UNCHANGED <<service, sockets>>
           /\ \/ IsStaleLoad(l) /\ page' = [page EXCEPT !.loading = down]
              \/ /\ ~IsStaleLoad(l) /\ l.event \in Flash
                 /\ page' = [page EXCEPT !.loading = down, !.panel = "ready"]
  <2> HIDE DEF down
  <2>1. /\ page'.event = page.event /\ page'.snapshot = page.snapshot
        /\ page'.failed = page.failed /\ page'.unheard = page.unheard /\ page'.loading = down
    BY <1>2, <1>3 DEF PageRow
  <2>2. page'.panel = page.panel \/ page.event \in Flash
    BY <1>2, <1>3 DEF PageRow, IsStaleLoad
  <2>3. l.newest => ~Loaded
    <3>1. l.newest => page.event \in Flash
      BY <1>3, StaleIsOld DEF IsStaleLoad
    <3> QED BY <3>1 DEF NInv, NewsOK, Asked
  <2> QED BY <1>1, <1>3, <2>1, <2>2, <2>3, EndTells DEF down, Loaded
<1>4. CASE /\ ~IsStaleLoad(l) /\ l.event \notin Flash
           /\ loads' = (loads \ {l}) \cup {next}
           /\ page' = [page EXCEPT !.panel = first]
           /\ FreeSockets(State) # {} /\ Becomes(w)
  <2>1. /\ page'.event = page.event /\ page'.snapshot = page.snapshot
        /\ page'.failed = page.failed /\ page'.unheard = page.unheard
        /\ page'.loading = page.loading /\ page'.panel \in {"loading", page.panel}
    BY <1>2, <1>4 DEF PageRow, FirstPanel
  <2>2. /\ next.newest = l.newest /\ next.by = l.by /\ next.at = "roster" /\ next.spins = l.spins
    BY <1>2 DEF LoadRow
  <2>3. l.event \in Event /\ l.event = page.event
    BY <1>2, <1>4 DEF IsStaleLoad, LoadRow
  <2>4. s \in Socket /\ Good(State)
    BY <1>4, NewSocketIsFree DEF NInv, IInv, SocketsOK
  <2> HIDE DEF s, next, first
  <2>5. Good(w) /\ w.service.requested = l.event /\ Held(w, visible) /\ Quiet(State, w)
    BY <2>3, <2>4, Connected, HeldConnected DEF NInv
  <2> HIDE DEF w
  <2>6. State' = w /\ service'.requested = page'.event
    BY <1>4, <2>1, <2>3, <2>5, BecomesIs DEF Becomes
  <2>7. Held(State', visible')
    BY <1>1, <2>5, <2>6
  <2>8. Told => Told'
    BY <1>1, <2>1, <2>3, <2>5, <2>6, <2>7, QuietTells DEF NInv
  <2>9. Reading'
    BY <1>1, <1>4, <2>1, <2>2, <2>8 DEF NInv, NewsOK, Reading
  <2>10. Showing'
    <3> SUFFICES ASSUME Loaded, ~page.failed
                 PROVE  \/ page.snapshot.version = version[page.event] \/ Told'
                        \/ \E k \in loads' : k.newest /\ k.by = "load"
      BY <1>1, <2>1 DEF Showing, Loaded
    <3>1. \/ page.snapshot.version = version[page.event] \/ Told
          \/ \E k \in loads : k.newest /\ k.by = "load"
      BY DEF NInv, NewsOK, Showing
    <3> QED BY <1>4, <2>2, <2>8, <3>1
  <2>11. Asked' /\ Panelled' /\ Bounded'
    BY <1>1, <1>4, <2>1, <2>3, <2>6 DEF NInv, NewsOK, Asked, Panelled, Bounded
  <2>12. SpinnerHasOwner'
    BY <1>4, <2>1, <2>2 DEF NInv, NewsOK, SpinnerHasOwner
  <2> QED BY <1>1, <2>7, <2>9, <2>10, <2>11, <2>12 DEF NInv, NewsOK
<1> QED BY <1>3, <1>4 DEF EventArrives

LEMMA EventFailsTells == ASSUME NInv, NEW l \in loads, EventFails(l) PROVE NInv'
<1> DEFINE down == Lowered(l)
           failed == page.failed \/ ~IsStaleLoad(l)
<1>1. /\ loads' = loads \ {l} /\ IInv'
      /\ page' = [page EXCEPT !.failed = failed, !.loading = down]
      /\ UNCHANGED <<version, unpublished, command, service, sockets, visible>>
  BY EventFailsStep DEF EventFails, NInv
<1>2. page \in PageRow
  BY DEF NInv, IInv, PagePart, PageOK
<1>3. (page.failed => failed) /\ (l.newest => failed)
  BY StaleIsOld
<1> HIDE DEF down, failed
<1>4. /\ page'.event = page.event /\ page'.snapshot = page.snapshot /\ page'.panel = page.panel
      /\ page'.failed = failed /\ page'.unheard = page.unheard /\ page'.loading = down
  BY <1>1, <1>2 DEF PageRow
<1> QED BY <1>1, <1>3, <1>4, EndTells DEF down

LEMMA RosterFailsTells == ASSUME NInv, NEW l \in loads, RosterFails(l) PROVE NInv'
<1> DEFINE down == Lowered(l)
           done == [page EXCEPT !.loading = down]
<1>1. /\ loads' = loads \ {l} /\ IInv'
      /\ page' = IF IsStaleLoad(l) THEN done ELSE [done EXCEPT !.snapshot = None, !.panel = "error"]
      /\ UNCHANGED <<version, unpublished, command, service, sockets, visible>>
  BY RosterFailsStep DEF RosterFails, NInv
<1>2. page \in PageRow
  BY DEF NInv, IInv, PagePart, PageOK
<1> HIDE DEF down
<1>3. /\ page'.event = page.event /\ page'.failed = page.failed
      /\ page'.unheard = page.unheard /\ page'.loading = down
  BY <1>1, <1>2 DEF PageRow
<1>4. \/ IsStaleLoad(l) /\ page'.snapshot = page.snapshot /\ page'.panel = page.panel
      \/ page'.snapshot = None /\ page'.panel = "error"
  BY <1>1, <1>2 DEF PageRow
<1>5. l.newest => ~Loaded'
  BY <1>4, StaleIsOld DEF Loaded
<1> QED BY <1>1, <1>3, <1>4, <1>5, EndTells DEF down

LEMMA RosterIsReadTells == ASSUME NInv, NEW l \in loads, RosterIsRead(l) PROVE NInv'
<1> DEFINE next == [l EXCEPT !.at = "read", !.version = version[l.event]]
<1>1. /\ l.at = "roster" /\ loads' = (loads \ {l}) \cup {next} /\ IInv'
      /\ UNCHANGED <<version, unpublished, page, command, service, sockets, visible, left>>
  BY RosterIsReadStep DEF RosterIsRead, NInv
<1>2. l \in LoadRow /\ (l.newest => l.event = page.event)
  BY DEF NInv, IInv, PagePart, PageOK, OrderOK
<1>3. /\ next.newest = l.newest /\ next.by = l.by /\ next.spins = l.spins
      /\ next.version = version[l.event]
  BY <1>2 DEF LoadRow
<1> HIDE DEF next
<1>4. Told => Told'
  BY <1>1, ToldElsewhere
<1>5. Reading' /\ Showing'
  BY <1>1, <1>2, <1>3, <1>4 DEF NInv, NewsOK, Reading, Showing, Loaded
<1>6. Asked' /\ Panelled' /\ Bounded'
  <2>1. (\E k \in loads' : k.newest /\ k.by = "load" /\ k.at # "event") =>
          \E k \in loads : k.newest /\ k.by = "load" /\ k.at # "event"
    BY <1>1, <1>3
  <2> QED BY <1>1, <2>1 DEF NInv, NewsOK, Asked, Panelled, Bounded, Loaded
<1>7. SpinnerHasOwner'
  BY <1>1, <1>3 DEF NInv, NewsOK, SpinnerHasOwner
<1> QED BY <1>1, <1>5, <1>6, <1>7, HeldElsewhere DEF NInv, NewsOK

LEMMA RosterArrivesTells == ASSUME NInv, NEW l \in loads, RosterArrives(l) PROVE NInv'
<1> DEFINE down == Lowered(l)
           done == [page EXCEPT !.loading = down]
           snapshot == Snapshot(l.event, l.version, l.by)
<1>1. /\ l.at = "read" /\ loads' = loads \ {l} /\ IInv'
      /\ page' = IF IsStaleLoad(l) THEN done ELSE Applied(done, snapshot)
      /\ UNCHANGED <<version, unpublished, command, service, sockets, visible, left>>
  BY RosterArrivesStep DEF RosterArrives, NInv
<1>2. page \in PageRow /\ l \in LoadRow
  BY DEF NInv, IInv, PagePart, PageOK
<1> HIDE DEF down
<1>3. CASE IsStaleLoad(l)
  <2>1. /\ page'.event = page.event /\ page'.snapshot = page.snapshot /\ page'.panel = page.panel
        /\ page'.failed = page.failed /\ page'.unheard = page.unheard /\ page'.loading = down
    BY <1>1, <1>2, <1>3 DEF PageRow
  <2> QED BY <1>1, <1>3, <2>1, StaleIsOld, EndTells DEF down
<1>4. CASE ~IsStaleLoad(l)
  <2>1. /\ snapshot.event = l.event /\ snapshot.by = l.by /\ snapshot.version = l.version
        /\ snapshot # None
    <3>1. snapshot \in SnapshotRow
      BY <1>2 DEF Snapshot, SnapshotRow, LoadRow
    <3>2. snapshot # None
      BY <3>1, RosterAssumption DEF SnapshotRow, Origin, RosterAssumption
    <3> QED BY <3>2 DEF Snapshot
  <2> HIDE DEF snapshot
  <2>2. /\ page'.event = page.event /\ page'.snapshot = snapshot /\ page'.panel = "ready"
        /\ page'.failed = page.failed /\ page'.unheard = page.unheard /\ page'.loading = down
    BY <1>1, <1>2, <1>4 DEF PageRow, Applied
  <2>3. l.newest /\ l.event = page.event /\ l.version <= version[l.event]
    BY <1>1, <1>4, NewestShows DEF NInv, IsStaleLoad
  <2>4. Told => Told'
    BY <1>1, <2>2, ToldElsewhere
  <2>5. Reading'
    BY <1>1, <2>2, <2>4 DEF NInv, NewsOK, Reading
  <2>6. Showing'
    <3>1. l.by = "load" => l.version = version[page.event] \/ Told
      BY <1>1, <2>3 DEF NInv, NewsOK, Reading
    <3> QED BY <1>1, <2>1, <2>2, <2>4, <3>1 DEF Showing, Loaded
  <2>7. Asked'
    BY <1>1, <2>1, <2>2, <2>3 DEF NInv, NewsOK, Asked, Loaded
  <2>8. Panelled' /\ Bounded'
    BY <1>1, <2>1, <2>2, <2>3 DEF NInv, NewsOK, Panelled, Bounded
  <2>9. SpinnerHasOwner'
    <3>1. page'.loading => page.loading /\ ~l.spins
      BY <2>2 DEF Lowered, down
    <3> QED BY <1>1, <3>1 DEF NInv, NewsOK, SpinnerHasOwner
  <2> QED BY <1>1, <2>5, <2>6, <2>7, <2>8, <2>9, HeldElsewhere DEF NInv, NewsOK
<1> QED BY <1>3, <1>4

LEMMA CommandArrivesTells == ASSUME NInv, CommandArrives PROVE NInv'
<1>1. /\ command # None /\ command' = None /\ IInv'
      /\ UNCHANGED <<version, unpublished, service, sockets, visible, left>>
  BY CommandArrivesStep DEF CommandArrives, NInv
<1>2. command \in CommandRow /\ page \in PageRow
  BY <1>1, CommandIsRouted DEF NInv, IInv, PagePart, PageOK
<1>3. CASE /\ command.at = "answered" /\ UNCHANGED loads
           /\ page' = Applied(page, Snapshot(command.event, command.version, "command"))
  <2> DEFINE snapshot == Snapshot(command.event, command.version, "command")
  <2>1. /\ snapshot.by = "command" /\ snapshot.event = command.event
        /\ snapshot.version = command.version
    BY DEF Snapshot
  <2> HIDE DEF snapshot
  <2>2. /\ page'.event = page.event /\ page'.snapshot = snapshot /\ page'.unheard = page.unheard
        /\ page'.failed = page.failed /\ page'.loading = page.loading
    BY <1>2, <1>3 DEF PageRow, Applied, snapshot
  <2>3. ~Loaded'
    BY <2>1, <2>2 DEF Loaded
  <2>4. page'.snapshot # None
    <3>1. snapshot \in SnapshotRow
      BY <1>2 DEF snapshot, Snapshot, SnapshotRow, CommandRow, Origin
    <3> QED BY <2>2, <3>1, RosterAssumption DEF SnapshotRow, Origin, RosterAssumption
  <2>5. Told => Told'
    BY <1>1, <2>2, ToldElsewhere
  <2>6. Reading' /\ Showing'
    BY <1>1, <1>3, <2>2, <2>3, <2>5 DEF NInv, NewsOK, Reading, Showing
  <2>7. Asked' /\ Panelled' /\ Bounded'
    BY <1>1, <1>3, <2>1, <2>2, <2>3, <2>4 DEF NInv, NewsOK, Asked, Panelled, Bounded
  <2>8. SpinnerHasOwner'
    BY <1>3, <2>2 DEF NInv, NewsOK, SpinnerHasOwner
  <2> QED BY <1>1, <2>6, <2>7, <2>8, HeldElsewhere DEF NInv, NewsOK
<1>4. CASE Refetch /\ UNCHANGED page
  <2> DEFINE fresh == [event |-> page.event, by |-> "command", at |-> "roster",
                       silent |-> TRUE, newest |-> TRUE, spins |-> FALSE, version |-> 0]
  <2>1. loads' = loads \cup {fresh} /\ fresh.by = "command"
    BY <1>4 DEF Refetch
  <2> HIDE DEF fresh
  <2>2. Told => Told'
    BY <1>1, <1>4, ToldElsewhere
  <2>3. Reading' /\ Showing'
    BY <1>1, <1>4, <2>1, <2>2 DEF NInv, NewsOK, Reading, Showing, Loaded
  <2>4. Asked' /\ Panelled' /\ Bounded'
    BY <1>1, <1>4, <2>1 DEF NInv, NewsOK, Asked, Panelled, Bounded, Loaded
  <2>5. SpinnerHasOwner'
    BY <1>4, <2>1 DEF NInv, NewsOK, SpinnerHasOwner
  <2> QED BY <1>1, <2>3, <2>4, <2>5, HeldElsewhere DEF NInv, NewsOK
<1> QED BY <1>3, <1>4 DEF CommandArrives

LEMMA InitTells == Init => NInv
<1> SUFFICES ASSUME Init PROVE NInv
  OBVIOUS
<1>1. State.service = service /\ service.socket = None /\ service.requested = None /\ visible
  BY DEF Init, State
<1>2. Held(State, visible)
  BY <1>1 DEF Held
<1>3. Reading /\ Showing /\ Asked /\ Panelled /\ Bounded /\ SpinnerHasOwner
  BY DEF Init, Reading, Showing, Asked, Panelled, Bounded, SpinnerHasOwner, Loaded
<1> QED BY <1>2, <1>3, InitIsGood DEF NInv, NewsOK

LEMMA NextTells == NInv /\ [Next]_vars => NInv'
<1> SUFFICES ASSUME NInv, [Next]_vars PROVE NInv'
  OBVIOUS
<1>1. CASE User
  BY <1>1, NavigateTells, ReloadTells, SendCommandTells, HideTells, ShowTells DEF User
<1>2. CASE Others
  BY <1>2, SomeoneChangesTells DEF Others
<1>3. CASE Failures
  BY <1>3, OnErrorTells, LagTells, EventFailsTells, RosterFailsTells, BackendRestartTells,
     CommandFailsTells DEF Failures
<1>4. CASE Transport
  BY <1>4, PublishTells, OnOpenTells, OnCloseTells, OnMessageTells, SubscribeTells, GreetTells,
     ReconnectTimerTells DEF Transport
<1>5. CASE Requests
  BY <1>5, EventArrivesTells, RosterIsReadTells, RosterArrivesTells, CommandRunsTells,
     CommandAnswersTells, CommandArrivesTells DEF Requests
<1>6. CASE UNCHANGED vars
  <2>1. UNCHANGED <<version, unpublished, page, loads, command, service, sockets, visible, left>>
    BY <1>6 DEF vars
  <2>2. IInv'
    BY NextKeepsIt DEF NInv
  <2>3. command' = None \/ command'.at # "answered" \/ command'.version <= version[command'.event]
    BY <2>1 DEF NInv, NewsOK, Bounded
  <2> QED BY <2>1, <2>2, <2>3, CommandTells
<1> QED BY <1>1, <1>2, <1>3, <1>4, <1>5, <1>6 DEF Next

LEMMA NewsInvariant == Spec => []NInv
BY InitTells, NextTells, PTL DEF Spec

\* The full-page spinner is only ever up for a load in flight (load and its
\* finally, event-detail.ts).
THEOREM SpinnerOwned == Spec => []SpinnerHasOwner
<1>1. NInv => SpinnerHasOwner
  BY DEF NInv, NewsOK
<1> QED BY <1>1, NewsInvariant, PTL

\* A roster on screen that is no longer the present one is about to be replaced:
\* across lost sockets, hidden pages, restarts, failed and superseded loads no
\* change is lost on the way from the hub to the page.
THEOREM NothingMissed == Spec => []NothingIsMissed
<1>1. NInv => NothingIsMissed
  <2> SUFFICES ASSUME NInv, Claims, page.snapshot.by = "load", ~page.unheard
               PROVE  IsFresh \/ (\E l \in loads : l.newest /\ l.by = "load") \/ NewsComes
    BY DEF NothingIsMissed
  <2>1. Loaded /\ ~page.failed
    BY DEF NInv, NewsOK, Panelled, Claims, Loaded
  <2>2. page.snapshot.event = page.event
    BY <2>1 DEF NInv, IInv, PagePart, ShownOK
  <2>3. \/ page.snapshot.version = version[page.event]
        \/ NewsComes
        \/ \E l \in loads : l.newest /\ l.by = "load"
    BY <2>1 DEF NInv, NewsOK, Showing, Told, Claims
  <2> QED BY <2>1, <2>2, <2>3 DEF IsFresh, Loaded
<1> QED BY <1>1, NewsInvariant, PTL
=============================================================================
