-------------------------- MODULE BotEvents_proofs --------------------------
(***************************************************************************)
(* Theorems of BotEvents, for any number of events and pollers and any     *)
(* budgets: what a checkpoint remembers was posted, an event is announced  *)
(* once unless an answer was lost, the checkpoint never moves past an      *)
(* event it knows nothing of, no stamp runs ahead of its card, and no open *)
(* thread is forgotten.                                                    *)
(***************************************************************************)
EXTENDS BotEvents_invariant

----------------------------------------------------------------------------
(* The rest of the cycle.                                                  *)

LEMMA StepGives ==
  ASSUME IInv, NEW p \in Poller, poller[p].alive, UNCHANGED World, Notes,
         left' \in [Counter -> Nat], post' \in [Event -> Seq(PostState)],
         \A d \in Event : Len(post[d]) <= Len(post'[d]),
         \A d \in Event : \/ d \in Facts'.excused
                          \/ Facts'.standing[d] \subseteq Facts.standing[d]
  PROVE  /\ WorldOK' /\ Grows(Facts, Facts') /\ (Overlapped' <=> Overlapped)
         /\ Facts'.present = Facts.present /\ Facts'.left = Facts.left
         /\ Facts'.over = Facts.over /\ Facts'.pings = Facts.pings
         /\ FactsOK(Facts') /\ PollerOK(poller[p], Facts') /\ MemOK(poller[p].mem, Facts')
<1>1. WorldOK /\ FactsOK(Facts) /\ PollerOK(poller[p], Facts)
  BY AliveIs
<1>2. /\ WorldOK' /\ Grows(Facts, Facts') /\ (Overlapped' <=> Overlapped)
      /\ Facts'.present = Facts.present /\ Facts'.left = Facts.left
      /\ Facts'.over = Facts.over /\ Facts'.pings = Facts.pings
  BY <1>1, WorldKeeps DEF World
<1>3. FactsOK(Facts')
  BY <1>2, NextWorldGivesFacts
<1>4. PollerOK(poller[p], Facts')
  BY <1>1, <1>2, <1>3, PollerGrows
<1>5. MemOK(poller[p].mem, Facts')
  BY <1>4 DEF PollerOK, TaskOK
<1> QED BY <1>2, <1>3, <1>4, <1>5

LEMMA StepEnds ==
  ASSUME IInv, NEW p \in Poller, poller[p].alive, UNCHANGED World, Notes,
         left' \in [Counter -> Nat], post' \in [Event -> Seq(PostState)],
         \A d \in Event : Len(post[d]) <= Len(post'[d]),
         \A d \in Event : \/ d \in Facts'.excused
                          \/ Facts'.standing[d] \subseteq Facts.standing[d],
         NEW r, Is(p, r), r.alive, PollerOK(r, Facts'),
         \/ file' = r.mem
         \/ file' = file /\ r.mem = poller[p].mem /\ poller[p].at # "deliver"
  PROVE  IInv'
<1>1. WorldOK' /\ Grows(Facts, Facts') /\ (Overlapped' <=> Overlapped)
  BY StepGives
<1>2. Files(r)
  <2>1. CASE file' = r.mem
    BY <2>1 DEF Files
  <2>2. CASE file' = file /\ r.mem = poller[p].mem /\ poller[p].at # "deliver"
    BY <2>2, FilesStay
  <2> QED BY <2>1, <2>2
<1>3. registered' = registered
  BY DEF World
<1> QED BY <1>1, <1>2, <1>3, PollersKeep

LEMMA ReadRevisionsKeeps ==
  ASSUME IInv, NEW p \in Poller, ReadRevisions(p) PROVE IInv'
<1> DEFINE q == poller[p]
           todo == InOrder(Mapped(q.mem))
           seen == [e \in Event |-> IF e \in Mapped(q.mem)
                                    THEN [status |-> status[e], rev |-> rev[e]] ELSE Unseen[e]]
           t == [q EXCEPT !.at = "close", !.known = TRUE, !.todo = todo, !.seen = seen]
<1>1. /\ q.alive /\ q.at = "revisions" /\ Is(p, Settled(t)) /\ file' = file
      /\ UNCHANGED World /\ Quiet
  BY DEF ReadRevisions, Phase
<1>2. /\ WorldOK /\ FactsOK(Facts) /\ PollerOK(q, Facts) /\ q \in Task /\ MemOK(q.mem, Facts)
  BY <1>1, AliveIs
<1>3. /\ todo \in Seq(Event) /\ Range(todo) = Mapped(q.mem) /\ Mapped(q.mem) \subseteq Facts.present
      /\ \A i, j \in DOMAIN todo : i # j => todo[i] # todo[j]
  BY <1>2, MappedIs, InOrderIs
<1>4. /\ seen \in [Event -> [status : Statuses \cup {"unknown"}, rev : Nat]]
      /\ \A e \in Event : /\ seen[e].status \in {"archived", "cancelled", "over"} => e \in Facts.left
                          /\ seen[e].status = "over" => e \in Facts.over
  <2>1. \A e \in Event : /\ seen[e] \in [status : Statuses \cup {"unknown"}, rev : Nat]
                         /\ seen[e].status \in {status[e], "unknown"}
    BY <1>2 DEF WorldOK, Unseen
  <2>2. \A e \in Event : /\ status[e] \in {"archived", "cancelled", "over"} => e \in Facts.left
                         /\ status[e] = "over" => e \in Facts.over
    BY <1>2, FieldsOfFacts DEF WorldOK
  <2> QED BY <2>1, <2>2
<1>5. \A e \in Range(todo) : q.mem.thread[e] # 0
  BY <1>3 DEF Mapped
<1> HIDE DEF todo, seen
<1>6. /\ t \in Task /\ t.alive = q.alive /\ t.at = "close" /\ t.todo = todo /\ t.seen = seen
      /\ t.mem = q.mem /\ t.newest = q.newest /\ t.baseline = q.baseline
  BY <1>2, <1>3, <1>4 DEF Task
<1> HIDE DEF t
<1>7. PollerOK(t, Facts)
  <2>1. TaskOK(t, Facts)
    BY <1>1, <1>2, <1>3, <1>6 DEF PollerOK, TaskOK
  <2>2. SeenOK(t, Facts) /\ DeliverOK(t, Facts) /\ BatchOK(t, Facts)
    BY <1>4, <1>6 DEF SeenOK, DeliverOK, BatchOK, Announcing
  <2>3. CloseOK(t)
    BY <1>3, <1>5, <1>6 DEF CloseOK
  <2> QED BY <1>2, <1>6, <2>1, <2>2, <2>3 DEF PollerOK
<1>8. Follows(t, Settled(t), Facts)
  BY <1>1, <1>2, <1>6, <1>7, Settles
<1>9. left' \in [Counter -> Nat] /\ UNCHANGED <<post, history>>
  BY <1>1, <1>2, LeftStays DEF Quiet
<1> QED BY <1>1, <1>6, <1>8, <1>9, QuietKeeps DEF Follows

LEMMA RevisionsFailKeeps ==
  ASSUME IInv, NEW p \in Poller, RevisionsFail(p) PROVE IInv'
<1> DEFINE q == poller[p]
           t == [q EXCEPT !.at = "close", !.todo = << >>]
<1>1. /\ q.alive /\ q.at = "revisions" /\ Is(p, Settled(t)) /\ file' = file
      /\ UNCHANGED World /\ UNCHANGED <<post, history>> /\ Spend("faults")
  BY DEF RevisionsFail, Phase
<1>2. /\ WorldOK /\ FactsOK(Facts) /\ PollerOK(q, Facts) /\ q \in Task /\ MemOK(q.mem, Facts)
  BY <1>1, AliveIs
<1>3. /\ t \in Task /\ t.alive = q.alive /\ t.at = "close" /\ t.todo = << >> /\ t.seen = q.seen
      /\ t.mem = q.mem /\ t.newest = q.newest /\ t.baseline = q.baseline
  BY <1>2, EmptyIs DEF Task
<1> HIDE DEF t
<1>4. PollerOK(t, Facts)
  <2>1. TaskOK(t, Facts)
    BY <1>1, <1>2, <1>3, EmptyIs DEF PollerOK, TaskOK
  <2>2. SeenOK(t, Facts) /\ DeliverOK(t, Facts) /\ BatchOK(t, Facts)
    BY <1>2, <1>3 DEF PollerOK, SeenOK, DeliverOK, BatchOK, Announcing
  <2>3. CloseOK(t)
    BY <1>3, EmptyIs DEF CloseOK
  <2> QED BY <1>2, <1>3, <2>1, <2>2, <2>3 DEF PollerOK
<1>5. Follows(t, Settled(t), Facts)
  BY <1>1, <1>2, <1>3, <1>4, Settles
<1>6. left' \in [Counter -> Nat]
  BY <1>1, <1>2, SpendIs DEF Counter
<1> QED BY <1>1, <1>3, <1>5, <1>6, QuietKeeps DEF Follows

\* The phases that go through a list.
Lists == {"close", "restored", "roster"}

LEMMA BusyIs ==
  ASSUME IInv, NEW p \in Poller, poller[p].alive, poller[p].at \in Lists, poller[p].todo # << >>
  PROVE  LET e == Head(poller[p].todo)
         IN  /\ e \in Facts.present /\ e \in Event
             /\ poller[p].at = "close" => poller[p].mem.thread[e] # 0
<1>1. PollerOK(poller[p], Facts) /\ poller[p] \in Task /\ FactsOK(Facts)
  BY AliveIs
<1>2. poller[p].todo \in Seq(Event)
  BY <1>1, FieldsOfTask
<1>3. Head(poller[p].todo) \in Range(poller[p].todo)
  BY <1>2, TailIs
<1> QED BY <1>1, <1>3 DEF PollerOK, TaskOK, CloseOK, FactsOK

LEMMA AfterIs ==
  ASSUME NEW w, FactsOK(w), NEW q, PollerOK(q, w), q.at \in Lists, q.alive, q.todo # << >>,
         NEW t \in Task, t.alive = q.alive, t.at = q.at, t.todo = q.todo, t.seen = q.seen,
         t.newest = q.newest, t.baseline = q.baseline, MemOK(t.mem, w),
         \A d \in Event : d # Head(q.todo) => Same(q.mem, t.mem, d),
         Loose(t.mem, Head(q.todo), w)
  PROVE  PollerOK(After(t), w) /\ After(t).mem = t.mem /\ After(t).alive
<1> DEFINE e == Head(q.todo)
           rest == Tail(q.todo)
           r == [t EXCEPT !.todo = rest]
<1>1. /\ q \in Task /\ q.todo \in Seq(Event) /\ Range(q.todo) \subseteq w.present
      /\ w.present \subseteq Event
  BY FieldsOfTask DEF PollerOK, TaskOK, FactsOK
<1>2. /\ rest \in Seq(Event) /\ Range(rest) \subseteq Range(q.todo)
      /\ (\A i, j \in DOMAIN q.todo : i # j => q.todo[i] # q.todo[j])
            => /\ e \notin Range(rest)
               /\ \A i, j \in DOMAIN rest : i # j => rest[i] # rest[j]
  BY <1>1, TailIs
<1>3. After(t) = Settled(r)
  BY DEF After
<1> HIDE DEF rest
<1>4. /\ r \in Task /\ r.alive = q.alive /\ r.at = q.at /\ r.todo = rest /\ r.seen = q.seen
      /\ r.newest = q.newest /\ r.baseline = q.baseline /\ r.mem = t.mem
  BY <1>2 DEF Task
<1> HIDE DEF r
<1>5. \A d \in Event : Loose(t.mem, d, w)
  <2> TAKE d \in Event
  <2>1. CASE d = e
    BY <2>1
  <2>2. CASE d # e
    BY <2>2, SameCover DEF PollerOK
  <2> QED BY <2>1, <2>2
<1>6. PollerOK(r, w)
  <2>1. CASE q.at # "close"
    <3>1. r.at \in Calm
      BY <1>4, <2>1 DEF Calm, Lists
    <3> QED BY <1>1, <1>2, <1>4, <1>5, <3>1, CalmIsOK
  <2>2. CASE q.at = "close"
    <3>1. TaskOK(r, w)
      BY <1>1, <1>2, <1>4, <2>2 DEF PollerOK, TaskOK
    <3>2. SeenOK(r, w) /\ DeliverOK(r, w) /\ BatchOK(r, w)
      BY <1>4, <2>2 DEF PollerOK, SeenOK, DeliverOK, BatchOK, Announcing
    <3>3. /\ e \notin Range(rest) /\ \A d \in Range(rest) : q.mem.thread[d] # 0
          /\ \A i, j \in DOMAIN rest : i # j => rest[i] # rest[j]
      BY <1>2, <2>2 DEF PollerOK, CloseOK
    <3>4. \A d \in Range(rest) : t.mem.thread[d] # 0
      BY <1>1, <1>2, <3>3 DEF Same
    <3> QED BY <1>4, <1>5, <3>1, <3>2, <3>3, <3>4 DEF PollerOK, CloseOK
  <2> QED BY <2>1, <2>2
<1>7. r.alive /\ r.at # "deliver"
  BY <1>4 DEF Lists
<1>8. Follows(r, Settled(r), w)
  BY <1>6, <1>7, Settles
<1> QED BY <1>3, <1>4, <1>8 DEF Follows

----------------------------------------------------------------------------
(* checkClosedEvents.                                                      *)

LEMMA ForgottenIs ==
  ASSUME NEW w, FactsOK(w), NEW q \in Task, MemOK(q.mem, w), NEW e \in Event, e \notin w.owed
  PROVE  \E m : /\ Forgotten(q, e) = [q EXCEPT !.mem = m] /\ MemOK(m, w)
                /\ \A d \in Event : d # e => Same(q.mem, m, d)
                /\ m.thread[e] = 0 /\ m.parent[e] = 0 /\ m.pending[e] = "none"
<1> DEFINE z == 0
           b == FALSE
           x == "none"
<1>a. PICK k : k = q.mem
  OBVIOUS
<1> DEFINE m == [k EXCEPT !.thread[e] = z, !.parent[e] = z, !.card[e] = b, !.shown[e] = z,
                          !.pending[e] = x]
           t == [q EXCEPT !.mem.thread[e] = z, !.mem.parent[e] = z, !.mem.card[e] = b,
                          !.mem.shown[e] = z, !.mem.pending[e] = x]
<1>b. Forgotten(q, e) = t
  BY DEF Forgotten
<1>2. z \in Nat /\ z = 0 /\ b \in BOOLEAN /\ b = FALSE /\ x \in Pendings /\ x = "none"
  BY DEF Pendings
<1> HIDE DEF z, b, x
<1>c. t = [q EXCEPT !.mem = m]
  <2> DEFINE k1 == [k EXCEPT !.thread[e] = z]
             k2 == [k1 EXCEPT !.parent[e] = z]
             k3 == [k2 EXCEPT !.card[e] = b]
             k4 == [k3 EXCEPT !.shown[e] = z]
             k5 == [k4 EXCEPT !.pending[e] = x]
             q1 == [q EXCEPT !.mem.thread[e] = z]
             q2 == [q1 EXCEPT !.mem.parent[e] = z]
             q3 == [q2 EXCEPT !.mem.card[e] = b]
             q4 == [q3 EXCEPT !.mem.shown[e] = z]
             q5 == [q4 EXCEPT !.mem.pending[e] = x]
  <2>1. q5 = t /\ k5 = m
    OBVIOUS
  <2>2. q1 = [q EXCEPT !.mem = k1]
    BY <1>a
  <2>3. \A r : [q EXCEPT !.mem = r].mem = r
    BY DEF Task
  <2> HIDE DEF t, m
  <2>4. q1.mem = k1
    BY <2>2, <2>3
  <2> HIDE DEF q1, k1
  <2>5. q2 = [q EXCEPT !.mem = k2]
    BY <2>2, <2>4
  <2>6. q2.mem = k2
    BY <2>3, <2>5
  <2> HIDE DEF q2, k2
  <2>7. q3 = [q EXCEPT !.mem = k3]
    BY <2>5, <2>6
  <2>8. q3.mem = k3
    BY <2>3, <2>7
  <2> HIDE DEF q3, k3
  <2>9. q4 = [q EXCEPT !.mem = k4]
    BY <2>7, <2>8
  <2>10. q4.mem = k4
    BY <2>3, <2>9
  <2> HIDE DEF q4, k4
  <2>11. q5 = [q EXCEPT !.mem = k5]
    BY <2>9, <2>10, Zenon
  <2> HIDE DEF q5, k5
  <2> QED BY <2>1, <2>11
<1>1. Forgotten(q, e) = [q EXCEPT !.mem = m]
  BY <1>b, <1>c, Zenon
<1>3. k \in Memory
  BY <1>a DEF MemOK
<1>4. /\ Beside(k, m, e) /\ m.thread[e] = z /\ m.parent[e] = z /\ m.card[e] = b
      /\ m.pending[e] = x
  BY <1>2, <1>3 DEF Memory, Beside, Same, Pendings
<1> HIDE DEF m
<1>5. MemOK(m, w)
  <2>1. w.posts[e] \in Nat
    BY DEF FactsOK
  <2>2. m.thread[e] <= w.posts[e] /\ m.parent[e] <= w.posts[e]
    BY <1>2, <1>4, <2>1
  <2> QED BY <1>2, <1>4, <1>a, <2>2, MemoryBeside
<1>6. \A d \in Event : d # e => Same(q.mem, m, d)
  BY <1>4, <1>a DEF Beside
<1> QED BY <1>1, <1>2, <1>4, <1>5, <1>6

LEMMA RemovingIs ==
  ASSUME NEW w, FactsOK(w), NEW q \in Task, MemOK(q.mem, w), NEW e \in Event, e \in w.left
  PROVE  \E m : /\ Removing(q, e) = [q EXCEPT !.mem = m] /\ MemOK(m, w)
                /\ \A d \in Event : Same(q.mem, m, d)
<1>a. PICK k : k = q.mem
  OBVIOUS
<1>b. PICK R : R = k.removed \cup {e}
  OBVIOUS
<1> DEFINE m == [k EXCEPT !.removed = R]
<1>1. Removing(q, e) = [q EXCEPT !.mem = m]
  BY <1>a, <1>b DEF Removing
<1>2. k \in Memory /\ R \in SUBSET Event /\ R \subseteq w.left
  BY <1>a, <1>b, FieldsOfMemory DEF MemOK
<1>3. m \in Memory /\ m.cursor = k.cursor /\ m.removed = R /\ \A d \in Event : Same(k, m, d)
  BY <1>2, RemovedChanged
<1> HIDE DEF m
<1>4. MemOK(m, w)
  BY <1>2, <1>3, <1>a, MemoryAside DEF MemOK
<1> QED BY <1>1, <1>3, <1>4, <1>a

LEMMA StampIs ==
  ASSUME NEW w, FactsOK(w), NEW q \in Task, MemOK(q.mem, w), NEW e \in Event, NEW n \in Nat
  PROVE  \E m : /\ [q EXCEPT !.mem.shown[e] = n] = [q EXCEPT !.mem = m] /\ MemOK(m, w)
                /\ \A d \in Event : Same(q.mem, m, d)
<1>a. PICK k : k = q.mem
  OBVIOUS
<1> DEFINE m == [k EXCEPT !.shown[e] = n]
<1>1. [q EXCEPT !.mem.shown[e] = n] = [q EXCEPT !.mem = m]
  BY <1>a
<1>2. k \in Memory
  BY <1>a DEF MemOK
<1>3. Beside(k, m, e) /\ Same(k, m, e)
  BY <1>2, ShownChanged
<1> HIDE DEF m
<1>4. m \in Memory /\ m.cursor = k.cursor /\ m.removed = k.removed
      /\ \A d \in Event : Same(k, m, d)
  BY <1>3 DEF Beside
<1>5. MemOK(m, w)
  BY <1>4, <1>a, MemoryAside DEF MemOK
<1> QED BY <1>1, <1>4, <1>5, <1>a

\* A poller that remembers other things of the event it has at hand.
LEMMA WithMemory ==
  ASSUME NEW q \in Task, NEW m \in Memory
  PROVE  LET t == [q EXCEPT !.mem = m]
         IN  /\ t \in Task /\ t.alive = q.alive /\ t.at = q.at /\ t.todo = q.todo
             /\ t.seen = q.seen /\ t.newest = q.newest /\ t.baseline = q.baseline
             /\ t.event = q.event /\ t.then = q.then /\ t.boot = q.boot /\ t.mem = m
  BY DEF Task

LEMMA ClosingIs ==
  ASSUME IInv, NEW p \in Poller, NEW s \in {"scheduled", "live", "archived", "cancelled", "over"},
         Closing(p, s)
  PROVE  LET q == poller[p]
             e == Head(q.todo)
         IN  /\ q.alive /\ q.at = "close" /\ q.at \in Lists /\ q.todo # << >>
             /\ e \in Event /\ q.mem.thread[e] # 0 /\ Loose(q.mem, e, Facts)
             /\ q.mem.thread[e] \in 0..Facts.posts[e]
             /\ s \in {"archived", "cancelled", "over"} => e \in Facts.left /\ e \notin Facts.owed
             /\ s = "over" => e \in Facts.over
<1> DEFINE q == poller[p]
           e == Head(q.todo)
<1>1. q.alive /\ q.at = "close" /\ q.at \in Lists /\ q.todo # << >> /\ q.seen[e].status = s
  BY DEF Closing, Busy, Phase, Lists
<1>2. PollerOK(q, Facts) /\ FactsOK(Facts) /\ MemOK(q.mem, Facts) /\ q.mem \in Memory
  BY <1>1, AliveIs
<1>3. e \in Event /\ q.mem.thread[e] # 0
  BY <1>1, BusyIs
<1>4. /\ s \in {"archived", "cancelled", "over"} => e \in Facts.left /\ e \notin Facts.owed
      /\ s = "over" => e \in Facts.over
  BY <1>1, <1>2, <1>3 DEF PollerOK, SeenOK, FactsOK
<1>5. q.mem.thread[e] \in 0..Facts.posts[e]
  <2>1. q.mem.thread[e] \in Nat /\ Facts.posts[e] \in Nat /\ q.mem.thread[e] <= Facts.posts[e]
    BY <1>2, <1>3, FieldsOfMemory DEF MemOK, FactsOK
  <2> QED BY <2>1
<1>6. Loose(q.mem, e, Facts)
  BY <1>2, <1>3 DEF PollerOK
<1> QED BY <1>1, <1>3, <1>4, <1>5, <1>6

\* The thread of a post moves, and its card with it.
LEMMA ThreadMoves ==
  ASSUME WorldOK, NEW e \in Event, NEW i, ~Gone(e, i), NEW x \in {"none", "open", "locked", "deleted"},
         post' = [post EXCEPT ![e][i].thread = x]
  PROVE  /\ post' \in [Event -> Seq(PostState)]
         /\ \A d \in Event : Len(post[d]) <= Len(post'[d])
         /\ \A d \in Event : Facts'.standing[d] \subseteq Facts.standing[d]
<1> DEFINE row == [post[e][i] EXCEPT !.thread = x]
<1>1. post' = [post EXCEPT ![e][i] = row]
  OBVIOUS
<1>2. ASSUME i \in DOMAIN post[e]
      PROVE  row \in PostState /\ (row.thread # "deleted" => i \in Standing(e))
  <2>1. post[e][i] \in PostState
    BY <1>2, PostsAre
  <2>2. row \in PostState
    BY <2>1 DEF PostState
  <2> QED BY <1>2, <2>2 DEF Standing, Gone
<1> HIDE DEF row
<1> QED BY <1>1, <1>2, PostChanged, ZenonT(30)

LEMMA CardMoves ==
  ASSUME WorldOK, NEW e \in Event, NEW i, ~Gone(e, i), NEW x \in {"none", "open", "locked", "deleted"},
         NEW n, i \in DOMAIN post[e] => n \in Nat,
         post' = [post EXCEPT ![e][i] = [@ EXCEPT !.thread = x, !.shows = n]]
  PROVE  /\ post' \in [Event -> Seq(PostState)]
         /\ \A d \in Event : Len(post[d]) <= Len(post'[d])
         /\ \A d \in Event : Facts'.standing[d] \subseteq Facts.standing[d]
<1> DEFINE row == [post[e][i] EXCEPT !.thread = x, !.shows = n]
<1>1. post' = [post EXCEPT ![e][i] = row]
  OBVIOUS
<1>2. ASSUME i \in DOMAIN post[e]
      PROVE  row \in PostState /\ (row.thread # "deleted" => i \in Standing(e))
  <2>1. post[e][i] \in PostState /\ n \in Nat
    BY <1>2, PostsAre
  <2>2. row \in PostState
    BY <2>1 DEF PostState
  <2> QED BY <1>2, <2>2 DEF Standing, Gone
<1> HIDE DEF row
<1> QED BY <1>1, <1>2, PostChanged

LEMMA SameStands ==
  post' = post => \A d \in Event : Facts'.standing[d] \subseteq Facts.standing[d]
  BY DEF Facts, Standing

LEMMA KeepOpenKeeps ==
  ASSUME IInv, NEW p \in Poller, KeepOpen(p) PROVE IInv'
<1> DEFINE q == poller[p]
<1>1. /\ Closing(p, "scheduled") \/ Closing(p, "live")
      /\ Is(p, After(q)) /\ file' = file /\ UNCHANGED World /\ Quiet
  BY DEF KeepOpen
<1>2. /\ q.alive /\ q.at \in Lists /\ q.at # "deliver" /\ q.todo # << >>
      /\ Head(q.todo) \in Event /\ Loose(q.mem, Head(q.todo), Facts)
  BY <1>1, ClosingIs DEF Lists
<1>3. WorldOK /\ FactsOK(Facts) /\ PollerOK(q, Facts) /\ q \in Task /\ MemOK(q.mem, Facts)
  BY <1>2, AliveIs
<1>4. \A d \in Event : Same(q.mem, q.mem, d)
  BY DEF Same
<1>5. PollerOK(After(q), Facts) /\ After(q).mem = q.mem /\ After(q).alive
  BY <1>2, <1>3, <1>4, AfterIs
<1>6. left' \in [Counter -> Nat] /\ UNCHANGED <<post, history>>
  BY <1>1, <1>3, LeftStays DEF Quiet
<1> QED BY <1>1, <1>2, <1>5, <1>6, QuietKeeps

LEMMA ForgetClosedKeeps ==
  ASSUME IInv, NEW p \in Poller, ForgetClosed(p) PROVE IInv'
<1> DEFINE q == poller[p]
           e == Head(q.todo)
           t == Forgotten(q, e)
<1>1. /\ Closing(p, "archived") \/ Closing(p, "cancelled") \/ Closing(p, "over")
      /\ Gone(e, q.mem.thread[e]) /\ Is(p, After(t)) /\ file' = After(t).mem
      /\ UNCHANGED World /\ Quiet
  BY DEF ForgetClosed, Save
<1>2. /\ q.alive /\ q.at \in Lists /\ q.todo # << >> /\ e \in Event /\ q.mem.thread[e] # 0
      /\ Loose(q.mem, e, Facts) /\ e \notin Facts.owed
  BY <1>1, ClosingIs, Zenon
<1>3. WorldOK /\ FactsOK(Facts) /\ PollerOK(q, Facts) /\ q \in Task /\ MemOK(q.mem, Facts)
  BY <1>2, AliveIs
<1>4. PICK m : /\ t = [q EXCEPT !.mem = m] /\ MemOK(m, Facts)
               /\ \A d \in Event : d # e => Same(q.mem, m, d)
               /\ m.thread[e] = 0 /\ m.parent[e] = 0 /\ m.pending[e] = "none"
  BY <1>2, <1>3, ForgottenIs
<1>5. Loose(m, e, Facts)
  <2>1. q.mem.thread[e] \notin Facts.standing[e]
    BY <1>1, <1>2, GoneFalls
  <2>2. CASE Tight(q.mem, e, Facts)
    <3>1. e \in Facts.excused \/ Facts.standing[e] = {}
      BY <1>2, <2>1, <2>2 DEF Tight, Kept
    <3> QED BY <3>1 DEF Loose, Tight
  <2>3. CASE Retired(q.mem, e, Facts)
    BY <1>4, <2>3 DEF Loose, Retired
  <2> QED BY <1>2, <2>2, <2>3 DEF Loose
<1> HIDE DEF t
<1>6. /\ t \in Task /\ t.alive = q.alive /\ t.at = q.at /\ t.todo = q.todo
      /\ t.seen = q.seen /\ t.newest = q.newest /\ t.baseline = q.baseline /\ t.mem = m
  <2>1. m \in Memory
    BY <1>4 DEF MemOK
  <2> QED BY <1>3, <1>4, <2>1, WithMemory
<1>7. PollerOK(After(t), Facts) /\ After(t).alive
  BY <1>2, <1>3, <1>4, <1>5, <1>6, AfterIs
<1>8. left' \in [Counter -> Nat] /\ UNCHANGED <<post, history>>
  BY <1>1, <1>3, LeftStays DEF Quiet
<1> QED BY <1>1, <1>2, <1>7, <1>8, QuietKeeps

LEMMA DeletePostKeeps ==
  ASSUME IInv, NEW p \in Poller, DeletePost(p) PROVE IInv'
<1> DEFINE q == poller[p]
           e == Head(q.todo)
           x == "deleted"
           t == Removing(q, e)
<1>1. /\ Closing(p, "archived") /\ ~Gone(e, q.mem.thread[e])
      /\ post' = [post EXCEPT ![e][q.mem.thread[e]].thread = x]
      /\ Is(p, t) /\ file' = t.mem /\ UNCHANGED World /\ UNCHANGED <<history, left>>
  BY Zenon DEF DeletePost, Save
<1>2. x \in {"none", "open", "locked", "deleted"}
  OBVIOUS
<1> HIDE DEF x
<1>3. q.alive /\ e \in Event /\ e \in Facts.left
  BY <1>1, ClosingIs, Zenon
<1>4. WorldOK /\ q \in Task
  BY <1>3, AliveIs
<1>5. /\ post' \in [Event -> Seq(PostState)]
      /\ \A d \in Event : Len(post[d]) <= Len(post'[d])
      /\ \A d \in Event : Facts'.standing[d] \subseteq Facts.standing[d]
  BY <1>1, <1>2, <1>3, <1>4, ThreadMoves, Zenon
<1>6. Notes /\ left' \in [Counter -> Nat]
  BY <1>1, <1>4, LeftStays, Zenon DEF Notes
<1>7. /\ FactsOK(Facts') /\ PollerOK(q, Facts') /\ MemOK(q.mem, Facts') /\ e \in Facts'.left
  BY <1>1, <1>3, <1>5, <1>6, StepGives, Zenon
<1>8. PICK m : /\ t = [q EXCEPT !.mem = m] /\ MemOK(m, Facts')
               /\ \A d \in Event : Same(q.mem, m, d)
  BY <1>3, <1>4, <1>7, RemovingIs
<1> HIDE DEF t
<1>9. /\ t \in Task /\ t.alive = q.alive /\ t.at = q.at /\ t.todo = q.todo
      /\ t.seen = q.seen /\ t.newest = q.newest /\ t.baseline = q.baseline
      /\ t.event = q.event /\ t.then = q.then /\ t.mem = m
  <2>1. m \in Memory
    BY <1>8 DEF MemOK
  <2> QED BY <1>4, <1>8, <2>1, WithMemory
<1>10. PollerOK(t, Facts')
  <2>1. /\ q.baseline \in {0} \cup Facts'.present
        /\ \A d \in Event : d <= q.baseline => d \in Facts'.folded
    BY <1>7 DEF PollerOK, TaskOK
  <2>2. /\ MemOK(t.mem, Facts') /\ \A d \in Event : Same(q.mem, t.mem, d)
        /\ t.baseline \in {0} \cup Facts'.present
        /\ \A d \in Event : d <= t.baseline => d \in Facts'.folded
    BY <1>8, <1>9, <2>1
  <2> HIDE DEF q
  <2> QED BY <1>7, <1>9, <2>2, PollerRemembers
<1> QED BY <1>1, <1>3, <1>5, <1>6, <1>9, <1>10, StepEnds, Zenon

\* What is forgotten of an event that ended, and what is remembered of the others.
LEMMA ForgetEnds ==
  ASSUME IInv, NEW p \in Poller, poller[p].alive, poller[p].at \in Lists, poller[p].todo # << >>,
         NEW q, q \in Task, q.alive = poller[p].alive, q.at = poller[p].at,
         q.todo = poller[p].todo, q.seen = poller[p].seen, q.newest = poller[p].newest,
         q.baseline = poller[p].baseline, MemOK(q.mem, Facts'),
         \A d \in Event : Same(poller[p].mem, q.mem, d),
         FactsOK(Facts'), PollerOK(poller[p], Facts'), Head(poller[p].todo) \in Event,
         Head(poller[p].todo) \notin Facts'.owed,
         \/ Head(poller[p].todo) \in Facts'.excused
         \/ /\ Head(poller[p].todo) \in Facts'.over
            /\ \E i \in 0..Facts'.posts[Head(poller[p].todo)] :
                  Facts'.standing[Head(poller[p].todo)] \subseteq {i}
  PROVE  LET r == After(Forgotten(q, Head(poller[p].todo)))
         IN  PollerOK(r, Facts') /\ r.alive
<1> DEFINE e == Head(poller[p].todo)
           t == Forgotten(q, e)
<1>1. e \in Event /\ e \notin Facts'.owed
  OBVIOUS
<1>2. PICK m : /\ t = [q EXCEPT !.mem = m] /\ MemOK(m, Facts')
               /\ \A d \in Event : d # e => Same(q.mem, m, d)
               /\ m.thread[e] = 0 /\ m.parent[e] = 0 /\ m.pending[e] = "none"
  BY <1>1, ForgottenIs
<1>3. Loose(m, e, Facts')
  BY <1>2 DEF Loose, Tight, Retired
<1>4. \A d \in Event : d # e => Same(poller[p].mem, m, d)
  BY <1>2 DEF Same
<1> HIDE DEF t
<1>5. /\ t \in Task /\ t.alive = poller[p].alive /\ t.at = poller[p].at
      /\ t.todo = poller[p].todo /\ t.seen = poller[p].seen
      /\ t.newest = poller[p].newest /\ t.baseline = poller[p].baseline /\ t.mem = m
  <2>1. m \in Memory
    BY <1>2 DEF MemOK
  <2> QED BY <1>2, <2>1, WithMemory, ZenonT(30)
<1> QED BY <1>2, <1>3, <1>4, <1>5, AfterIs DEF t

\* The event is only remembered otherwise.
LEMMA KeepEnds ==
  ASSUME IInv, NEW p \in Poller, poller[p].alive, poller[p].at \in Lists, poller[p].todo # << >>,
         Head(poller[p].todo) \in Event,
         NEW m, MemOK(m, Facts'), \A d \in Event : Same(poller[p].mem, m, d),
         FactsOK(Facts'), PollerOK(poller[p], Facts')
  PROVE  LET r == After([poller[p] EXCEPT !.mem = m])
         IN  PollerOK(r, Facts') /\ r.alive /\ r.mem = m
<1> DEFINE q == poller[p]
           t == [q EXCEPT !.mem = m]
<1>1. q \in Task
  BY AliveIs
<1>2. /\ t \in Task /\ t.alive = q.alive /\ t.at = q.at
      /\ t.todo = q.todo /\ t.seen = q.seen
      /\ t.newest = q.newest /\ t.baseline = q.baseline /\ t.mem = m
  <2>1. m \in Memory
    BY DEF MemOK
  <2> QED BY <1>1, <2>1, WithMemory
<1> HIDE DEF t
<1>3. Loose(t.mem, Head(q.todo), Facts')
  BY <1>2, SameCover DEF PollerOK
<1>4. PollerOK(After(t), Facts') /\ After(t).mem = t.mem /\ After(t).alive
  BY <1>2, <1>3, AfterIs, Zenon
<1> QED BY <1>2, <1>4 DEF t

LEMMA DeleteRefusedKeeps ==
  ASSUME IInv, NEW p \in Poller, DeleteRefused(p) PROVE IInv'
<1> DEFINE q == poller[p]
           e == Head(q.todo)
           i == q.mem.thread[e]
           x == "locked"
           removing == Removing(q, e)
           locked == After(Forgotten(removing, e))
           kept == After(removing)
<1>1. /\ Closing(p, "archived") /\ ~Gone(e, i) /\ Spend("faults") /\ UNCHANGED World
      /\ \/ /\ post' = [post EXCEPT ![e][i].thread = x] /\ Is(p, locked) /\ file' = locked.mem
            /\ Remember({e}, "lost")
         \/ UNCHANGED <<post, history>> /\ Is(p, kept) /\ file' = kept.mem
  BY Zenon DEF DeleteRefused, Save, Locked
<1>2. x \in {"none", "open", "locked", "deleted"}
  OBVIOUS
<1> HIDE DEF x
<1>3. /\ q.alive /\ q.at \in Lists /\ q.todo # << >> /\ e \in Event /\ e \in Facts.left
  BY <1>1, ClosingIs, Zenon
<1>4. WorldOK /\ FactsOK(Facts) /\ q \in Task
  BY <1>3, AliveIs
<1>5. left' \in [Counter -> Nat] /\ Notes
  <2>1. left' \in [Counter -> Nat]
    BY <1>1, <1>4, SpendIs, Zenon DEF Counter
  <2> QED BY <1>1, <1>3, <2>1, Zenon DEF Notes
<1>6. /\ post' \in [Event -> Seq(PostState)]
      /\ \A d \in Event : Len(post[d]) <= Len(post'[d])
      /\ \A d \in Event : Facts'.standing[d] \subseteq Facts.standing[d]
  <2>1. CASE post' = [post EXCEPT ![e][i].thread = x]
    BY <1>1, <1>2, <1>3, <1>4, <2>1, ThreadMoves, Zenon
  <2>2. CASE post' = post
    BY <1>4, <2>2, PostsStay, SameStands
  <2> QED BY <1>1, <2>1, <2>2, Zenon
<1>7. /\ FactsOK(Facts') /\ PollerOK(q, Facts') /\ MemOK(q.mem, Facts') /\ e \in Facts'.left
  BY <1>1, <1>3, <1>5, <1>6, StepGives, Zenon
<1>8. PICK m : /\ removing = [q EXCEPT !.mem = m] /\ MemOK(m, Facts')
               /\ \A d \in Event : Same(q.mem, m, d)
  BY <1>3, <1>4, <1>7, RemovingIs
<1>9. CASE Is(p, locked) /\ file' = locked.mem /\ Remember({e}, "lost")
  <2>1. /\ removing \in Task /\ removing.alive = q.alive /\ removing.at = q.at
        /\ removing.todo = q.todo /\ removing.seen = q.seen /\ removing.newest = q.newest
        /\ removing.baseline = q.baseline /\ removing.mem = m
    <3>1. m \in Memory
      BY <1>8 DEF MemOK
    <3> HIDE DEF removing
    <3> QED BY <1>4, <1>8, <3>1, WithMemory
  <2>2. e \in Facts'.excused
    BY <1>3, <1>9 DEF Facts, Remember
  <2>3. e \notin Facts'.owed
    BY <1>7 DEF FactsOK
  <2> HIDE DEF removing
  <2>4. PollerOK(locked, Facts') /\ locked.alive
    BY <1>3, <1>7, <1>8, <2>1, <2>2, <2>3, ForgetEnds, Zenon
  <2> QED BY <1>1, <1>3, <1>5, <1>6, <1>9, <2>4, StepEnds, Zenon
<1>10. CASE Is(p, kept) /\ file' = kept.mem
  <2> HIDE DEF removing
  <2>1. kept = After([q EXCEPT !.mem = m])
    BY <1>8
  <2>2. PollerOK(kept, Facts') /\ kept.alive
    BY <1>3, <1>7, <1>8, <2>1, KeepEnds
  <2> QED BY <1>1, <1>3, <1>5, <1>6, <1>10, <2>2, StepEnds, Zenon
<1> QED BY <1>1, <1>9, <1>10, Zenon

LEMMA LockOverKeeps ==
  ASSUME IInv, NEW p \in Poller, LockOver(p) PROVE IInv'
<1> DEFINE q == poller[p]
           e == Head(q.todo)
           i == q.mem.thread[e]
           x == "locked"
           n == rev[e]
           r == After(Forgotten(q, e))
<1>1. /\ Closing(p, "over") /\ ~Gone(e, i) /\ UNCHANGED World /\ UNCHANGED <<history, left>>
      /\ post' = [post EXCEPT ![e][i] = [@ EXCEPT !.thread = x, !.shows = n]]
      /\ Is(p, r) /\ file' = r.mem
  BY Zenon DEF LockOver, Save
<1>2. x \in {"none", "open", "locked", "deleted"}
  OBVIOUS
<1> HIDE DEF x
<1>3. /\ q.alive /\ q.at \in Lists /\ q.todo # << >> /\ e \in Event /\ i # 0
      /\ e \in Facts.left /\ e \in Facts.over /\ i \in 0..Facts.posts[e]
      /\ Loose(q.mem, e, Facts)
  BY <1>1, ClosingIs, Zenon
<1>4. WorldOK /\ FactsOK(Facts) /\ q \in Task
  BY <1>3, AliveIs
<1>5. left' \in [Counter -> Nat] /\ Notes
  BY <1>1, <1>4, LeftStays, Zenon DEF Notes
<1>6. /\ post' \in [Event -> Seq(PostState)]
      /\ \A d \in Event : Len(post[d]) <= Len(post'[d])
      /\ \A d \in Event : Facts'.standing[d] \subseteq Facts.standing[d]
  <2>1. n \in Nat
    BY <1>3, <1>4 DEF WorldOK
  <2> HIDE DEF n
  <2> QED BY <1>1, <1>2, <1>3, <1>4, <2>1, CardMoves, Zenon
<1>7. /\ FactsOK(Facts') /\ PollerOK(q, Facts') /\ MemOK(q.mem, Facts') /\ e \in Facts'.left
      /\ e \in Facts'.over /\ Grows(Facts, Facts')
  BY <1>1, <1>3, <1>5, <1>6, StepGives, Zenon
<1>8. \/ e \in Facts'.excused
      \/ e \in Facts'.over /\ \E j \in 0..Facts'.posts[e] : Facts'.standing[e] \subseteq {j}
  <2>1. e \in Facts.excused \/ \E j \in 0..Facts.posts[e] : Facts.standing[e] \subseteq {j}
    BY <1>3, Zenon DEF Loose, Tight, Kept, Retired
  <2>2. 0..Facts.posts[e] \subseteq 0..Facts'.posts[e]
    <3>1. Facts.posts[e] \in Nat /\ Facts'.posts[e] \in Nat /\ Facts.posts[e] <= Facts'.posts[e]
      BY <1>3, <1>4, <1>7 DEF Grows, FactsOK
    <3> QED BY <3>1
  <2> QED BY <1>3, <1>6, <1>7, <2>1, <2>2, Zenon DEF Grows
<1>9. \A d \in Event : Same(q.mem, q.mem, d)
  BY DEF Same
<1>10. e \notin Facts'.owed
  BY <1>7 DEF FactsOK
<1>11. PollerOK(r, Facts') /\ r.alive
  BY <1>3, <1>4, <1>7, <1>8, <1>9, <1>10, ForgetEnds, Zenon
<1> HIDE DEF r
<1> QED BY <1>1, <1>3, <1>5, <1>6, <1>11, StepEnds, Zenon

LEMMA LockCancelledKeeps ==
  ASSUME IInv, NEW p \in Poller, LockCancelled(p) PROVE IInv'
<1> DEFINE q == poller[p]
           e == Head(q.todo)
           i == q.mem.thread[e]
           x == "locked"
           n == IF q.mem.card[e] THEN rev[e] ELSE post[e][i].shows
           stamped == IF q.mem.card[e] THEN [q EXCEPT !.mem.shown[e] = rev[e]] ELSE q
           r == After(stamped)
<1>a. /\ Closing(p, "cancelled") /\ post[e][i].thread = "open"
      /\ UNCHANGED World /\ UNCHANGED <<history, left>>
  BY Zenon DEF LockCancelled
<1>b. post' = [post EXCEPT ![e][i] = [@ EXCEPT !.thread = x, !.shows = n]]
  BY Zenon DEF LockCancelled
<1>c. Is(p, r) /\ file' = stamped.mem
  BY Zenon DEF LockCancelled, Save
<1>1. /\ Closing(p, "cancelled") /\ post[e][i].thread = "open"
      /\ UNCHANGED World /\ UNCHANGED <<history, left>>
      /\ post' = [post EXCEPT ![e][i] = [@ EXCEPT !.thread = x, !.shows = n]]
      /\ Is(p, r) /\ file' = stamped.mem
  BY <1>a, <1>b, <1>c, Zenon
<1>2. x \in {"none", "open", "locked", "deleted"} /\ ~Gone(e, i)
  BY <1>1, Zenon DEF Gone
<1> HIDE DEF x
<1>3. q.alive /\ q.at \in Lists /\ q.todo # << >> /\ e \in Event
  BY <1>1, ClosingIs, Zenon
<1>4. WorldOK /\ FactsOK(Facts) /\ q \in Task /\ rev[e] \in Nat
  BY <1>3, AliveIs DEF WorldOK
<1>5. left' \in [Counter -> Nat] /\ Notes
  BY <1>1, <1>4, LeftStays, Zenon DEF Notes
<1>6. /\ post' \in [Event -> Seq(PostState)]
      /\ \A d \in Event : Len(post[d]) <= Len(post'[d])
      /\ \A d \in Event : Facts'.standing[d] \subseteq Facts.standing[d]
  <2>1. i \in DOMAIN post[e] => n \in Nat
    <3>1. i \in DOMAIN post[e] => post[e][i].shows \in Nat
      BY <1>3, <1>4, PostsAre DEF PostState
    <3> QED BY <1>4, <3>1, Zenon
  <2> HIDE DEF n
  <2> QED BY <1>1, <1>2, <1>3, <1>4, <2>1, CardMoves, ZenonT(30)
<1>7. FactsOK(Facts') /\ PollerOK(q, Facts') /\ MemOK(q.mem, Facts')
  BY <1>1, <1>3, <1>5, <1>6, StepGives, Zenon
<1>8. PICK m : /\ stamped = [q EXCEPT !.mem = m] /\ MemOK(m, Facts')
               /\ \A d \in Event : Same(q.mem, m, d)
  <2>1. CASE q.mem.card[e]
    BY <1>3, <1>4, <1>7, <2>1, StampIs
  <2>2. CASE ~q.mem.card[e]
    <3>1. q = [q EXCEPT !.mem = q.mem]
      BY <1>4 DEF Task
    <3> QED BY <1>7, <2>2, <3>1 DEF Same
  <2> QED BY <2>1, <2>2
<1> HIDE DEF stamped
<1>9. PollerOK(r, Facts') /\ r.alive /\ r.mem = m
  BY <1>3, <1>7, <1>8, KeepEnds
<1>10. file' = r.mem
  BY <1>1, <1>4, <1>8, <1>9, WithMemory, Zenon DEF MemOK
<1> HIDE DEF r
<1> QED BY <1>1, <1>3, <1>5, <1>6, <1>9, <1>10, StepEnds, Zenon

LEMMA StampCancelledKeeps ==
  ASSUME IInv, NEW p \in Poller, StampCancelled(p) PROVE IInv'
<1> DEFINE q == poller[p]
           e == Head(q.todo)
           n == q.seen[e].rev
           stamped == [q EXCEPT !.mem.shown[e] = n]
           r == After(stamped)
<1>a. Is(p, r) /\ Save(stamped)
  BY Zenon DEF StampCancelled
<1>1. /\ Closing(p, "cancelled") /\ UNCHANGED World /\ Quiet /\ Is(p, r) /\ file' = stamped.mem
  BY <1>a, Zenon DEF StampCancelled, Save
<1>2. q.alive /\ q.at \in Lists /\ q.todo # << >> /\ e \in Event
  BY <1>1, ClosingIs, Zenon
<1>3. WorldOK /\ FactsOK(Facts) /\ q \in Task /\ n \in Nat
  <2>1. WorldOK /\ FactsOK(Facts) /\ q \in Task
    BY <1>2, AliveIs
  <2> QED BY <1>2, <2>1, FieldsOfTask
<1>4. left' \in [Counter -> Nat] /\ Notes /\ post' = post
  BY <1>1, <1>3, LeftStays DEF Notes, Quiet
<1>5. /\ post' \in [Event -> Seq(PostState)]
      /\ \A d \in Event : Len(post[d]) <= Len(post'[d])
      /\ \A d \in Event : Facts'.standing[d] \subseteq Facts.standing[d]
  BY <1>3, <1>4, PostsStay, SameStands
<1>6. FactsOK(Facts') /\ PollerOK(q, Facts') /\ MemOK(q.mem, Facts')
  BY <1>1, <1>2, <1>4, <1>5, StepGives
<1> HIDE DEF n
<1>7. PICK m : /\ stamped = [q EXCEPT !.mem = m] /\ MemOK(m, Facts')
               /\ \A d \in Event : Same(q.mem, m, d)
  BY <1>2, <1>3, <1>6, StampIs, ZenonT(30)
<1> HIDE DEF stamped
<1>8. PollerOK(r, Facts') /\ r.alive /\ r.mem = m
  BY <1>2, <1>6, <1>7, KeepEnds
<1>9. file' = r.mem
  BY <1>1, <1>3, <1>7, <1>8, WithMemory DEF MemOK
<1> HIDE DEF r
<1> QED BY <1>1, <1>2, <1>4, <1>5, <1>8, <1>9, StepEnds

LEMMA LockRefusedKeeps ==
  ASSUME IInv, NEW p \in Poller, LockRefused(p) PROVE IInv'
<1> DEFINE q == poller[p]
           e == Head(q.todo)
           r == After(Forgotten(q, e))
<1>1. /\ Closing(p, "over") \/ Closing(p, "cancelled")
      /\ Spend("faults") /\ UNCHANGED World /\ post' = post
      /\ \/ Is(p, After(q)) /\ UNCHANGED <<file, history>>
         \/ Is(p, r) /\ file' = r.mem /\ Remember({e}, "lost")
  BY DEF LockRefused, Save
<1>2. q.alive /\ q.at \in Lists /\ q.at # "deliver" /\ q.todo # << >> /\ e \in Event /\ e \in Facts.left
  BY <1>1, ClosingIs, Zenon DEF Lists
<1>3. WorldOK /\ FactsOK(Facts) /\ q \in Task
  BY <1>2, AliveIs
<1>4. left' \in [Counter -> Nat] /\ Notes
  <2>1. left' \in [Counter -> Nat]
    BY <1>1, <1>3, SpendIs DEF Counter
  <2> QED BY <1>1, <1>2, <2>1 DEF Notes
<1>5. /\ post' \in [Event -> Seq(PostState)]
      /\ \A d \in Event : Len(post[d]) <= Len(post'[d])
      /\ \A d \in Event : Facts'.standing[d] \subseteq Facts.standing[d]
  BY <1>1, <1>3, PostsStay, SameStands
<1>6. FactsOK(Facts') /\ PollerOK(q, Facts') /\ MemOK(q.mem, Facts') /\ e \in Facts'.left
  BY <1>1, <1>2, <1>4, <1>5, StepGives
<1>7. \A d \in Event : Same(q.mem, q.mem, d)
  BY DEF Same
<1>8. CASE Is(p, After(q)) /\ file' = file
  <2>1. q = [q EXCEPT !.mem = q.mem]
    BY <1>3 DEF Task
  <2>2. PollerOK(After(q), Facts') /\ After(q).alive /\ After(q).mem = q.mem
    BY <1>2, <1>6, <1>7, <2>1, KeepEnds
  <2> QED BY <1>1, <1>2, <1>4, <1>5, <1>8, <2>2, StepEnds
<1>9. CASE Is(p, r) /\ file' = r.mem /\ Remember({e}, "lost")
  <2>1. e \in Facts'.excused
    BY <1>2, <1>9 DEF Facts, Remember
  <2>2. e \notin Facts'.owed
    BY <1>6 DEF FactsOK
  <2>3. PollerOK(r, Facts') /\ r.alive
    BY <1>2, <1>3, <1>6, <1>7, <2>1, <2>2, ForgetEnds
  <2> HIDE DEF r
  <2> QED BY <1>1, <1>2, <1>4, <1>5, <1>9, <2>3, StepEnds
<1> QED BY <1>1, <1>8, <1>9

----------------------------------------------------------------------------
(* checkRestoredEvents and checkEventRosterSync.                           *)

LEMMA RestoreKeeps ==
  ASSUME IInv, NEW p \in Poller, Restore(p) PROVE IInv'
<1> DEFINE q == poller[p]
           e == Head(q.todo)
           tail == Tail(q.todo)
           t == [q EXCEPT !.then = "restored"]
           rest == [q EXCEPT !.todo = tail, !.then = "restored"]
           due == status[e] \in {"scheduled", "live"} /\ q.mem.thread[e] = 0
           next == IF due THEN Attempt(rest, e) ELSE rest
           r == IF next.at = "deliver" THEN next ELSE Settled(next)
<1>1. /\ q.alive /\ q.at = "restored" /\ q.todo # << >> /\ Is(p, r)
      /\ file' = (IF next.mem # q.mem THEN next.mem ELSE file)
      /\ UNCHANGED World /\ Quiet
  BY Zenon DEF Restore, Busy, Phase, Save
<1>2. /\ WorldOK /\ FactsOK(Facts) /\ PollerOK(q, Facts) /\ q \in Task /\ MemOK(q.mem, Facts)
      /\ q.mem \in Memory /\ q.at \in Lists
  BY <1>1, AliveIs, Zenon DEF Lists
<1>3. /\ e \in Facts.present /\ e \in Event /\ tail \in Seq(Event)
  <2>1. q.todo \in Seq(Event)
    BY <1>2, FieldsOfTask
  <2> QED BY <1>1, <1>2, <2>1, BusyIs, TailIs, Zenon
<1>4. /\ rest \in Task /\ rest.alive = q.alive /\ rest.mem = q.mem /\ rest.at = q.at
      /\ rest.then = "restored" /\ rest.newest = q.newest /\ rest.seen = q.seen
      /\ rest.baseline = q.baseline /\ rest.todo = tail
  BY <1>2, <1>3 DEF Task
<1>5. /\ t \in Task /\ t.alive = q.alive /\ t.mem = q.mem /\ t.at = q.at
      /\ t.newest = q.newest /\ t.seen = q.seen
      /\ t.baseline = q.baseline /\ t.todo = q.todo
      /\ rest = [t EXCEPT !.todo = tail]
  BY <1>2 DEF Task
<1>6. After(t) = Settled(rest)
  <2>1. Tail(t.todo) = tail
    BY <1>5
  <2> HIDE DEF t, tail
  <2> QED BY <1>5, <2>1, Zenon DEF After
<1> HIDE DEF tail, rest, t
<1>7. \A d \in Event : Loose(q.mem, d, Facts)
  BY <1>2 DEF PollerOK
<1>8. PollerOK(Settled(rest), Facts) /\ Settled(rest).mem = q.mem /\ Settled(rest).alive
  <2>1. \A d \in Event : Same(q.mem, t.mem, d)
    BY <1>5 DEF Same
  <2> QED BY <1>1, <1>2, <1>3, <1>5, <1>6, <1>7, <2>1, AfterIs, Zenon
<1>9. PollerOK(r, Facts) /\ r.alive /\ r.mem = next.mem
  <2>1. CASE next = rest
    <3>1. r = Settled(rest)
      BY <1>1, <1>4, <2>1, Zenon
    <3> QED BY <1>4, <1>8, <2>1, <3>1
  <2>2. CASE due /\ q.mem.pending[e] # "ambiguous" /\ kind[e] = "young_flash"
    <3> DEFINE x == "undo_window"
    <3>0. x \in Pendings \ {"none"}
      BY DEF Pendings
    <3>1. next = [rest EXCEPT !.mem.pending[e] = x]
      BY <1>4, <2>2 DEF Attempt
    <3> HIDE DEF x
    <3> DEFINE m == [q.mem EXCEPT !.pending[e] = x]
    <3>2. /\ MemOK(m, Facts) /\ Beside(q.mem, m, e) /\ Told(m, e)
          /\ m.thread[e] = q.mem.thread[e] /\ m.parent[e] = q.mem.parent[e]
      BY <1>2, <1>3, <3>0, MemoryPends
    <3>3. next = [rest EXCEPT !.mem = m]
      BY <1>2, <1>4, <3>1 DEF Task
    <3>4. m \in Memory
      BY <3>2 DEF MemOK
    <3> HIDE DEF m, next
    <3> DEFINE u == [t EXCEPT !.mem = m]
    <3>5. /\ u \in Task /\ u.alive = q.alive /\ u.mem = m /\ u.at = q.at
          /\ u.newest = q.newest /\ u.seen = q.seen
          /\ u.baseline = q.baseline /\ u.todo = q.todo
      BY <1>5, <3>4, WithMemory
    <3>6. next = [u EXCEPT !.todo = tail]
      BY <1>5, <3>3, <3>4 DEF Task
    <3> HIDE DEF u
    <3>7. After(u) = Settled(next)
      <4>1. Tail(u.todo) = tail
        BY <3>5 DEF tail
      <4> QED BY <3>6, <4>1 DEF After
    <3>8. Loose(u.mem, e, Facts)
      <4>1. e \notin Facts.over
        BY <2>2, FieldsOfFacts
      <4>2. Tight(q.mem, e, Facts)
        BY <1>3, <1>7, <4>1 DEF Loose, Retired
      <4>3. Tight(m, e, Facts)
        BY <3>2, <4>2, Zenon DEF Tight, Kept
      <4> QED BY <3>5, <4>3 DEF Loose
    <3>9. \A d \in Event : d # e => Same(q.mem, u.mem, d)
      BY <3>2, <3>5 DEF Beside
    <3>10. PollerOK(After(u), Facts) /\ After(u).mem = u.mem /\ After(u).alive
      BY <1>1, <1>2, <1>3, <3>2, <3>5, <3>8, <3>9, AfterIs
    <3>11. next.at # "deliver" /\ next.mem = m
      BY <1>1, <1>4, <3>3, <3>4 DEF Task
    <3> QED BY <3>5, <3>7, <3>10, <3>11
  <2>3. CASE due /\ q.mem.pending[e] # "ambiguous" /\ kind[e] # "young_flash"
    <3> DEFINE u == [rest EXCEPT !.at = "deliver", !.event = e, !.detail = rev[e]]
    <3>1. next = u
      BY <1>4, <2>3 DEF Attempt
    <3>2. rev[e] \in Nat
      BY <1>2, <1>3 DEF WorldOK
    <3> HIDE DEF next
    <3>3. /\ u \in Task /\ u.alive = q.alive /\ u.at = "deliver" /\ u.then = q.at
          /\ u.newest = q.newest /\ u.seen = q.seen /\ u.baseline = q.baseline /\ u.todo = tail
          /\ u.mem = q.mem /\ u.event = e
      BY <1>1, <1>3, <1>4, <3>2 DEF Task
    <3> HIDE DEF u
    <3>4. ~q.mem.card[e]
      BY <1>2, <1>3, <2>3 DEF MemOK
    <3>5. Tight(q.mem, e, Facts)
      <4>1. e \notin Facts.over
        BY <2>3, FieldsOfFacts
      <4> QED BY <1>3, <1>7, <4>1 DEF Loose, Retired
    <3>6. PollerOK(u, Facts)
      BY <1>1, <1>2, <3>3, <3>4, <3>5, DeliveryBegins DEF tail
    <3> QED BY <1>1, <3>1, <3>3, <3>6
  <2>4. CASE ~due
    <3>1. next = rest
      BY <2>4
    <3> QED BY <2>1, <3>1, Zenon
  <2>5. CASE due /\ q.mem.pending[e] = "ambiguous"
    <3>1. Attempt(rest, e) = rest
      BY <1>4, <2>5 DEF Attempt
    <3>2. next = rest
      BY <2>5, <3>1
    <3> QED BY <2>1, <3>2
  <2> QED BY <2>2, <2>3, <2>4, <2>5, Zenon
<1> HIDE DEF next, r
<1>10. left' \in [Counter -> Nat] /\ UNCHANGED <<post, history>>
  BY <1>1, <1>2, LeftStays DEF Quiet
<1>11. \/ file' = r.mem
       \/ file' = file /\ r.mem = poller[p].mem /\ poller[p].at # "deliver"
  BY <1>1, <1>9
<1> QED BY <1>1, <1>9, <1>10, <1>11, QuietKeeps

LEMMA SyncFailsKeeps ==
  ASSUME IInv, NEW p \in Poller, SyncFails(p) PROVE IInv'
<1> DEFINE q == poller[p]
<1>1. /\ q.alive /\ q.at = "roster" /\ q.todo # << >> /\ Spend("faults")
      /\ Is(p, After(q)) /\ file' = file /\ UNCHANGED World /\ UNCHANGED <<post, history>>
  BY DEF SyncFails, Busy, Phase
<1>2. /\ WorldOK /\ FactsOK(Facts) /\ PollerOK(q, Facts) /\ q \in Task /\ MemOK(q.mem, Facts)
      /\ q.at \in Lists
  BY <1>1, AliveIs DEF Lists
<1>3. Head(q.todo) \in Event
  BY <1>1, <1>2, BusyIs
<1>4. (\A d \in Event : Same(q.mem, q.mem, d)) /\ Loose(q.mem, Head(q.todo), Facts)
  BY <1>2, <1>3 DEF Same, PollerOK
<1>5. PollerOK(After(q), Facts) /\ After(q).mem = q.mem /\ After(q).alive
  BY <1>1, <1>2, <1>4, AfterIs
<1>6. left' \in [Counter -> Nat]
  BY <1>1, <1>2, SpendIs DEF Counter
<1> QED BY <1>1, <1>5, <1>6, QuietKeeps

LEMMA SyncKeeps ==
  ASSUME IInv, NEW p \in Poller, Sync(p) PROVE IInv'
<1> DEFINE q == poller[p]
           e == Head(q.todo)
           i == q.mem.thread[e]
           x == "open"
           n == IF q.mem.card[e] THEN rev[e] ELSE post[e][i].shows
           v == q.seen[e].rev
           due == /\ q.seen[e].status \in {"scheduled", "live", "archived"}
                  /\ q.mem.shown[e] # v /\ ~Gone(e, i)
           stamped == IF due /\ q.mem.card[e] THEN [q EXCEPT !.mem.shown[e] = v] ELSE q
           r == After(stamped)
<1>a. q.alive /\ q.at = "roster" /\ q.todo # << >> /\ UNCHANGED World /\ UNCHANGED <<history, left>>
  BY Zenon DEF Sync, Busy, Phase
<1>b. post' = IF due THEN [post EXCEPT ![e][i] = [@ EXCEPT !.thread = x, !.shows = n]] ELSE post
  BY Zenon DEF Sync
<1>c. Is(p, r)
  BY Zenon DEF Sync
<1>d. file' = IF stamped.mem # q.mem THEN stamped.mem ELSE file
  BY Zenon DEF Sync, Save
<1>1. /\ WorldOK /\ FactsOK(Facts) /\ q \in Task /\ q.at \in Lists /\ e \in Event
      /\ rev[e] \in Nat /\ v \in Nat
  <2>1. /\ WorldOK /\ FactsOK(Facts) /\ q \in Task /\ q.at \in Lists
    BY <1>a, AliveIs DEF Lists
  <2>2. e \in Event
    BY <1>a, <2>1, BusyIs
  <2>3. rev[e] \in Nat
    BY <2>1, <2>2 DEF WorldOK
  <2>4. v \in Nat
    BY <2>1, <2>2, FieldsOfTask
  <2> QED BY <2>1, <2>2, <2>3, <2>4
<1>2. x \in {"none", "open", "locked", "deleted"} /\ (due => ~Gone(e, i))
  OBVIOUS
<1>3. left' \in [Counter -> Nat] /\ Notes
  BY <1>a, <1>1, LeftStays DEF Notes
<1> HIDE DEF x, due
<1>4. /\ post' \in [Event -> Seq(PostState)]
      /\ \A d \in Event : Len(post[d]) <= Len(post'[d])
      /\ \A d \in Event : Facts'.standing[d] \subseteq Facts.standing[d]
  <2>1. CASE due
    <3>1. i \in DOMAIN post[e] => n \in Nat
      <4>1. i \in DOMAIN post[e] => post[e][i].shows \in Nat
        BY <1>1, PostsAre DEF PostState
      <4> QED BY <1>1, <4>1, Zenon
    <3>2. post' = [post EXCEPT ![e][i] = [@ EXCEPT !.thread = x, !.shows = n]]
      BY <1>b, <2>1, Zenon
    <3> HIDE DEF n
    <3> QED BY <1>1, <1>2, <2>1, <3>1, <3>2, CardMoves, ZenonT(30)
  <2>2. CASE ~due
    BY <1>b, <1>1, <2>2, PostsStay, SameStands, Zenon
  <2> QED BY <2>1, <2>2
<1>5. FactsOK(Facts') /\ PollerOK(q, Facts') /\ MemOK(q.mem, Facts')
  BY <1>a, <1>3, <1>4, StepGives
<1> HIDE DEF v
<1>6. PICK m : /\ stamped = [q EXCEPT !.mem = m] /\ MemOK(m, Facts')
               /\ \A d \in Event : Same(q.mem, m, d)
  <2>1. CASE due /\ q.mem.card[e]
    BY <1>1, <1>5, <2>1, StampIs, ZenonT(30)
  <2>2. CASE ~(due /\ q.mem.card[e])
    <3>1. q = [q EXCEPT !.mem = q.mem]
      BY <1>1 DEF Task
    <3> QED BY <1>5, <2>2, <3>1 DEF Same
  <2> QED BY <2>1, <2>2
<1> HIDE DEF stamped
<1>7. PollerOK(r, Facts') /\ r.alive /\ r.mem = m
  BY <1>a, <1>1, <1>5, <1>6, KeepEnds
<1>8. stamped.mem = m
  BY <1>1, <1>6, WithMemory DEF MemOK
<1>9. \/ file' = r.mem
      \/ file' = file /\ r.mem = poller[p].mem /\ poller[p].at # "deliver"
  BY <1>a, <1>d, <1>7, <1>8
<1> HIDE DEF r
<1> QED BY <1>a, <1>c, <1>3, <1>4, <1>7, <1>9, StepEnds

----------------------------------------------------------------------------
(* The website.                                                            *)

\* The pollers are not aware of what changes around them.
LEMMA AroundKeeps ==
  ASSUME IInv, WorldOK', UNCHANGED <<poller, registered, file, post>>, Grows(Facts, Facts'),
         Overlapped' <=> Overlapped
  PROVE  IInv'
<1>1. FactsOK(Facts) /\ FactsOK(Facts')
  BY NextWorldGivesFacts DEF IInv
<1>2. \A e \in Event : Facts'.standing[e] \subseteq Facts.standing[e]
  BY SameStands
<1>3. PollersOK'
  <2> SUFFICES ASSUME NEW o \in Poller
               PROVE  IF poller[o].alive THEN PollerOK(poller[o], Facts') ELSE poller[o] = Stopped
    BY DEF PollersOK
  <2>1. CASE poller[o].alive
    BY <1>1, <1>2, <2>1, PollerGrows DEF IInv, PollersOK
  <2>2. CASE ~poller[o].alive
    BY <2>2 DEF IInv, PollersOK
  <2> QED BY <2>1, <2>2
<1>4. ManagerOK'
  BY DEF IInv, ManagerOK, InFlight
<1>5. FileOK'
  <2>1. MemOK(file', Facts')
    BY <1>1, MemoryGrows DEF IInv, FileOK
  <2>2. \A e \in Event : Loose(file', e, Facts') \/ Unrecorded(e)'
    <3> TAKE e \in Event
    <3>1. Loose(file, e, Facts) => Loose(file, e, Facts')
      BY <1>1, <1>2, CoverGrows
    <3>2. Loose(file, e, Facts) \/ Unrecorded(e)
      BY DEF IInv, FileOK
    <3>3. Unrecorded(e) => Unrecorded(e)'
      BY DEF Unrecorded
    <3> QED BY <3>1, <3>2, <3>3
  <2> QED BY <2>1, <2>2 DEF IInv, FileOK
<1> QED BY <1>1, <1>3, <1>4, <1>5 DEF IInv

LEMMA SameLengths ==
  ASSUME WorldOK, post' = post PROVE \A e \in Event : Facts.posts[e] <= Facts'.posts[e]
<1>1. \A e \in Event : Len(post[e]) \in Nat
  BY PostsAre
<1> QED BY <1>1 DEF Facts

LEMMA CreateIsFine ==
  ASSUME IInv, NEW e \in Event, NEW flash \in BOOLEAN, Create(e, flash) PROVE IInv'
<1>1. /\ status[e] = "absent" /\ \A d \in Event : d < e => status[d] # "absent"
      /\ status' = [status EXCEPT ![e] = "scheduled"] /\ rev' = [rev EXCEPT ![e] = 1]
      /\ UNCHANGED <<post, file, poller, registered, delivery, history>>
  BY DEF Create
<1>2. WorldOK
  BY DEF IInv
<1>3. kind' \in [Event -> {"organized", "young_flash", "flash"}]
      /\ \A d \in Event : d # e => kind'[d] = kind[d]
  BY <1>2 DEF Create, WorldOK
<1>4. left' \in [Counter -> Nat]
  <2>1. /\ left \in [Counter -> Nat] /\ left["creates"] > 0 /\ (flash => left["flashes"] > 0)
        /\ left["creates"] \in Nat /\ left["flashes"] \in Nat
    BY <1>2 DEF WorldOK, Create, Counter
  <2> DEFINE c == left["creates"] - 1
             f == IF flash THEN left["flashes"] - 1 ELSE left["flashes"]
  <2>2. c \in Nat /\ f \in Nat
    BY <2>1
  <2>3. left' = [left EXCEPT !["creates"] = c, !["flashes"] = f]
    BY DEF Create
  <2> HIDE DEF c, f
  <2> QED BY <2>1, <2>2, <2>3
<1>5. WorldOK'
  <2>1. /\ status' \in [Event -> Statuses] /\ rev' \in [Event -> Nat]
        /\ status'[e] = "scheduled" /\ \A d \in Event : d # e => status'[d] = status[d]
    BY <1>1, <1>2 DEF WorldOK, Statuses
  <2>2. ASSUME NEW x \in Event
        PROVE  /\ status'[x] \notin {"absent", "scheduled"} => "left" \in history[x]
               /\ "left" \in history[x] => status'[x] # "absent"
               /\ \A d \in Event : d < x /\ status'[x] # "absent" => status'[d] # "absent"
    BY <1>1, <1>2, <2>1 DEF WorldOK
  <2> QED BY <1>1, <1>2, <1>3, <1>4, <2>1, <2>2 DEF WorldOK
<1>6. Grows(Facts, Facts')
  <2>1. e \notin Facts.present
    BY <1>1, FieldsOfFacts
  <2>2. \A d \in Event : d # e => status'[d] = status[d]
    BY <1>1, <1>2 DEF WorldOK
  <2>3. status'[e] = "scheduled"
    BY <1>1, <1>2 DEF WorldOK
  <2>4. Facts.present \subseteq Facts'.present /\ Facts.over \subseteq Facts'.over
    BY <1>1, <2>2, <2>3 DEF Facts
  <2>5. /\ Facts.left \subseteq Facts'.left /\ Facts.folded \subseteq Facts'.folded
        /\ Facts.excused \subseteq Facts'.excused
    BY <1>1 DEF Facts
  <2>6. Facts'.owed \cap Facts.present \subseteq Facts.owed
    BY <1>1, <2>1, <2>2 DEF Facts
  <2>7. Facts.pings \cap Facts.present \subseteq Facts'.pings
    BY <1>1, <1>3, <2>1 DEF Facts
  <2>8. \A d \in Event : Facts.posts[d] <= Facts'.posts[d]
    BY <1>1, <1>2, SameLengths
  <2> QED BY <2>4, <2>5, <2>6, <2>7, <2>8 DEF Grows
<1>7. Overlapped' <=> Overlapped
  BY <1>1 DEF Overlapped
<1> QED BY <1>1, <1>5, <1>6, <1>7, AroundKeeps

LEMMA ChangeIsFine ==
  ASSUME IInv, NEW e \in Event, Change(e) PROVE IInv'
<1>1. PICK s : /\ s \in {m[2] : m \in {x \in Moves : x[1] = status[e]}}
               /\ status' = [status EXCEPT ![e] = s] /\ rev' = [rev EXCEPT ![e] = @ + 1]
               /\ IF s = "scheduled" THEN UNCHANGED history ELSE Remember({e}, "left")
  BY DEF Change
<1>2. /\ status[e] \in {"scheduled", "live", "cancelled", "archived"}
      /\ s \in {"scheduled", "live", "over", "cancelled", "archived"}
  BY <1>1 DEF Moves
<1>3. /\ UNCHANGED <<kind, post, file, poller, registered, delivery>> /\ Spend("changes")
  BY DEF Change
<1>4. WorldOK
  BY DEF IInv
<1>5. left' \in [Counter -> Nat]
  BY <1>3, <1>4, SpendIs DEF Counter
<1>6. /\ status' \in [Event -> Statuses] /\ rev' \in [Event -> Nat]
      /\ status'[e] = s /\ \A d \in Event : d # e => status'[d] = status[d]
  <2>1. status' \in [Event -> Statuses] /\ status'[e] = s
        /\ \A d \in Event : d # e => status'[d] = status[d]
    BY <1>1, <1>2, <1>4 DEF WorldOK, Statuses
  <2>2. rev' \in [Event -> Nat]
    BY <1>1, <1>4 DEF WorldOK
  <2> QED BY <2>1, <2>2
<1>7. /\ history' \in [Event -> SUBSET Marks]
      /\ history'[e] = IF s = "scheduled" THEN history[e] ELSE history[e] \cup {"left"}
      /\ \A d \in Event : d # e => history'[d] = history[d]
  <2> DEFINE x == "left"
  <2>1. x \in Marks /\ x = "left"
    BY DEF Marks
  <2> HIDE DEF x
  <2>2. history \in [Event -> SUBSET Marks]
    BY <1>4 DEF WorldOK
  <2>3. \/ s = "scheduled" /\ history' = history
        \/ /\ s # "scheduled"
           /\ history' = [d \in Event |-> IF d \in {e} THEN history[d] \cup {x} ELSE history[d]]
    BY <1>1, <2>1 DEF Remember
  <2>4. CASE s = "scheduled" /\ history' = history
    BY <2>2, <2>4
  <2>5. CASE /\ s # "scheduled"
             /\ history' = [d \in Event |-> IF d \in {e} THEN history[d] \cup {x} ELSE history[d]]
    <3>1. \A d \in Event : history[d] \cup {x} \in SUBSET Marks
      BY <2>1, <2>2
    <3> QED BY <2>1, <2>2, <2>5, <3>1
  <2> QED BY <2>3, <2>4, <2>5
<1>8. WorldOK'
  <2>1. ASSUME NEW x \in Event
        PROVE  /\ status'[x] \notin {"absent", "scheduled"} => "left" \in history'[x]
               /\ "left" \in history'[x] => status'[x] # "absent"
               /\ \A d \in Event : d < x /\ status'[x] # "absent" => status'[d] # "absent"
    <3>1. CASE x = e
      BY <1>2, <1>4, <1>6, <1>7, <3>1 DEF WorldOK
    <3>2. CASE x # e
      BY <1>2, <1>4, <1>6, <1>7, <3>2 DEF WorldOK
    <3> QED BY <3>1, <3>2
  <2> QED BY <1>3, <1>4, <1>5, <1>6, <1>7, <2>1, PostsStay DEF WorldOK
<1>9. Grows(Facts, Facts')
  <2>1. Facts.present \subseteq Facts'.present /\ Facts.over \subseteq Facts'.over
    BY <1>2, <1>6 DEF Facts
  <2>2. /\ Facts.left \subseteq Facts'.left /\ Facts.folded \subseteq Facts'.folded
        /\ Facts.excused \subseteq Facts'.excused
    <3>1. \A d \in Event : history[d] \subseteq history'[d]
      BY <1>7
    <3> QED BY <3>1 DEF Facts
  <2>3. \A d \in Facts'.owed : d \in Facts.owed
    <3> TAKE d \in Facts'.owed
    <3>1. d \in Event /\ status'[d] = "scheduled" /\ history'[d] \cap {"left", "folded"} = {}
      BY DEF Facts
    <3>2. CASE d = e
      <4>1. s = "scheduled" /\ history[e] \cap {"left", "folded"} = {}
        BY <1>6, <1>7, <3>1, <3>2
      <4>2. status[e] = "scheduled"
        BY <1>2, <1>4, <4>1 DEF WorldOK
      <4> QED BY <3>2, <4>1, <4>2 DEF Facts
    <3>3. CASE d # e
      BY <1>6, <1>7, <3>1, <3>3 DEF Facts
    <3> QED BY <3>2, <3>3
  <2>4. Facts'.pings = Facts.pings
    BY <1>3 DEF Facts
  <2>5. \A d \in Event : Facts.posts[d] <= Facts'.posts[d]
    BY <1>3, <1>4, SameLengths
  <2> QED BY <2>1, <2>2, <2>3, <2>4, <2>5 DEF Grows
<1>10. Overlapped' <=> Overlapped
  BY <1>7 DEF Overlapped
<1> QED BY <1>3, <1>8, <1>9, <1>10, AroundKeeps

LEMMA WindowClosesIsFine ==
  ASSUME IInv, NEW e \in Event, WindowCloses(e) PROVE IInv'
<1>1. /\ kind[e] = "young_flash" /\ kind' = [kind EXCEPT ![e] = "flash"]
      /\ UNCHANGED <<status, rev, post, file, poller, registered, delivery, history, left>>
  BY DEF WindowCloses
<1>2. WorldOK
  BY DEF IInv
<1>3. /\ kind' \in [Event -> {"organized", "young_flash", "flash"}]
      /\ \A d \in Event : kind'[d] = "organized" <=> kind[d] = "organized"
  BY <1>1, <1>2 DEF WorldOK
<1>4. WorldOK'
  BY <1>1, <1>2, <1>3 DEF WorldOK
<1>5. Facts' = Facts
  <2>1. {d \in Event : delivery' = "message" \/ (delivery' = "calendar" /\ kind'[d] # "organized")}
          = {d \in Event : delivery = "message" \/ (delivery = "calendar" /\ kind[d] # "organized")}
    BY <1>1, <1>3
  <2>2. \A d \in Event : Standing(d)' = Standing(d)
    BY <1>1 DEF Standing
  <2> QED BY <1>1, <2>1, <2>2 DEF Facts
<1>6. Grows(Facts, Facts')
  BY <1>2, <1>5, WorldGivesFacts, GrowsByNothing
<1>7. Overlapped' <=> Overlapped
  BY <1>1 DEF Overlapped
<1> QED BY <1>1, <1>4, <1>6, <1>7, AroundKeeps

----------------------------------------------------------------------------
(* The manager.                                                            *)

LEMMA IdleIs ==
  ASSUME NEW w, FactsOK(w), NEW m, MemOK(m, w), \A e \in Event : Loose(m, e, w),
         NEW boot \in {"list", "adopt", "poll", "done"}
  PROVE  /\ PollerOK(Idle(m, boot), w) /\ Idle(m, boot).mem = m /\ Idle(m, boot).alive = TRUE
         /\ Idle(m, boot).at = "idle" /\ Idle(m, boot).boot = boot
<1> DEFINE r == Idle(m, boot)
<1>1. /\ r \in Task /\ r.mem = m /\ r.alive = TRUE /\ r.at = "idle" /\ r.boot = boot
      /\ r.baseline = 0 /\ r.newest = 0 /\ r.todo = << >> /\ r.seen = Unseen
  <2>1. m \in Memory
    BY DEF MemOK
  <2>2. Unseen \in [Event -> [status : Statuses \cup {"unknown"}, rev : Nat]]
    BY DEF Unseen
  <2> QED BY <2>1, <2>2, EmptyIs DEF Idle, Task
<1> HIDE DEF r
<1>2. TaskOK(r, w)
  <2>1. \A e \in Event : ~(e <= 0)
    BY EventIs
  <2> QED BY <1>1, <2>1, EmptyIs DEF TaskOK
<1>3. SeenOK(r, w)
  BY <1>1 DEF SeenOK, Unseen
<1>4. DeliverOK(r, w) /\ BatchOK(r, w) /\ CloseOK(r)
  BY <1>1 DEF DeliverOK, BatchOK, CloseOK, Announcing
<1>5. PollerOK(r, w)
  BY <1>1, <1>2, <1>3, <1>4 DEF PollerOK
<1> QED BY <1>1, <1>5 DEF r

LEMMA EnsureKeeps ==
  ASSUME IInv, NEW p \in Poller, Ensure(p) PROVE IInv'
<1> DEFINE boot == IF file.seeded THEN "poll" ELSE "list"
           r == Idle(file, boot)
           busy == \E o \in Poller : InFlight(o)
<1>1. /\ registered = None /\ ~poller[p].alive /\ registered' = p
      /\ poller' = [poller EXCEPT ![p] = r]
      /\ history' = [e \in Event |-> IF busy THEN history[e] \cup {"overlap"} ELSE history[e]]
      /\ UNCHANGED <<file, left, status, rev, kind, post, delivery>>
  BY DEF Ensure, Users
<1>2. WorldOK /\ FactsOK(Facts) /\ MemOK(file, Facts)
  BY DEF IInv, FileOK
<1>3. history' \in [Event -> SUBSET Marks]
      /\ \A e \in Event : /\ history[e] \subseteq history'[e]
                          /\ "left" \in history'[e] <=> "left" \in history[e]
                          /\ "folded" \in history'[e] <=> "folded" \in history[e]
                          /\ busy => "overlap" \in history'[e]
                          /\ ~busy => history'[e] = history[e]
  <2> DEFINE x == "overlap"
  <2>1. x \in Marks /\ x # "left" /\ x # "folded" /\ x = "overlap"
    BY DEF Marks
  <2>2. history \in [Event -> SUBSET Marks]
    BY <1>2 DEF WorldOK
  <2> HIDE DEF busy
  <2>3. history' = [e \in Event |-> IF busy THEN history[e] \cup {x} ELSE history[e]]
    BY <1>1
  <2> HIDE DEF x
  <2>4. \A d \in Event : history[d] \cup {x} \in SUBSET Marks
    BY <2>1, <2>2
  <2> QED BY <2>1, <2>2, <2>3, <2>4
<1> HIDE DEF busy
<1>4. WorldOK'
  <2>1. post' \in [Event -> Seq(PostState)]
    BY <1>1, <1>2, PostsStay
  <2> QED BY <1>1, <1>2, <1>3, <2>1 DEF WorldOK
<1>5. FactsOK(Facts')
  BY <1>4, NextWorldGivesFacts
<1>6. Grows(Facts, Facts')
  <2>1. Facts'.present = Facts.present /\ Facts'.over = Facts.over /\ Facts'.pings = Facts.pings
    BY <1>1 DEF Facts
  <2>2. /\ Facts.left \subseteq Facts'.left /\ Facts.folded \subseteq Facts'.folded
        /\ Facts.excused \subseteq Facts'.excused
    BY <1>3 DEF Facts
  <2>3. Facts'.owed \subseteq Facts.owed
    BY <1>1, <1>3 DEF Facts
  <2>4. \A d \in Event : Facts.posts[d] <= Facts'.posts[d]
    BY <1>1, <1>2, SameLengths
  <2> QED BY <2>1, <2>2, <2>3, <2>4 DEF Grows
<1>7. \A e \in Event : Facts'.standing[e] \subseteq Facts.standing[e]
  BY <1>1, SameStands
<1>8. busy => Overlapped'
  BY <1>3 DEF Overlapped
<1>9. ~busy => \A o \in Poller : ~poller[o].alive
  <2>1. None \notin Poller
    BY BotAssumption DEF BotAssumption
  <2> QED BY <1>1, <2>1 DEF IInv, ManagerOK, busy
<1>10. Overlapped' => \A e \in Event : e \in Facts'.excused
  BY <1>4, NextOverlapExcuses
<1>11. MemOK(file, Facts')
  BY <1>2, <1>5, <1>6, MemoryGrows
<1>12. \A e \in Event : Loose(file, e, Facts')
  <2>1. CASE busy
    BY <1>8, <1>10, <2>1, ExcusedIsLoose
  <2>2. CASE ~busy
    <3>1. \A e \in Event : Loose(file, e, Facts)
      BY <1>9, <2>2 DEF IInv, FileOK, Unrecorded
    <3> QED BY <1>2, <1>5, <1>6, <1>7, <3>1, CoverGrows
  <2> QED BY <2>1, <2>2
<1>13. boot \in {"list", "adopt", "poll", "done"} /\ boot # "done"
  OBVIOUS
<1> HIDE DEF boot
<1>14. PollerOK(r, Facts') /\ r.mem = file /\ r.alive = TRUE /\ r.at = "idle" /\ r.boot = boot
  <2> DEFINE w == Facts'
             m == file
             R == Idle(m, boot)
  <2>1. FactsOK(w) /\ MemOK(m, w) /\ (\A e \in Event : Loose(m, e, w))
    BY <1>5, <1>11, <1>12
  <2> HIDE DEF w, m
  <2>5. boot \in {"list", "adopt", "poll", "done"}
    BY <1>13
  <2>6. PollerOK(R, w)
    BY <2>1, <2>5, IdleIs
  <2>7. R.mem = m /\ R.at = "idle" /\ R.boot = boot
    BY DEF Idle
  <2>8. R.alive = TRUE
    BY DEF Idle
  <2>2. PollerOK(R, w) /\ R.mem = m /\ R.alive = TRUE /\ R.at = "idle" /\ R.boot = boot
    BY <2>6, <2>7, <2>8
  <2>3. R = r
    BY DEF m
  <2> HIDE DEF R, r
  <2> QED BY <2>2, <2>3 DEF w, m
<1> HIDE DEF r
<1>15. /\ DOMAIN poller = Poller /\ DOMAIN poller' = Poller /\ poller'[p] = r
       /\ \A o \in Poller : o # p => poller'[o] = poller[o]
  BY <1>1 DEF IInv, ManagerOK
<1>16. PollersOK'
  <2> SUFFICES ASSUME NEW o \in Poller
               PROVE  IF poller'[o].alive THEN PollerOK(poller'[o], Facts')
                      ELSE poller'[o] = Stopped
    BY DEF PollersOK
  <2>1. CASE o = p
    BY <1>14, <1>15, <2>1
  <2>2. CASE o # p /\ ~poller[o].alive
    BY <1>15, <2>2 DEF IInv, PollersOK
  <2>3. CASE o # p /\ poller[o].alive
    <3>1. PollerOK(poller[o], Facts)
      BY <2>3 DEF IInv, PollersOK
    <3>2. PollerOK(poller[o], Facts')
      BY <1>2, <1>5, <1>6, <1>7, <3>1, PollerGrows
    <3> QED BY <1>15, <2>3, <3>2
  <2> QED BY <2>1, <2>2, <2>3
<1>17. ManagerOK'
  <2>1. registered' \in {None} \cup Poller /\ poller'[registered'].alive
    BY <1>1, <1>14, <1>15
  <2>2. \A o \in Poller : poller'[o].alive /\ registered' # o => InFlight(o)'
    <3> SUFFICES ASSUME NEW o \in Poller, poller'[o].alive, o # p PROVE InFlight(o)'
      BY <1>1
    <3>1. poller'[o] = poller[o] /\ registered # o
      BY <1>1, <1>15, BotAssumption DEF BotAssumption
    <3>2. InFlight(o)
      BY <3>1 DEF IInv, ManagerOK
    <3> QED BY <3>1, <3>2 DEF InFlight
  <2>3. Overlapped' \/ \A o, u \in Poller : poller'[o].alive /\ poller'[u].alive => o = u
    BY <1>8, <1>9, <1>15
  <2> QED BY <1>15, <2>1, <2>2, <2>3 DEF ManagerOK
<1>18. FileOK'
  <2>1. Overlapped' \/ \A o \in Poller : poller'[o].alive => Recorded(poller'[o], file)
    <3>1. Recorded(r, file)
      BY <1>14 DEF Recorded
    <3> QED BY <1>8, <1>9, <1>15, <3>1
  <2>2. file' = file
    BY <1>1
  <2> QED BY <1>11, <1>12, <2>1, <2>2 DEF FileOK
<1> QED BY <1>4, <1>5, <1>16, <1>17, <1>18 DEF IInv

LEMMA ForgetKeeps ==
  ASSUME IInv, NEW again \in BOOLEAN, Forget(again) PROVE IInv'
<1> DEFINE p == registered
           q == poller[p]
           last == IF again THEN [q EXCEPT !.boot = "poll"] ELSE q
           stops == last.at = "idle" /\ last.boot = "done"
<1>1. /\ registered # None /\ Spend("rejoins") /\ (again => InFlight(p)) /\ registered' = None
      /\ poller' = [poller EXCEPT ![p] = IF stops THEN Stopped ELSE last]
      /\ UNCHANGED <<file, history, status, rev, kind, post, delivery>>
  BY DEF Forget, Users
<1>2. p \in Poller /\ q.alive
  BY <1>1 DEF IInv, ManagerOK
<1>3. /\ WorldOK /\ FactsOK(Facts) /\ PollerOK(q, Facts) /\ q \in Task /\ MemOK(q.mem, Facts)
  BY <1>2, AliveIs
<1> HIDE DEF p
<1>4. /\ last \in Task /\ last.mem = q.mem /\ last.alive = q.alive /\ last.at = q.at
      /\ last.todo = q.todo /\ last.event = q.event /\ last.then = q.then
      /\ last.newest = q.newest /\ last.seen = q.seen /\ last.baseline = q.baseline
  BY <1>3 DEF Task
<1>5. PollerOK(last, Facts)
  <2>1. (\A e \in Event : Same(q.mem, last.mem, e)) /\ MemOK(last.mem, Facts)
    BY <1>3, <1>4 DEF Same
  <2>2. /\ last.baseline \in {0} \cup Facts.present
        /\ \A e \in Event : e <= last.baseline => e \in Facts.folded
    BY <1>3, <1>4 DEF PollerOK, TaskOK
  <2> HIDE DEF last
  <2> QED BY <1>3, <1>4, <2>1, <2>2, PollerRemembers
<1> HIDE DEF last
<1>6. WorldOK' /\ Facts' = Facts /\ (Overlapped' <=> Overlapped)
  <2>1. left' \in [Counter -> Nat]
    BY <1>1, <1>3, SpendIs DEF Counter
  <2>2. WorldOK'
    BY <1>1, <1>3, <2>1 DEF WorldOK
  <2> QED BY <1>1, <2>2, SameFacts DEF Overlapped
<1>7. /\ DOMAIN poller = Poller /\ DOMAIN poller' = Poller
      /\ poller'[p] = IF stops THEN Stopped ELSE last
      /\ \A o \in Poller : o # p => poller'[o] = poller[o]
  BY <1>1, <1>2 DEF IInv, ManagerOK
<1>8. Stopped.alive = FALSE
  BY DEF Stopped, Idle
<1>9. \A o \in Poller : poller'[o].alive => poller[o].alive
  BY <1>2, <1>7, <1>8
<1>10. PollersOK'
  <2> SUFFICES ASSUME NEW o \in Poller
               PROVE  IF poller'[o].alive THEN PollerOK(poller'[o], Facts')
                      ELSE poller'[o] = Stopped
    BY DEF PollersOK
  <2>1. CASE o = p /\ stops
    BY <1>7, <1>8, <2>1
  <2>2. CASE o = p /\ ~stops
    BY <1>2, <1>4, <1>5, <1>6, <1>7, <2>2
  <2>3. CASE o # p
    BY <1>6, <1>7, <2>3 DEF IInv, PollersOK
  <2> QED BY <2>1, <2>2, <2>3
<1>11. ManagerOK'
  <2>1. \A o \in Poller : poller'[o].alive => InFlight(o)'
    <3> SUFFICES ASSUME NEW o \in Poller, poller'[o].alive PROVE InFlight(o)'
      OBVIOUS
    <3>1. CASE o = p
      BY <1>7, <1>8, <3>1 DEF InFlight
    <3>2. CASE o # p
      BY <1>7, <3>2 DEF IInv, ManagerOK, InFlight, p
    <3> QED BY <3>1, <3>2
  <2>2. Overlapped' \/ \A o, u \in Poller : poller'[o].alive /\ poller'[u].alive => o = u
    BY <1>6, <1>9 DEF IInv, ManagerOK
  <2> QED BY <1>1, <1>7, <2>1, <2>2 DEF ManagerOK
<1>12. FileOK'
  <2>1. MemOK(file', Facts')
    BY <1>1, <1>6 DEF IInv, FileOK
  <2>2. CASE Overlapped
    <3>1. \A e \in Event : Loose(file', e, Facts')
      BY <1>6, <2>2, NextOverlapExcuses, ExcusedIsLoose
    <3> QED BY <1>6, <2>1, <2>2, <3>1 DEF FileOK
  <2>3. CASE ~Overlapped
    <3>1. \A o \in Poller : poller[o].alive => o = p
      BY <1>2, <2>3 DEF IInv, ManagerOK
    <3>2. Recorded(q, file)
      BY <1>2, <2>3 DEF IInv, FileOK
    <3>3. \A o \in Poller : poller'[o].alive => Recorded(poller'[o], file)
      <4> SUFFICES ASSUME NEW o \in Poller, poller'[o].alive PROVE Recorded(poller'[o], file)
        OBVIOUS
      <4>1. o = p /\ ~stops
        BY <1>7, <1>8, <1>9, <3>1
      <4>2. poller'[o] = last
        BY <1>7, <4>1
      <4> QED BY <1>4, <3>2, <4>2 DEF Recorded
    <3>4. \A e \in Event : Loose(file, e, Facts) \/ Unrecorded(e)'
      <4> TAKE e \in Event
      <4>1. CASE q.at # "deliver"
        BY <1>3, <3>2, <4>1 DEF Recorded, PollerOK
      <4>2. CASE q.at = "deliver"
        <5>1. Loose(file, e, Facts) \/ Unrecorded(e)
          BY DEF IInv, FileOK
        <5>2. ~stops
          BY <1>4, <4>2
        <5>3. Unrecorded(e) => q.mem.thread[e] \notin {0, file.thread[e]}
          BY <3>1 DEF Unrecorded
        <5>4. poller'[p] = last /\ file' = file
          BY <1>1, <1>7, <5>2
        <5> QED BY <1>2, <1>4, <5>1, <5>3, <5>4 DEF Unrecorded
      <4> QED BY <4>1, <4>2
    <3>5. file' = file
      BY <1>1
    <3> QED BY <1>6, <2>1, <3>3, <3>4, <3>5 DEF FileOK
  <2> QED BY <2>2, <2>3
<1> QED BY <1>3, <1>6, <1>10, <1>11, <1>12 DEF IInv

\* The bot dies: what a checkpoint has not saved is excused.
LEMMA StoppedIs == Stopped.alive = FALSE
<1>1. Stopped = [Idle(Checkpoint(FALSE), "done") EXCEPT !.alive = FALSE]
  BY DEF Stopped
<1> QED BY <1>1 DEF Idle

LEMMA CrashEnds ==
  ASSUME IInv, UNCHANGED <<status, rev, kind, delivery, file>>, Notes,
         poller' = [p \in Poller |-> Stopped], registered' = None,
         left' \in [Counter -> Nat], post' \in [Event -> Seq(PostState)],
         \A e \in Event : Len(post[e]) <= Len(post'[e]),
         \A e \in Event : e \in Facts'.excused \/ Facts'.standing[e] \subseteq Facts.standing[e],
         \A e \in Event : Unrecorded(e) => e \in Facts'.excused
  PROVE  IInv'
<1>1. WorldOK /\ FactsOK(Facts) /\ MemOK(file, Facts)
  BY DEF IInv, FileOK
<1>2. WorldOK' /\ Grows(Facts, Facts')
  BY <1>1, WorldKeeps
<1>3. FactsOK(Facts')
  BY <1>2, NextWorldGivesFacts
<1>4. MemOK(file', Facts')
  BY <1>1, <1>2, <1>3, MemoryGrows
<1>5. DOMAIN poller' = Poller /\ \A p \in Poller : poller'[p] = Stopped /\ ~poller'[p].alive
  BY StoppedIs
<1>6. PollersOK' /\ ManagerOK'
  BY <1>5 DEF PollersOK, ManagerOK
<1>7. \A e \in Event : Loose(file, e, Facts')
  <2> TAKE e \in Event
  <2>1. CASE e \in Facts'.excused
    BY <2>1, ExcusedIsLoose
  <2>2. CASE e \notin Facts'.excused
    <3>1. Loose(file, e, Facts) /\ Facts'.standing[e] \subseteq Facts.standing[e]
      BY <2>2 DEF IInv, FileOK
    <3> QED BY <1>1, <1>2, <1>3, <3>1, CoverGrows
  <2> QED BY <2>1, <2>2
<1>8. FileOK'
  BY <1>4, <1>5, <1>7 DEF FileOK
<1> QED BY <1>2, <1>3, <1>6, <1>8 DEF IInv

LEMMA CrashKeeps ==
  ASSUME IInv, Crash PROVE IInv'
<1>1. /\ Spend("crashes") /\ poller' = [p \in Poller |-> Stopped] /\ registered' = None
      /\ UNCHANGED <<status, rev, kind, file, delivery>>
  BY DEF Crash
<1>2. WorldOK /\ left' \in [Counter -> Nat]
  BY <1>1, SpendIs DEF IInv, Counter
<1>3. CASE /\ UNCHANGED post
           /\ history' = [e \in Event |-> IF Unrecorded(e) THEN history[e] \cup {"lost"}
                                          ELSE history[e]]
  <2> DEFINE es == {e \in Event : Unrecorded(e)}
  <2>1. Remember(es, "lost") /\ es \in SUBSET Event
    BY <1>3 DEF Remember
  <2>2. Notes
    BY <2>1 DEF Notes
  <2>3. \A e \in es : e \in Facts'.excused
    BY <2>1 DEF Remember, Facts
  <2>4. /\ post' \in [Event -> Seq(PostState)] /\ \A e \in Event : Len(post[e]) <= Len(post'[e])
    BY <1>2, <1>3, PostsStay
  <2>5. \A e \in Event : Facts'.standing[e] \subseteq Facts.standing[e]
    BY <1>3, SameStands
  <2> QED BY <1>1, <1>2, <2>2, <2>3, <2>4, <2>5, CrashEnds
<1>4. CASE \E p \in Poller :
             /\ Delivering(p) /\ NoThread(p) /\ (Mode(p) = "message" => NoParent(p))
             /\ Posted(poller[p].event, IF Mode(p) = "message" THEN "none" ELSE "open")
             /\ Remember({poller[p].event}, "lost")
  <2> PICK p \in Poller :
             /\ Delivering(p) /\ NoThread(p) /\ (Mode(p) = "message" => NoParent(p))
             /\ Posted(poller[p].event, IF Mode(p) = "message" THEN "none" ELSE "open")
             /\ Remember({poller[p].event}, "lost")
    BY <1>4
  <2> DEFINE e == poller[p].event
             thread == IF Mode(p) = "message" THEN "none" ELSE "open"
  <2>1. Posted(e, thread) /\ thread \in {"none", "open"} /\ e \in Event
        /\ poller[p].alive /\ poller[p].at = "deliver"
    BY DeliveringIs
  <2> HIDE DEF thread
  <2>2. /\ post' \in [Event -> Seq(PostState)] /\ \A d \in Event : Len(post[d]) <= Len(post'[d])
        /\ \A d \in Event : d # e => Facts'.standing[d] = Facts.standing[d]
    BY <1>2, <2>1, PostedIs
  <2>3. Notes /\ e \in Facts'.excused
    BY <2>1 DEF Notes, Remember, Facts
  <2>4. Facts.excused \subseteq Facts'.excused
    BY <1>1, <1>2, <2>2, <2>3, WorldKeeps DEF Grows
  <2>5. ASSUME NEW d \in Event, Unrecorded(d)
        PROVE  d \in Facts'.excused
    <3>1. CASE d = e
      BY <2>3, <3>1
    <3>2. CASE \A x \in Event : x \in Facts.excused
      BY <2>4, <3>2
    <3>3. CASE d # e /\ ~Overlapped /\ \A o \in Poller : poller[o].alive => o = p
      <4>1. Recorded(poller[p], file)
        BY <2>1, <3>3 DEF IInv, FileOK
      <4>2. poller[p].mem.thread[d] = file.thread[d]
        BY <2>1, <3>3, <4>1 DEF Recorded
      <4> QED BY <2>5, <3>3, <4>2 DEF Unrecorded
    <3> QED BY <2>1, <3>1, <3>2, <3>3, Alone
  <2>6. \A d \in Event : d \in Facts'.excused \/ Facts'.standing[d] \subseteq Facts.standing[d]
    BY <2>2, <2>3
  <2> QED BY <1>1, <1>2, <2>2, <2>3, <2>5, <2>6, CrashEnds
<1> QED BY <1>3, <1>4 DEF Crash

----------------------------------------------------------------------------
(* The invariant holds at the start and through every step.                *)

LEMMA InitIsFine == Init => IInv
<1> SUFFICES ASSUME Init PROVE IInv
  OBVIOUS
<1>1. /\ status = [e \in Event |-> "absent"] /\ rev = [e \in Event |-> 0]
      /\ kind = [e \in Event |-> "organized"] /\ post = [e \in Event |-> <<>>]
      /\ left \in Budgets /\ file = Checkpoint(left["fresh"] = 0)
      /\ poller = [p \in Poller |-> Stopped] /\ registered = None
      /\ delivery \in Delivery /\ history = [e \in Event |-> {}]
  BY DEF Init
<1>2. WorldOK
  <2>1. left \in [Counter -> Nat] /\ delivery \in {"message", "calendar", "forum"}
    BY <1>1, BotAssumption DEF BotAssumption
  <2>2. post \in [Event -> Seq(PostState)]
    <3>1. <<>> \in Seq(PostState)
      OBVIOUS
    <3> QED BY <1>1, <3>1
  <2>3. \A e \in Event : status[e] = "absent" /\ history[e] = {}
    BY <1>1
  <2>4. status \in [Event -> Statuses] /\ rev \in [Event -> Nat]
        /\ kind \in [Event -> {"organized", "young_flash", "flash"}]
        /\ history \in [Event -> SUBSET Marks]
    BY <1>1 DEF Statuses
  <2> QED BY <2>1, <2>2, <2>3, <2>4 DEF WorldOK
<1>3. FactsOK(Facts)
  BY <1>2, WorldGivesFacts
<1>4. DOMAIN poller = Poller /\ \A p \in Poller : poller[p] = Stopped /\ ~poller[p].alive
  BY <1>1, StoppedIs
<1>5. PollersOK /\ ManagerOK
  BY <1>1, <1>4 DEF PollersOK, ManagerOK
<1>6. MemOK(file, Facts)
  <2> DEFINE b == left["fresh"] = 0
  <2>1. b \in BOOLEAN /\ file = Checkpoint(b)
    BY <1>1
  <2> HIDE DEF b
  <2> QED BY <1>3, <2>1, Blank
<1>7. \A e \in Event : Loose(file, e, Facts)
  <2> TAKE e \in Event
  <2>1. DOMAIN post[e] = {}
    BY <1>1
  <2>2. Facts.standing[e] = {}
    BY <2>1 DEF Facts, Standing
  <2> QED BY <2>2 DEF Loose, Tight
<1>8. FileOK
  BY <1>4, <1>6, <1>7 DEF FileOK
<1> QED BY <1>2, <1>3, <1>5, <1>8 DEF IInv

LEMMA DeliverIsFine ==
  ASSUME IInv, NEW p \in Poller, Deliver(p) PROVE IInv'
<1>1. CASE DeliverFails(p)     BY <1>1, DeliverFailsKeeps
<1>2. CASE ForgetGone(p)       BY <1>2, ForgetGoneKeeps
<1>3. CASE SendParent(p)       BY <1>3, SendParentKeeps
<1>4. CASE OpenThread(p)       BY <1>4, OpenThreadKeeps
<1>5. CASE CreatePrivate(p)    BY <1>5, CreatePrivateKeeps
<1>6. CASE CreateForumPost(p)  BY <1>6, CreateForumPostKeeps
<1>7. CASE AnswerLost(p)       BY <1>7, AnswerLostKeeps
<1>8. CASE ForumRefuses(p)     BY <1>8, ForumRefusesKeeps
<1>9. CASE SendCard(p)         BY <1>9, SendCardKeeps
<1>10. CASE CardLost(p)        BY <1>10, CardLostKeeps
<1> QED BY <1>1, <1>2, <1>3, <1>4, <1>5, <1>6, <1>7, <1>8, <1>9, <1>10 DEF Deliver

LEMMA CloseIsFine ==
  ASSUME IInv, NEW p \in Poller, Close(p) PROVE IInv'
<1>1. CASE KeepOpen(p)         BY <1>1, KeepOpenKeeps
<1>2. CASE ForgetClosed(p)     BY <1>2, ForgetClosedKeeps
<1>3. CASE DeletePost(p)       BY <1>3, DeletePostKeeps
<1>4. CASE DeleteRefused(p)    BY <1>4, DeleteRefusedKeeps
<1>5. CASE LockOver(p)         BY <1>5, LockOverKeeps
<1>6. CASE LockCancelled(p)    BY <1>6, LockCancelledKeeps
<1>7. CASE StampCancelled(p)   BY <1>7, StampCancelledKeeps
<1>8. CASE LockRefused(p)      BY <1>8, LockRefusedKeeps
<1> QED BY <1>1, <1>2, <1>3, <1>4, <1>5, <1>6, <1>7, <1>8 DEF Close

LEMMA StepIsFine ==
  ASSUME IInv, NEW p \in Poller, Step(p) PROVE IInv'
<1>1. CASE BootLists(p)        BY <1>1, BootListsKeeps
<1>2. CASE BootAdopts(p)       BY <1>2, BootAdoptsKeeps
<1>3. CASE BootFails(p)        BY <1>3, BootFailsKeeps
<1>4. CASE SeedAgain(p)        BY <1>4, SeedAgainKeeps
<1>5. CASE SeedAdopts(p)       BY <1>5, SeedAdoptsKeeps
<1>6. CASE List(p)             BY <1>6, ListKeeps
<1>7. CASE ListFails(p)        BY <1>7, ListFailsKeeps
<1>8. CASE Take(p)             BY <1>8, TakeKeeps
<1>9. CASE LookupFails(p)      BY <1>9, LookupFailsKeeps
<1>10. CASE Advance(p)         BY <1>10, AdvanceKeeps
<1>11. CASE Deliver(p)         BY <1>11, DeliverIsFine
<1>12. CASE ReadRevisions(p)   BY <1>12, ReadRevisionsKeeps
<1>13. CASE RevisionsFail(p)   BY <1>13, RevisionsFailKeeps
<1>14. CASE Close(p)           BY <1>14, CloseIsFine
<1>15. CASE Restore(p)         BY <1>15, RestoreKeeps
<1>16. CASE Sync(p)            BY <1>16, SyncKeeps
<1>17. CASE SyncFails(p)       BY <1>17, SyncFailsKeeps
<1> QED BY <1>1, <1>2, <1>3, <1>4, <1>5, <1>6, <1>7, <1>8, <1>9, <1>10, <1>11, <1>12,
           <1>13, <1>14, <1>15, <1>16, <1>17 DEF Step

LEMMA StutterIsFine ==
  ASSUME IInv, UNCHANGED vars PROVE IInv'
<1>1. /\ UNCHANGED <<status, rev, kind, post, file, poller, registered, delivery, history, left>>
  BY DEF vars
<1>2. WorldOK'
  BY <1>1 DEF IInv, WorldOK
<1>3. Facts' = Facts
  BY <1>1, SameFacts
<1>4. Grows(Facts, Facts')
  BY <1>3, GrowsByNothing DEF IInv
<1>5. Overlapped' <=> Overlapped
  BY <1>1 DEF Overlapped
<1> QED BY <1>1, <1>2, <1>4, <1>5, AroundKeeps

LEMMA NextIsFine ==
  ASSUME IInv, [Next]_vars PROVE IInv'
<1>1. CASE \E e \in Event : \/ \E flash \in BOOLEAN : Create(e, flash)
                            \/ Change(e) \/ WindowCloses(e)
  BY <1>1, CreateIsFine, ChangeIsFine, WindowClosesIsFine
<1>2. CASE \E p \in Poller : Step(p) \/ Ensure(p)
  BY <1>2, StepIsFine, EnsureKeeps
<1>3. CASE \E again \in BOOLEAN : Forget(again)
  BY <1>3, ForgetKeeps
<1>4. CASE Crash
  BY <1>4, CrashKeeps
<1>5. CASE UNCHANGED vars
  BY <1>5, StutterIsFine
<1> QED BY <1>1, <1>2, <1>3, <1>4, <1>5 DEF Next

LEMMA Invariant == Spec => []IInv
<1>1. Init => IInv
  BY InitIsFine
<1>2. IInv /\ [Next]_vars => IInv'
  BY NextIsFine
<1> QED BY <1>1, <1>2, PTL DEF Spec

----------------------------------------------------------------------------
(* The theorems.                                                           *)

LEMMA SoundIs == ASSUME WorldOK, NEW m, MemOK(m, Facts) PROVE Sound(m)
  BY DEF Sound, MemOK, Facts

\* The state is well-formed: what a checkpoint, saved or in memory, remembers was posted.
THEOREM BotTypes == Spec => []TypeOK
<1>1. IInv => TypeOK
  <2> SUFFICES ASSUME IInv PROVE TypeOK
    OBVIOUS
  <2>1. WorldOK /\ FactsOK(Facts) /\ MemOK(file, Facts)
    BY DEF IInv, FileOK
  <2>2. \A e \in Event : post[e] \in Seq(PostState)
    BY <2>1 DEF WorldOK
  <2>3. Sound(file)
    BY <2>1, SoundIs
  <2>4. ASSUME NEW p \in Poller PROVE Sound(poller[p].mem)
    <3>1. CASE poller[p].alive
      BY <2>1, <3>1, AliveIs, SoundIs
    <3>2. CASE ~poller[p].alive
      <4>1. poller[p] = Stopped
        BY <3>2 DEF IInv, PollersOK
      <4>2. Stopped.mem = Checkpoint(FALSE)
        BY DEF Stopped, Idle
      <4>3. MemOK(Checkpoint(FALSE), Facts)
        BY <2>1, Blank
      <4> QED BY <2>1, <4>1, <4>2, <4>3, SoundIs
    <3> QED BY <3>1, <3>2
  <2>5. registered \in {None} \cup Poller /\ (registered # None => poller[registered].alive)
    BY DEF IInv, ManagerOK
  <2> QED BY <2>2, <2>3, <2>4, <2>5 DEF TypeOK
<1> QED BY <1>1, Invariant, PTL

\* At most one number is in a set that another, or none, holds.
LEMMA AtMostOne ==
  ASSUME NEW S, NEW i, S \subseteq {i}
  PROVE  Cardinality(S) \in Nat /\ ~(Cardinality(S) > 1)
<1>1. S = {} \/ S = {i}
  OBVIOUS
<1>2. Cardinality({}) = 0 /\ Cardinality({i}) = 1
  BY FS_EmptySet, FS_Singleton
<1> QED BY <1>1, <1>2

LEMMA LooseIsOne ==
  ASSUME NEW m, NEW e \in Event, Loose(m, e, Facts), e \notin Facts.excused
  PROVE  \E i : Facts.standing[e] \subseteq {i}
  BY DEF Loose, Tight, Retired, Kept

\* An event is announced once: a second announcement stands beside the first only
\* after an answer was lost, the bot died, or the guild was rejoined, in between.
THEOREM Once == Spec => []AnnouncedOnce
<1>1. IInv => AnnouncedOnce
  <2> SUFFICES ASSUME IInv, NEW e \in Event, history[e] \cap {"lost", "overlap"} = {}
               PROVE  ~(Cardinality(Standing(e)) > 1)
    BY DEF AnnouncedOnce
  <2>1. e \notin Facts.excused /\ Facts.standing[e] = Standing(e)
    BY DEF Facts
  <2>2. \E m : Loose(m, e, Facts)
    <3>1. CASE Loose(file, e, Facts)
      BY <3>1
    <3>2. CASE Unrecorded(e)
      <4>1. PICK p \in Poller : poller[p].alive
        BY <3>2 DEF Unrecorded
      <4>2. PollerOK(poller[p], Facts)
        BY <4>1, AliveIs
      <4> QED BY <4>2 DEF PollerOK
    <3> QED BY <3>1, <3>2 DEF IInv, FileOK
  <2>3. \E i : Standing(e) \subseteq {i}
    BY <2>1, <2>2, LooseIsOne
  <2> QED BY <2>3, AtMostOne
<1> QED BY <1>1, Invariant, PTL

\* The checkpoint never moves past an event it knows nothing of: one at or below the
\* cursor that was never seen to end was announced, waits for a retry, is given up as
\* ambiguous, or was there before the guild was seeded.
THEOREM Cursor == Spec => []NothingBehindTheCursor
<1>1. IInv => NothingBehindTheCursor
  BY DEF IInv, FileOK, MemOK, Told, Facts, NothingBehindTheCursor
<1> QED BY <1>1, Invariant, PTL
----------------------------------------------------------------------------
(* Cards and threads.  While no poller has overlapped another, one         *)
(* checkpoint counts: that of the poller that runs, or the file.  It knows *)
(* every open thread, and no stamp on it runs ahead of the card.           *)

SameCard(m, k, e) == k.thread[e] = m.thread[e] /\ k.card[e] = m.card[e] /\ k.shown[e] = m.shown[e]

Stamp(m, e, c) ==
  m.card[e] /\ m.thread[e] # 0 =>
    /\ m.shown[e] <= rev[e]
    /\ m.shown[e] = rev[e] /\ status[e] # "cancelled" => c[e][m.thread[e]].shows = rev[e]
Track(m, e, c, h) ==
  "lost" \in h[e] \/ \A i \in DOMAIN c[e] : c[e][i].thread = "open" => i = m.thread[e]
Honest(m, c, h) == \A e \in Event : Stamp(m, e, c) /\ Track(m, e, c, h)

\* What a poller has read is of the past: a status of the present revision is present.
SeenTrue(q) ==
  \A e \in Event : /\ q.seen[e].rev <= rev[e]
                   /\ q.seen[e].status = "cancelled" /\ q.seen[e].rev = rev[e]
                        => status[e] = "cancelled"
\* A detail is of the past, and the file lacks at most the thread just made.
DeliverTrue(q, f) ==
  q.at = "deliver" =>
    /\ q.detail <= rev[q.event]
    /\ f.card = q.mem.card /\ f.shown = q.mem.shown
    /\ \A d \in Event \ {q.event} : f.thread[d] = q.mem.thread[d]

CardsOK ==
  /\ \A p \in Poller : poller[p].alive =>
       /\ Honest(poller[p].mem, post, history)
       /\ SeenTrue(poller[p]) /\ DeliverTrue(poller[p], file)
  /\ (\A p \in Poller : ~poller[p].alive) => Honest(file, post, history)

Later == \A e \in Event : history[e] \subseteq history'[e]

LEMMA SameIsHonest ==
  ASSUME NEW m, NEW k, NEW e \in Event, SameCard(m, k, e), post'[e] = post[e], Later,
         Stamp(m, e, post) /\ Track(m, e, post, history)
  PROVE  Stamp(k, e, post') /\ Track(k, e, post', history')
<1>1. Stamp(k, e, post')
  BY DEF SameCard, Stamp
<1>2. Track(k, e, post', history')
  BY DEF SameCard, Track, Later
<1> QED BY <1>1, <1>2

\* A poller's step: it suffices to look at the events whose card or thread it touches.
LEMMA CardsCarry ==
  ASSUME IInv, ~Overlapped, CardsOK, NEW p \in Poller, poller[p].alive, NEW r, Is(p, r), r.alive,
         UNCHANGED World, Later,
         \A e \in Event : \/ post'[e] = post[e] /\ SameCard(poller[p].mem, r.mem, e)
                          \/ Stamp(r.mem, e, post') /\ Track(r.mem, e, post', history'),
         SeenTrue(r), DeliverTrue(r, file'),
         \/ file' = r.mem
         \/ file' = file /\ r.mem = poller[p].mem /\ poller[p].at # "deliver"
         \/ r.at = "deliver"
  PROVE  CardsOK'
<1> DEFINE stops == r.at = "idle" /\ r.boot = "done" /\ registered # p
<1>1. /\ DOMAIN poller = Poller /\ DOMAIN poller' = Poller
      /\ poller'[p] = IF stops THEN Stopped ELSE r
      /\ \A o \in Poller : o # p => poller'[o] = poller[o]
      /\ \A o \in Poller : poller[o].alive => o = p
  BY DEF Is, IInv, ManagerOK
<1>2. stops => r.at # "deliver"
  BY DEF stops
<1> HIDE DEF stops
<1>3. Stopped.alive = FALSE
  BY DEF Stopped, Idle
<1>4. Honest(r.mem, post', history')
  <2> SUFFICES ASSUME NEW e \in Event
               PROVE  Stamp(r.mem, e, post') /\ Track(r.mem, e, post', history')
    BY DEF Honest
  <2>1. Stamp(poller[p].mem, e, post) /\ Track(poller[p].mem, e, post, history)
    BY DEF CardsOK, Honest
  <2> QED BY <2>1, SameIsHonest
<1>5. r.at # "deliver" => file' = r.mem
  <2>1. ASSUME poller[p].at # "deliver" PROVE poller[p].mem = file
    BY <2>1 DEF IInv, FileOK, Recorded
  <2> QED BY <2>1
<1>6. rev' = rev /\ status' = status
  BY DEF World
<1>8. ASSUME NEW o \in Poller, poller'[o].alive
      PROVE  (Honest(poller[o].mem, post, history) /\ SeenTrue(poller[o])
              /\ DeliverTrue(poller[o], file))'
  <2>1. o = p /\ poller'[o] = r
    BY <1>1, <1>3, <1>8
  <2>2. Honest(poller[o].mem, post, history)'
    BY <1>4, <1>6, <2>1 DEF Honest, Stamp, Track
  <2> QED BY <1>6, <2>1, <2>2 DEF SeenTrue, DeliverTrue
<1>9. ASSUME \A o \in Poller : ~poller'[o].alive
      PROVE  Honest(file, post, history)'
  <2>1. file' = r.mem
    BY <1>1, <1>2, <1>5, <1>9
  <2> QED BY <1>4, <1>6, <2>1 DEF Honest, Stamp, Track
<1> QED BY <1>8, <1>9 DEF CardsOK

----------------------------------------------------------------------------
(* Steps that leave every card and thread alone.                           *)

Fields == {"alive", "mem", "at", "boot", "baseline", "todo", "event", "detail", "newest", "then",
           "known", "seen"}

LEMMA TaskHasFields == ASSUME NEW q \in Task PROVE DOMAIN q = Fields
  BY DEF Task, Fields

LEMMA SettledIs ==
  ASSUME NEW t, DOMAIN t = Fields, t.at # "deliver"
  PROVE  LET r == Settled(t)
         IN  /\ r.mem = t.mem /\ r.alive \in {t.alive, TRUE} /\ r.at # "deliver"
             /\ r.seen \in {t.seen, Unseen}
<1>1. ASSUME NEW u, DOMAIN u = Fields, u.at # "deliver"
      PROVE  LET r == EndOfRoster(u)
             IN  /\ r.mem = u.mem /\ r.alive \in {u.alive, TRUE} /\ r.at # "deliver"
                 /\ r.seen \in {u.seen, Unseen}
  BY <1>1 DEF EndOfRoster, Idle, Fields
<1>2. ASSUME NEW u, DOMAIN u = Fields, u.at # "deliver"
      PROVE  LET r == EndOfRestored(u)
             IN  /\ r.mem = u.mem /\ r.alive \in {u.alive, TRUE} /\ r.at # "deliver"
                 /\ r.seen \in {u.seen, Unseen}
  <2> DEFINE todo == IF u.known THEN InOrder(Mapped(u.mem)) ELSE <<>>
             v == [u EXCEPT !.at = "roster", !.todo = todo]
  <2>0. EndOfRestored(u) = IF u.at = "restored" /\ u.todo = <<>> THEN EndOfRoster(v) ELSE EndOfRoster(u)
    BY DEF EndOfRestored
  <2> HIDE DEF todo
  <2>1. /\ DOMAIN v = Fields /\ v.at = "roster" /\ v.mem = u.mem /\ v.alive = u.alive /\ v.seen = u.seen
    BY <1>2 DEF Fields
  <2> HIDE DEF v
  <2>2. v.at # "deliver"
    BY <2>1
  <2>3. LET r == EndOfRoster(v)
        IN  /\ r.mem = u.mem /\ r.alive \in {u.alive, TRUE} /\ r.at # "deliver"
            /\ r.seen \in {u.seen, Unseen}
    BY <1>1, <2>1, <2>2
  <2> QED BY <1>1, <1>2, <2>0, <2>3
<1> DEFINE todo == InOrder(t.mem.removed)
           v == [t EXCEPT !.at = "restored", !.todo = todo]
<1>3. Settled(t) = IF t.at = "close" /\ t.todo = <<>> THEN EndOfRestored(v) ELSE EndOfRestored(t)
  BY DEF Settled
<1> HIDE DEF todo
<1>4. /\ DOMAIN v = Fields /\ v.at = "restored" /\ v.mem = t.mem /\ v.alive = t.alive /\ v.seen = t.seen
  BY DEF Fields
<1> HIDE DEF v
<1>5. v.at # "deliver"
  BY <1>4
<1>6. LET r == EndOfRestored(v)
      IN  /\ r.mem = t.mem /\ r.alive \in {t.alive, TRUE} /\ r.at # "deliver"
          /\ r.seen \in {t.seen, Unseen}
  BY <1>2, <1>4, <1>5
<1> QED BY <1>2, <1>3, <1>6

LEMMA SeenStays ==
  ASSUME WorldOK, NEW q, NEW r, SeenTrue(q), r.seen \in {q.seen, Unseen}
  PROVE  SeenTrue(r)
<1>1. \A e \in Event : rev[e] \in Nat /\ Unseen[e].rev = 0 /\ Unseen[e].status = "unknown"
  BY DEF WorldOK, Unseen
<1>2. CASE r.seen = q.seen
  BY <1>2 DEF SeenTrue
<1>3. CASE r.seen = Unseen
  BY <1>1, <1>3 DEF SeenTrue
<1> QED BY <1>2, <1>3

LEMMA RememberIsLater ==
  ASSUME NEW es, NEW what, Remember(es, what) PROVE Later
  BY DEF Remember, Later

LEMMA SameIsLater == history' = history => Later
  BY DEF Later

\* What a step leaves alone that leaves every card and thread alone.
Still(q, r) == /\ r.alive /\ \A e \in Event : SameCard(q.mem, r.mem, e)
               /\ r.seen \in {q.seen, Unseen} \/ SeenTrue(r)

LEMMA StillCards ==
  ASSUME IInv, ~Overlapped, CardsOK, NEW p \in Poller, poller[p].alive, NEW r, Is(p, r),
         Still(poller[p], r), UNCHANGED World, post' = post, Later,
         \/ r.at # "deliver" /\ file' = r.mem
         \/ r.at # "deliver" /\ file' = file /\ r.mem = poller[p].mem /\ poller[p].at # "deliver"
         \/ /\ poller[p].at # "deliver" /\ r.mem = poller[p].mem /\ file' = file
            /\ r.event \in Event /\ r.detail = rev[r.event]
         \/ /\ poller[p].at = "deliver" /\ r.at = "deliver"
            /\ r.event = poller[p].event /\ r.detail = poller[p].detail
            /\ \/ file' = r.mem
               \/ file' = file /\ r.mem = poller[p].mem
  PROVE  CardsOK'
<1>1. WorldOK /\ SeenTrue(poller[p]) /\ DeliverTrue(poller[p], file)
  BY DEF IInv, CardsOK
<1>2. SeenTrue(r)
  BY <1>1, SeenStays DEF Still
<1>3. \A e \in Event : rev[e] \in Nat /\ rev[e] <= rev[e]
  BY <1>1 DEF WorldOK
<1>4. poller[p].at # "deliver" => poller[p].mem = file
  BY DEF IInv, FileOK, Recorded
<1>5. DeliverTrue(r, file')
  BY <1>1, <1>3, <1>4 DEF DeliverTrue
<1>6. \A e \in Event : post'[e] = post[e] /\ SameCard(poller[p].mem, r.mem, e)
  BY DEF Still
<1>7. r.alive
  BY DEF Still
<1> QED BY <1>2, <1>5, <1>6, <1>7, CardsCarry

LEMMA CycleStill ==
  ASSUME NEW p \in Poller, poller[p] \in Task, poller[p].alive
  PROVE  LET q == poller[p]
             c == Cycle(p)
         IN  /\ DOMAIN c = Fields /\ c.mem = q.mem /\ c.alive /\ c.at = q.at /\ c.seen = q.seen
             /\ c.event = q.event /\ c.detail = q.detail
<1> DEFINE q == poller[p]
<1>1. DOMAIN q = Fields /\ q.alive
  BY TaskHasFields
<1>2. Cycle(p) = IF q.boot = "poll" THEN [q EXCEPT !.boot = "done"] ELSE q
  BY DEF Cycle
<1> HIDE DEF q
<1>3. LET c == Cycle(p)
      IN  /\ DOMAIN c = Fields /\ c.mem = q.mem /\ c.alive = q.alive /\ c.at = q.at
          /\ c.seen = q.seen /\ c.event = q.event /\ c.detail = q.detail
  BY <1>1, <1>2 DEF Fields
<1> QED BY <1>1, <1>3 DEF q

LEMMA BootStill ==
  ASSUME IInv, ~Overlapped, CardsOK, NEW p \in Poller, BootLists(p) \/ BootAdopts(p) \/ BootFails(p)
  PROVE  CardsOK'
<1> DEFINE q == poller[p]
<1>a. q.alive
  BY DEF BootLists, BootAdopts, BootFails
<1>b. q \in Task /\ q.mem \in Memory
  BY <1>a, AliveIs
<1>1. CASE BootLists(p)
  <2> DEFINE r == [q EXCEPT !.boot = "adopt", !.baseline = Newest]
  <2>1. /\ Is(p, r) /\ UNCHANGED <<post, file, World>>
        /\ Remember({e \in Event : e <= Newest}, "folded")
    BY <1>1 DEF BootLists
  <2>2. r.alive = q.alive /\ r.mem = q.mem /\ r.at = q.at /\ r.seen = q.seen
        /\ r.event = q.event /\ r.detail = q.detail
    BY <1>b DEF Task
  <2> HIDE DEF r
  <2>3. Still(q, r) /\ Later
    BY <1>a, <2>1, <2>2, RememberIsLater DEF Still, SameCard
  <2> QED BY <1>a, <2>1, <2>2, <2>3, StillCards
<1>2. CASE BootAdopts(p)
  <2> DEFINE c == Max({q.mem.cursor, q.baseline})
             s == [q EXCEPT !.mem.seeded = TRUE, !.mem.cursor = c]
             r == Booted(s)
  <2>1. Is(p, r) /\ file' = r.mem /\ UNCHANGED <<post, history, World>>
    BY <1>2 DEF BootAdopts, Save, Quiet
  <2> HIDE DEF c
  <2>2. /\ DOMAIN s = Fields /\ s.alive = q.alive /\ s.at = q.at /\ s.seen = q.seen /\ s.event = q.event
        /\ s.detail = q.detail
    BY <1>b DEF Task, Fields
  <2>3. s.mem = [q.mem EXCEPT !.seeded = TRUE, !.cursor = c]
    BY <1>b DEF Task
  <2>4. s.mem.thread = q.mem.thread /\ s.mem.card = q.mem.card /\ s.mem.shown = q.mem.shown
    BY <1>b, <2>3, ZenonT(30) DEF Memory
  <2> HIDE DEF s
  <2>5. /\ r.alive = q.alive /\ r.at = q.at /\ r.seen = q.seen /\ r.event = q.event
        /\ r.detail = q.detail /\ r.mem = s.mem
    BY <2>2 DEF Booted, Fields
  <2> HIDE DEF r
  <2>6. Still(q, r) /\ Later
    BY <1>a, <2>1, <2>4, <2>5, SameIsLater DEF Still, SameCard
  <2> QED BY <1>a, <2>1, <2>5, <2>6, StillCards
<1>3. CASE BootFails(p)
  <2> DEFINE r == Booted(q)
  <2>1. Is(p, r) /\ UNCHANGED <<post, file, history, World>>
    BY <1>3 DEF BootFails
  <2>2. /\ r.alive = q.alive /\ r.at = q.at /\ r.seen = q.seen /\ r.event = q.event
        /\ r.detail = q.detail /\ r.mem = q.mem
    BY <1>b DEF Booted, Task
  <2> HIDE DEF r
  <2>3. Still(q, r) /\ Later
    BY <1>a, <2>1, <2>2, SameIsLater DEF Still, SameCard
  <2> QED BY <1>a, <2>1, <2>2, <2>3, StillCards
<1> QED BY <1>1, <1>2, <1>3

LEMMA AfterStill ==
  ASSUME NEW t, DOMAIN t = Fields, t.at # "deliver"
  PROVE  LET r == After(t)
         IN  /\ r.mem = t.mem /\ r.alive \in {t.alive, TRUE} /\ r.at # "deliver"
             /\ r.seen \in {t.seen, Unseen}
<1> DEFINE rest == Tail(t.todo)
           u == [t EXCEPT !.todo = rest]
<1>1. After(t) = Settled(u)
  BY DEF After
<1> HIDE DEF rest
<1>2. DOMAIN u = Fields /\ u.at = t.at /\ u.mem = t.mem /\ u.alive = t.alive /\ u.seen = t.seen
  BY DEF Fields
<1> HIDE DEF u
<1> QED BY <1>1, <1>2, SettledIs

LEMMA SeedStill ==
  ASSUME IInv, ~Overlapped, CardsOK, NEW p \in Poller, SeedAgain(p) \/ SeedAdopts(p)
  PROVE  CardsOK'
<1> DEFINE q == poller[p]
<1>a. q.alive
  BY DEF SeedAgain, SeedAdopts, Begins
<1>b. q \in Task /\ q.mem \in Memory /\ DOMAIN q = Fields
  BY <1>a, AliveIs, TaskHasFields
<1>1. CASE SeedAgain(p)
  <2> DEFINE c == Cycle(p)
             r == [c EXCEPT !.at = "seed", !.newest = Newest]
  <2>1. /\ Is(p, r) /\ UNCHANGED <<post, file, World>> /\ q.at = "idle"
        /\ Remember({e \in Event : e <= Newest}, "folded")
    BY <1>1 DEF SeedAgain, Begins
  <2>2. DOMAIN c = Fields /\ c.mem = q.mem /\ c.alive /\ c.seen = q.seen
    BY <1>a, <1>b, CycleStill
  <2> HIDE DEF c
  <2>3. r.alive /\ r.mem = q.mem /\ r.at = "seed" /\ r.seen = q.seen
    BY <2>2 DEF Fields
  <2> HIDE DEF r
  <2>4. Still(q, r) /\ Later
    BY <1>a, <2>1, <2>3, RememberIsLater DEF Still, SameCard
  <2> QED BY <1>a, <2>1, <2>3, <2>4, StillCards
<1>2. CASE SeedAdopts(p)
  <2> DEFINE c == Max({q.mem.cursor, q.newest})
             m == [q.mem EXCEPT !.seeded = TRUE, !.cursor = c]
             r == [q EXCEPT !.at = "idle", !.newest = 0, !.mem.seeded = TRUE, !.mem.cursor = c]
  <2>1. Is(p, r) /\ file' = r.mem /\ UNCHANGED <<post, history, World>> /\ q.at = "seed"
    BY <1>2 DEF SeedAdopts, Save, Quiet
  <2> HIDE DEF c
  <2>2. r.mem = m /\ r.alive = q.alive /\ r.at = "idle" /\ r.seen = q.seen
    BY <1>b DEF Fields
  <2>3. m.thread = q.mem.thread /\ m.card = q.mem.card /\ m.shown = q.mem.shown
    BY <1>b DEF Memory
  <2> HIDE DEF r, m
  <2>4. Still(q, r) /\ Later
    BY <1>a, <2>1, <2>2, <2>3, SameIsLater DEF Still, SameCard
  <2> QED BY <1>a, <2>1, <2>2, <2>4, StillCards
<1> QED BY <1>1, <1>2

LEMMA ListStill ==
  ASSUME IInv, ~Overlapped, CardsOK, NEW p \in Poller, List(p)
  PROVE  CardsOK'
<1> DEFINE q == poller[p]
           c == Cycle(p)
           clamped == IF Newest > 0 /\ Newest < c.mem.cursor
                      THEN [c EXCEPT !.mem.cursor = Newest] ELSE c
           fresh == {e \in Listed : e > c.mem.cursor}
<1>1. Begins(p) /\ UNCHANGED <<post, history, World>>
  BY DEF List
<1>2. PICK found \in SUBSET fresh :
        LET base == IF found = fresh THEN clamped ELSE c
            new == {e \in found : status[e] = "scheduled"}
        IN  /\ Is(p, [base EXCEPT !.at = "announce", !.then = "announce",
                            !.todo = InOrder(Retries(c.mem)) \o InOrder(new),
                            !.newest = IF found = fresh THEN Newest ELSE 0,
                            !.seen = [e \in Event |->
                                        [status |-> IF e \in new THEN "scheduled" ELSE "unknown",
                                         rev |-> 0]]])
            /\ IF base.mem # c.mem THEN Save(base) ELSE UNCHANGED file
  BY Zenon DEF List
<1> DEFINE base == IF found = fresh THEN clamped ELSE c
           new == {e \in found : status[e] = "scheduled"}
           todo == InOrder(Retries(c.mem)) \o InOrder(new)
           newest == IF found = fresh THEN Newest ELSE 0
           seen == [e \in Event |-> [status |-> IF e \in new THEN "scheduled" ELSE "unknown",
                                     rev |-> 0]]
           r == [base EXCEPT !.at = "announce", !.then = "announce", !.todo = todo,
                             !.newest = newest, !.seen = seen]
<1>3. Is(p, r) /\ IF base.mem # c.mem THEN file' = base.mem ELSE file' = file
  BY <1>2 DEF Save
<1>4. q.alive /\ q.at = "idle"
  BY <1>1 DEF Begins
<1>5. q \in Task /\ q.mem \in Memory /\ WorldOK
  BY <1>4, AliveIs
<1>6. DOMAIN c = Fields /\ c.mem = q.mem /\ c.alive /\ c.seen = q.seen
  BY <1>4, <1>5, CycleStill
<1>7. \A e \in Event : seen[e].rev = 0 /\ seen[e].status # "cancelled"
  OBVIOUS
<1> HIDE DEF todo, newest, seen, c
<1>8. /\ DOMAIN base = Fields /\ base.alive
      /\ \A e \in Event : SameCard(q.mem, base.mem, e)
  <2>1. CASE base = c
    BY <1>6, <2>1 DEF SameCard
  <2>2. CASE base = [c EXCEPT !.mem.cursor = Newest]
    <3> DEFINE n == Newest
               m == [q.mem EXCEPT !.cursor = n]
    <3>1. base = [c EXCEPT !.mem = m]
      BY <1>6, <2>2
    <3> HIDE DEF n
    <3>2. m.thread = q.mem.thread /\ m.card = q.mem.card /\ m.shown = q.mem.shown
      BY <1>5 DEF Memory
    <3> HIDE DEF m, base
    <3>3. DOMAIN base = Fields /\ base.alive /\ base.mem = m
      BY <1>6, <3>1 DEF Fields
    <3> QED BY <3>2, <3>3 DEF SameCard
  <2> QED BY <2>1, <2>2
<1> HIDE DEF base
<1>9. r.alive /\ r.mem = base.mem /\ r.at = "announce" /\ r.seen = seen
  BY <1>8 DEF Fields
<1> HIDE DEF r
<1>10. SeenTrue(r)
  BY <1>5, <1>7, <1>9 DEF SeenTrue, WorldOK
<1>11. Still(q, r) /\ Later
  BY <1>1, <1>8, <1>9, <1>10, SameIsLater DEF Still
<1> QED BY <1>1, <1>3, <1>4, <1>6, <1>9, <1>11, StillCards

LEMMA ListFailsStill ==
  ASSUME IInv, ~Overlapped, CardsOK, NEW p \in Poller, ListFails(p)
  PROVE  CardsOK'
<1> DEFINE q == poller[p]
           c == Cycle(p)
           r == [c EXCEPT !.at = "revisions"]
<1>1. /\ Is(p, r) /\ UNCHANGED <<post, file, history, World>> /\ q.alive /\ q.at = "idle"
  BY DEF ListFails, Begins
<1>2. q \in Task
  BY <1>1, AliveIs
<1>3. DOMAIN c = Fields /\ c.mem = q.mem /\ c.alive /\ c.seen = q.seen
  BY <1>1, <1>2, CycleStill
<1> HIDE DEF c
<1>4. r.alive /\ r.mem = q.mem /\ r.at = "revisions" /\ r.seen = q.seen
  BY <1>3 DEF Fields
<1> HIDE DEF r
<1>5. Still(q, r) /\ Later
  BY <1>1, <1>4, SameIsLater DEF Still, SameCard
<1> QED BY <1>1, <1>4, <1>5, StillCards

\* A poller that remembers another retry.
Alike(q, r) == /\ DOMAIN r = Fields /\ r.alive = q.alive /\ r.at = q.at /\ r.seen = q.seen
               /\ r.event = q.event /\ r.detail = q.detail /\ r.then = q.then
               /\ \A d \in Event : SameCard(q.mem, r.mem, d)
               /\ DOMAIN r.mem = DOMAIN q.mem

LEMMA PendingStill ==
  ASSUME NEW q, DOMAIN q = Fields, q.mem \in Memory, NEW e, NEW x
  PROVE  Alike(q, [q EXCEPT !.mem.pending[e] = x])
<1> DEFINE k == q.mem
           m == [k EXCEPT !.pending[e] = x]
           r == [q EXCEPT !.mem.pending[e] = x]
<1>1. r = [q EXCEPT !.mem = m]
  OBVIOUS
<1>2. m.thread = k.thread /\ m.card = k.card /\ m.shown = k.shown /\ DOMAIN m = DOMAIN k
  BY DEF Memory
<1> HIDE DEF m, r
<1>3. /\ DOMAIN r = Fields /\ r.alive = q.alive /\ r.at = q.at /\ r.seen = q.seen
      /\ r.event = q.event /\ r.detail = q.detail /\ r.then = q.then /\ r.mem = m
  BY <1>1 DEF Fields
<1>4. Alike(q, r)
  BY <1>2, <1>3 DEF SameCard, Alike
<1> QED BY <1>4 DEF r

LEMMA AttemptStill ==
  ASSUME NEW q, DOMAIN q = Fields, q.mem \in Memory, NEW e
  PROVE  LET r == Attempt(q, e)
         IN  /\ DOMAIN r = Fields /\ r.alive = q.alive /\ r.seen = q.seen
             /\ \A d \in Event : SameCard(q.mem, r.mem, d)
             /\ \/ r.at = q.at
                \/ r.at = "deliver" /\ r.mem = q.mem /\ r.event = e /\ r.detail = rev[e]
<1>1. CASE Attempt(q, e) = q
  BY <1>1 DEF SameCard
<1>2. CASE Attempt(q, e) = [q EXCEPT !.mem.pending[e] = "undo_window"]
  BY <1>2, PendingStill DEF Alike
<1>3. CASE Attempt(q, e) = [q EXCEPT !.at = "deliver", !.event = e, !.detail = rev[e]]
  BY <1>3 DEF SameCard, Fields
<1> QED BY <1>1, <1>2, <1>3 DEF Attempt

LEMMA HeadIs == ASSUME NEW s \in Seq(Event), s # <<>> PROVE Head(s) \in Event
  OBVIOUS

LEMMA TakeStill ==
  ASSUME IInv, ~Overlapped, CardsOK, NEW p \in Poller, Take(p)
  PROVE  CardsOK'
<1> DEFINE q == poller[p]
           e == Head(q.todo)
           rest == [q EXCEPT !.todo = Tail(@)]
           current == q.seen[e].status = "scheduled" \/ status[e] = "scheduled"
           next == IF current /\ ~Announced(q.mem, e) THEN Attempt(rest, e)
                   ELSE IF e \in Retries(q.mem) THEN [rest EXCEPT !.mem.pending[e] = "none"]
                   ELSE rest
<1>1. /\ q.alive /\ q.at = "announce" /\ q.todo # <<>> /\ Is(p, next)
      /\ IF next.mem # q.mem THEN file' = next.mem ELSE file' = file
      /\ UNCHANGED <<post, history, World>>
  BY Zenon DEF Take, Save, Quiet
<1>2. q \in Task /\ q.mem \in Memory /\ DOMAIN q = Fields /\ e \in Event
  <2>1. PollerOK(q, Facts) /\ FactsOK(Facts) /\ q \in Task /\ q.mem \in Memory
    BY <1>1, AliveIs, Zenon
  <2>2. q.todo \in Seq(Event)
    BY <2>1, FieldsOfTask
  <2>3. e \in Event
    BY <1>1, <2>2, HeadIs, Zenon
  <2> QED BY <2>1, <2>3, TaskHasFields
<1>3. /\ DOMAIN rest = Fields /\ rest.mem = q.mem /\ rest.alive = q.alive /\ rest.at = q.at
      /\ rest.seen = q.seen
  BY <1>2 DEF Fields
<1> HIDE DEF rest, e
<1>b. next \in {Attempt(rest, e), [rest EXCEPT !.mem.pending[e] = "none"], rest}
  OBVIOUS
<1>c. rest.mem \in Memory
  BY <1>2, <1>3
<1> HIDE DEF next
<1>4. /\ next.alive = q.alive /\ next.seen = q.seen /\ \A d \in Event : SameCard(q.mem, next.mem, d)
      /\ \/ next.at = "announce"
         \/ next.at = "deliver" /\ next.mem = q.mem /\ next.event = e /\ next.detail = rev[e]
  <2> HIDE DEF q
  <2>1. CASE next = Attempt(rest, e)
    <3>1. LET r == Attempt(rest, e)
          IN  /\ DOMAIN r = Fields /\ r.alive = rest.alive /\ r.seen = rest.seen
              /\ \A d \in Event : SameCard(rest.mem, r.mem, d)
              /\ \/ r.at = rest.at
                 \/ r.at = "deliver" /\ r.mem = rest.mem /\ r.event = e /\ r.detail = rev[e]
      BY <1>3, <1>c, AttemptStill
    <3> QED BY <1>1, <1>3, <2>1, <3>1
  <2>2. CASE next = [rest EXCEPT !.mem.pending[e] = "none"]
    <3> DEFINE x == "none"
    <3>0. next = [rest EXCEPT !.mem.pending[e] = x]
      BY <2>2
    <3> HIDE DEF x
    <3>1. Alike(rest, next)
      BY <1>3, <1>c, <3>0, PendingStill
    <3> QED BY <1>1, <1>3, <3>1 DEF Alike
  <2>3. CASE next = rest
    BY <1>1, <1>3, <2>3 DEF SameCard
  <2> QED BY <1>b, <2>1, <2>2, <2>3
<1>5. Still(q, next) /\ Later
  BY <1>1, <1>4, SameIsLater DEF Still
<1> QED BY <1>1, <1>2, <1>4, <1>5, StillCards

LEMMA LookupFailsStill ==
  ASSUME IInv, ~Overlapped, CardsOK, NEW p \in Poller, LookupFails(p)
  PROVE  CardsOK'
<1> DEFINE q == poller[p]
           rest == Tail(q.todo)
           r == [q EXCEPT !.todo = rest]
<1>1. Is(p, r) /\ UNCHANGED <<post, file, history, World>> /\ q.alive /\ q.at = "announce"
  BY DEF LookupFails
<1>2. DOMAIN q = Fields
  BY <1>1, AliveIs, TaskHasFields
<1> HIDE DEF rest
<1>3. r.alive = q.alive /\ r.mem = q.mem /\ r.at = q.at /\ r.seen = q.seen
  BY <1>2 DEF Fields
<1> HIDE DEF r
<1>4. Still(q, r) /\ Later
  BY <1>1, <1>3, SameIsLater DEF Still, SameCard
<1> QED BY <1>1, <1>3, <1>4, StillCards

LEMMA AdvanceStill ==
  ASSUME IInv, ~Overlapped, CardsOK, NEW p \in Poller, Advance(p)
  PROVE  CardsOK'
<1> DEFINE q == poller[p]
           c == Max({q.mem.cursor, q.newest})
           m == [q.mem EXCEPT !.cursor = c]
           r == [q EXCEPT !.at = "revisions", !.newest = 0, !.seen = Unseen, !.mem.cursor = c]
<1>1. /\ q.alive /\ q.at = "announce" /\ UNCHANGED <<post, history, World>> /\ Is(p, r)
      /\ IF r.mem # q.mem THEN file' = r.mem ELSE file' = file
  BY DEF Advance, Save, Quiet
<1>2. q \in Task /\ q.mem \in Memory /\ DOMAIN q = Fields
  BY <1>1, AliveIs, TaskHasFields
<1> HIDE DEF c
<1>3. r.mem = m /\ r.alive = q.alive /\ r.at = "revisions" /\ r.seen = Unseen
  BY <1>2 DEF Fields
<1>4. m.thread = q.mem.thread /\ m.card = q.mem.card /\ m.shown = q.mem.shown
  BY <1>2 DEF Memory
<1> HIDE DEF r, m
<1>5. Still(q, r) /\ Later
  BY <1>1, <1>3, <1>4, SameIsLater DEF Still, SameCard
<1> QED BY <1>1, <1>3, <1>5, StillCards

LEMMA ReadRevisionsStill ==
  ASSUME IInv, ~Overlapped, CardsOK, NEW p \in Poller, ReadRevisions(p)
  PROVE  CardsOK'
<1> DEFINE q == poller[p]
           todo == InOrder(Mapped(q.mem))
           seen == [e \in Event |-> IF e \in Mapped(q.mem)
                                    THEN [status |-> status[e], rev |-> rev[e]] ELSE Unseen[e]]
           t == [q EXCEPT !.at = "close", !.known = TRUE, !.todo = todo, !.seen = seen]
           r == Settled(t)
<1>1. /\ q.alive /\ q.at = "revisions" /\ Is(p, r) /\ file' = file
      /\ UNCHANGED <<post, history, World>>
  BY DEF ReadRevisions, Phase, Quiet
<1>2. DOMAIN q = Fields /\ WorldOK
  BY <1>1, AliveIs, TaskHasFields
<1>3. \A e \in Event : /\ seen[e].rev <= rev[e]
                       /\ seen[e].status = "cancelled" => status[e] = "cancelled"
  BY <1>2 DEF WorldOK, Unseen
<1> HIDE DEF todo, seen
<1>4. DOMAIN t = Fields /\ t.at = "close" /\ t.mem = q.mem /\ t.alive = q.alive /\ t.seen = seen
  BY <1>2 DEF Fields
<1> HIDE DEF t
<1>5. /\ r.mem = q.mem /\ r.alive \in {q.alive, TRUE} /\ r.at # "deliver"
      /\ r.seen \in {t.seen, Unseen}
  BY <1>4, SettledIs
<1> HIDE DEF r
<1>6. SeenTrue(t)
  BY <1>3, <1>4 DEF SeenTrue
<1>7. SeenTrue(r)
  BY <1>2, <1>5, <1>6, SeenStays
<1>8. Still(q, r) /\ Later
  BY <1>1, <1>5, <1>7, SameIsLater DEF Still, SameCard
<1> QED BY <1>1, <1>5, <1>8, StillCards

LEMMA RevisionsFailStill ==
  ASSUME IInv, ~Overlapped, CardsOK, NEW p \in Poller, RevisionsFail(p)
  PROVE  CardsOK'
<1> DEFINE q == poller[p]
           t == [q EXCEPT !.at = "close", !.todo = <<>>]
           r == Settled(t)
<1>1. /\ q.alive /\ q.at = "revisions" /\ Is(p, r) /\ UNCHANGED <<post, file, history, World>>
  BY DEF RevisionsFail, Phase
<1>2. DOMAIN q = Fields
  BY <1>1, AliveIs, TaskHasFields
<1>3. DOMAIN t = Fields /\ t.at = "close" /\ t.mem = q.mem /\ t.alive = q.alive /\ t.seen = q.seen
  BY <1>2 DEF Fields
<1> HIDE DEF t
<1>4. /\ r.mem = q.mem /\ r.alive \in {q.alive, TRUE} /\ r.at # "deliver"
      /\ r.seen \in {q.seen, Unseen}
  BY <1>3, SettledIs
<1> HIDE DEF r
<1>5. Still(q, r) /\ Later
  BY <1>1, <1>4, SameIsLater DEF Still, SameCard
<1> QED BY <1>1, <1>4, <1>5, StillCards

\* A step that only goes on to the next of the list.
LEMMA PassStill ==
  ASSUME IInv, ~Overlapped, CardsOK, NEW p \in Poller, poller[p].alive, poller[p].at # "deliver",
         Is(p, After(poller[p])), UNCHANGED <<post, file, history, World>>
  PROVE  CardsOK'
<1> DEFINE q == poller[p]
           r == After(q)
<1>1. DOMAIN q = Fields
  BY AliveIs, TaskHasFields
<1>2. /\ r.mem = q.mem /\ r.alive \in {q.alive, TRUE} /\ r.at # "deliver"
      /\ r.seen \in {q.seen, Unseen}
  BY <1>1, AfterStill
<1> HIDE DEF r
<1>3. Still(q, r) /\ Later
  BY <1>2, SameIsLater DEF Still, SameCard
<1> QED BY <1>2, <1>3, StillCards DEF r

LEMMA KeepOpenStill ==
  ASSUME IInv, ~Overlapped, CardsOK, NEW p \in Poller, KeepOpen(p)
  PROVE  CardsOK'
  BY PassStill DEF KeepOpen, Closing, Busy, Phase, Quiet

LEMMA SyncFailsStill ==
  ASSUME IInv, ~Overlapped, CardsOK, NEW p \in Poller, SyncFails(p)
  PROVE  CardsOK'
  BY PassStill DEF SyncFails, Busy, Phase

LEMMA RestoreStill ==
  ASSUME IInv, ~Overlapped, CardsOK, NEW p \in Poller, Restore(p)
  PROVE  CardsOK'
<1> DEFINE q == poller[p]
           e == Head(q.todo)
           rest == [q EXCEPT !.todo = Tail(@), !.then = "restored"]
           next == IF status[e] \in {"scheduled", "live"} /\ q.mem.thread[e] = 0
                   THEN Attempt(rest, e) ELSE rest
           r == IF next.at = "deliver" THEN next ELSE Settled(next)
<1>1. /\ q.alive /\ q.at = "restored" /\ q.todo # <<>> /\ Is(p, r)
      /\ IF next.mem # q.mem THEN file' = next.mem ELSE file' = file
      /\ UNCHANGED <<post, history, World>>
  BY Zenon DEF Restore, Save, Quiet, Busy, Phase
<1>2. q \in Task /\ q.mem \in Memory /\ DOMAIN q = Fields /\ e \in Event
  <2>1. PollerOK(q, Facts) /\ FactsOK(Facts) /\ q \in Task /\ q.mem \in Memory
    BY <1>1, AliveIs, Zenon
  <2>2. q.todo \in Seq(Event)
    BY <2>1, FieldsOfTask
  <2>3. e \in Event
    BY <1>1, <2>2, HeadIs, Zenon
  <2> QED BY <2>1, <2>3, TaskHasFields
<1>3. /\ DOMAIN rest = Fields /\ rest.mem = q.mem /\ rest.alive = q.alive /\ rest.at = q.at
      /\ rest.seen = q.seen
  BY <1>2 DEF Fields
<1> HIDE DEF rest, e
<1>b. next \in {Attempt(rest, e), rest} /\ rest.mem \in Memory
  BY <1>2, <1>3
<1> HIDE DEF next
<1>4. /\ DOMAIN next = Fields /\ next.alive = q.alive /\ next.seen = q.seen
      /\ \A d \in Event : SameCard(q.mem, next.mem, d)
      /\ \/ next.at = "restored"
         \/ next.at = "deliver" /\ next.mem = q.mem /\ next.event = e /\ next.detail = rev[e]
  <2> HIDE DEF q
  <2>1. CASE next = Attempt(rest, e)
    <3>1. LET u == Attempt(rest, e)
          IN  /\ DOMAIN u = Fields /\ u.alive = rest.alive /\ u.seen = rest.seen
              /\ \A d \in Event : SameCard(rest.mem, u.mem, d)
              /\ \/ u.at = rest.at
                 \/ u.at = "deliver" /\ u.mem = rest.mem /\ u.event = e /\ u.detail = rev[e]
      BY <1>3, <1>b, AttemptStill
    <3> QED BY <1>1, <1>3, <2>1, <3>1
  <2>2. CASE next = rest
    BY <1>1, <1>3, <2>2 DEF SameCard
  <2> QED BY <1>b, <2>1, <2>2
<1>5. /\ r.alive \in {q.alive, TRUE} /\ r.mem = next.mem /\ r.seen \in {q.seen, Unseen}
      /\ \/ r.at # "deliver"
         \/ r.at = "deliver" /\ r.mem = q.mem /\ r.event = e /\ r.detail = rev[e]
  <2>1. CASE next.at = "deliver"
    BY <1>1, <1>4, <2>1
  <2>2. CASE next.at # "deliver"
    BY <1>4, <2>2, SettledIs
  <2> QED BY <2>1, <2>2
<1> HIDE DEF r
<1>6. Still(q, r) /\ Later
  BY <1>1, <1>4, <1>5, SameIsLater DEF Still
<1> QED BY <1>1, <1>2, <1>5, <1>6, StillCards

----------------------------------------------------------------------------
(* Steps that touch the card or the thread of one event.                   *)

RowPut(e, i, row) ==
  /\ \A d \in Event : d # e => post'[d] = post[d]
  /\ DOMAIN post'[e] = DOMAIN post[e]
  /\ \A j \in DOMAIN post[e] : j # i => post'[e][j] = post[e][j]
  /\ i \in DOMAIN post[e] => post'[e][i] = row

LEMMA RowIs ==
  ASSUME WorldOK, NEW e \in Event, NEW i, NEW row, post' = [post EXCEPT ![e][i] = row]
  PROVE  RowPut(e, i, row)
<1>1. DOMAIN post = Event
  BY DEF WorldOK
<1>2. post'[e] = [post[e] EXCEPT ![i] = row] /\ \A d \in Event : d # e => post'[d] = post[d]
  BY <1>1
<1> QED BY <1>2 DEF RowPut

LEMMA PostedRow ==
  ASSUME WorldOK, NEW e \in Event, NEW thread, Posted(e, thread)
  PROVE  /\ \A d \in Event : d # e => post'[d] = post[d]
         /\ DOMAIN post'[e] = DOMAIN post[e] \cup {Len(post[e]) + 1}
         /\ \A j \in DOMAIN post[e] : post'[e][j] = post[e][j]
         /\ post'[e][Len(post[e]) + 1].thread = thread
         /\ 0 \notin DOMAIN post[e] /\ Len(post[e]) + 1 \notin DOMAIN post[e]
<1> DEFINE row == [thread |-> thread, cards |-> 0, shows |-> 0]
           s == post[e]
<1>1. post' = [post EXCEPT ![e] = Append(s, row)]
  BY DEF Posted
<1>2. row.thread = thread
  OBVIOUS
<1> HIDE DEF row
<1>3. DOMAIN post = Event /\ s \in Seq(PostState)
  BY DEF WorldOK
<1>4. post'[e] = Append(s, row) /\ \A d \in Event : d # e => post'[d] = post[d]
  BY <1>1, <1>3
<1> HIDE DEF s
<1>5. /\ DOMAIN s = 1..Len(s) /\ Len(s) \in Nat /\ DOMAIN Append(s, row) = 1..(Len(s) + 1)
      /\ \A j \in 1..(Len(s) + 1) : Append(s, row)[j] = IF j = Len(s) + 1 THEN row ELSE s[j]
  BY <1>3
<1>6. /\ DOMAIN Append(s, row) = DOMAIN s \cup {Len(s) + 1}
      /\ \A j \in DOMAIN s : Append(s, row)[j] = s[j]
      /\ Append(s, row)[Len(s) + 1] = row
      /\ 0 \notin DOMAIN s /\ Len(s) + 1 \notin DOMAIN s
  BY <1>5
<1> QED BY <1>2, <1>4, <1>6 DEF s

LEMMA TrackMoves ==
  ASSUME NEW e \in Event, NEW m, NEW k, Track(m, e, post, history), Later,
         \A i \in DOMAIN post'[e] :
           post'[e][i].thread = "open" =>
             \/ i = k.thread[e]
             \/ i \in DOMAIN post[e] /\ post[e][i].thread = "open" /\ i # m.thread[e]
  PROVE  Track(k, e, post', history')
  BY DEF Track, Later

LEMMA CardsStep ==
  ASSUME IInv, ~Overlapped, CardsOK, NEW p \in Poller, poller[p].alive, NEW r, Is(p, r), r.alive,
         UNCHANGED World, Later, NEW e \in Event,
         \A d \in Event : d # e => post'[d] = post[d] /\ SameCard(poller[p].mem, r.mem, d),
         Stamp(r.mem, e, post'), Track(r.mem, e, post', history'),
         r.seen \in {poller[p].seen, Unseen},
         \/ r.at # "deliver" /\ file' = r.mem
         \/ /\ poller[p].at = "deliver" /\ r.at = "deliver" /\ poller[p].event = e
            /\ r.event = e /\ r.detail = poller[p].detail
            /\ r.mem.card = poller[p].mem.card /\ r.mem.shown = poller[p].mem.shown
            /\ file' \in {r.mem, file}
  PROVE  CardsOK'
<1>1. WorldOK /\ SeenTrue(poller[p]) /\ DeliverTrue(poller[p], file)
  BY DEF IInv, CardsOK
<1>2. SeenTrue(r)
  BY <1>1, SeenStays
<1>3. DeliverTrue(r, file')
  BY <1>1 DEF DeliverTrue, SameCard
<1>4. \A d \in Event : \/ post'[d] = post[d] /\ SameCard(poller[p].mem, r.mem, d)
                       \/ Stamp(r.mem, d, post') /\ Track(r.mem, d, post', history')
  OBVIOUS
<1> QED BY <1>2, <1>3, <1>4, CardsCarry

LEMMA ResumeStill ==
  ASSUME NEW t, DOMAIN t = Fields, NEW k \in Memory, DOMAIN t.mem = DOMAIN k,
         t.then \in {"announce", "restored"}
  PROVE  LET r == Resume(t)
         IN  /\ \A d \in Event : SameCard(t.mem, r.mem, d)
             /\ r.alive \in {t.alive, TRUE} /\ r.at # "deliver" /\ r.seen \in {t.seen, Unseen}
<1> DEFINE back == /\ t.then = "restored" /\ Announced(t.mem, t.event)
                   /\ t.mem.pending[t.event] # "ambiguous"
           R == IF back THEN t.mem.removed \ {t.event} ELSE t.mem.removed
           m == [t.mem EXCEPT !.removed = R]
           u == [t EXCEPT !.at = t.then, !.event = 0, !.detail = 0, !.mem.removed = R]
<1>1. Resume(t) = Settled(u)
  BY DEF Resume
<1> HIDE DEF R
<1>2. /\ DOMAIN u = Fields /\ u.at = t.then /\ u.mem = m /\ u.alive = t.alive /\ u.seen = t.seen
  BY DEF Fields
<1>3. m.thread = t.mem.thread /\ m.card = t.mem.card /\ m.shown = t.mem.shown
  BY DEF Memory
<1> HIDE DEF u, m
<1>4. u.at # "deliver"
  BY <1>2
<1> QED BY <1>1, <1>2, <1>3, <1>4, SettledIs DEF SameCard

\* A poller that remembers another thread of an event it delivers.
ThreadPut(q, r, e, n) ==
  /\ r.alive = q.alive /\ r.at = q.at /\ r.seen = q.seen /\ r.event = q.event
  /\ r.detail = q.detail /\ r.mem.card = q.mem.card /\ r.mem.shown = q.mem.shown
  /\ r.mem.thread[e] = n /\ \A d \in Event : d # e => SameCard(q.mem, r.mem, d)

LEMMA ThreadSet ==
  ASSUME NEW q, DOMAIN q = Fields, q.mem \in Memory, NEW e \in Event, NEW n
  PROVE  ThreadPut(q, [q EXCEPT !.mem.thread[e] = n], e, n)
<1> DEFINE k == q.mem
           m == [k EXCEPT !.thread[e] = n]
           r == [q EXCEPT !.mem.thread[e] = n]
<1>1. r = [q EXCEPT !.mem = m]
  OBVIOUS
<1>2. /\ m.card = k.card /\ m.shown = k.shown /\ m.thread[e] = n
      /\ \A d \in Event : d # e => m.thread[d] = k.thread[d]
  BY DEF Memory
<1> HIDE DEF m, r
<1>3. /\ r.alive = q.alive /\ r.at = q.at /\ r.seen = q.seen /\ r.event = q.event
      /\ r.detail = q.detail /\ r.mem = m
  BY <1>1 DEF Fields
<1>4. ThreadPut(q, r, e, n)
  BY <1>2, <1>3 DEF SameCard, ThreadPut
<1> QED BY <1>4 DEF r

LEMMA ParentSet ==
  ASSUME NEW q, DOMAIN q = Fields, q.mem \in Memory, NEW e \in Event, NEW n
  PROVE  LET r == [q EXCEPT !.mem.parent[e] = n]
         IN  /\ r.alive = q.alive /\ r.at = q.at /\ r.seen = q.seen /\ r.event = q.event
             /\ r.detail = q.detail /\ r.mem.card = q.mem.card /\ r.mem.shown = q.mem.shown
             /\ r.mem.thread = q.mem.thread /\ \A d \in Event : SameCard(q.mem, r.mem, d)
<1> DEFINE k == q.mem
           m == [k EXCEPT !.parent[e] = n]
           r == [q EXCEPT !.mem.parent[e] = n]
<1>1. r = [q EXCEPT !.mem = m]
  OBVIOUS
<1>2. m.card = k.card /\ m.shown = k.shown /\ m.thread = k.thread
  BY DEF Memory
<1> HIDE DEF m, r
<1>3. /\ r.alive = q.alive /\ r.at = q.at /\ r.seen = q.seen /\ r.event = q.event
      /\ r.detail = q.detail /\ r.mem = m
  BY <1>1 DEF Fields
<1> QED BY <1>2, <1>3 DEF SameCard, r

LEMMA DeliveryNow ==
  ASSUME IInv, CardsOK, NEW p \in Poller, Delivering(p)
  PROVE  LET q == poller[p]
             e == q.event
         IN  /\ WorldOK /\ q.alive /\ q.at = "deliver" /\ e \in Event /\ ~q.mem.card[e]
             /\ DOMAIN q = Fields /\ q.mem \in Memory /\ q.then \in {"announce", "restored"}
             /\ Stamp(q.mem, e, post) /\ Track(q.mem, e, post, history)
             /\ q.detail \in Nat /\ q.detail <= rev[e] /\ rev[e] \in Nat
             /\ q.mem.thread[e] \in Nat /\ q.mem.thread[e] <= Len(post[e])
<1> DEFINE q == poller[p]
           e == q.event
<1>1. q.alive /\ q.at = "deliver" /\ e \in Event /\ ~q.mem.card[e]
  BY DeliveringIs
<1>2. WorldOK /\ q \in Task /\ q.mem \in Memory /\ MemOK(q.mem, Facts)
  BY <1>1, AliveIs
<1>3. DOMAIN q = Fields /\ q.then \in {"announce", "restored"} /\ q.detail \in Nat
  BY <1>2, TaskHasFields, FieldsOfTask
<1>4. Honest(q.mem, post, history) /\ DeliverTrue(q, file)
  BY <1>1 DEF CardsOK
<1>5. Stamp(q.mem, e, post) /\ Track(q.mem, e, post, history) /\ q.detail <= rev[e]
  BY <1>1, <1>4 DEF Honest, DeliverTrue
<1>6. rev[e] \in Nat
  BY <1>1, <1>2 DEF WorldOK
<1>7. q.mem.thread[e] \in Nat /\ q.mem.thread[e] <= Facts.posts[e]
  BY <1>1, <1>2, FieldsOfMemory DEF MemOK
<1>8. Facts.posts[e] = Len(post[e])
  BY <1>1, FieldsOfFacts
<1> QED BY <1>1, <1>2, <1>3, <1>5, <1>6, <1>7, <1>8

LEMMA ForgetGoneCards ==
  ASSUME IInv, ~Overlapped, CardsOK, NEW p \in Poller, ForgetGone(p)
  PROVE  CardsOK'
<1> DEFINE q == poller[p]
           e == q.event
           none == 0
           rt == [q EXCEPT !.mem.thread[e] = none]
           rp == [q EXCEPT !.mem.parent[e] = none]
<1>1. /\ Delivering(p) /\ UNCHANGED <<post, file, history, World>>
      /\ \/ q.mem.thread[e] # 0 /\ Gone(e, q.mem.thread[e]) /\ Is(p, rt)
         \/ Is(p, rp)
  BY DEF ForgetGone, Quiet
<1> HIDE DEF none
<1>2. /\ WorldOK /\ q.alive /\ q.at = "deliver" /\ e \in Event /\ ~q.mem.card[e]
      /\ DOMAIN q = Fields /\ q.mem \in Memory
      /\ Stamp(q.mem, e, post) /\ Track(q.mem, e, post, history)
  BY <1>1, DeliveryNow
<1>3. Later
  BY <1>1, SameIsLater
<1>4. CASE q.mem.thread[e] # 0 /\ Gone(e, q.mem.thread[e]) /\ Is(p, rt)
  <2>0. ThreadPut(q, rt, e, none)
    BY <1>2, ThreadSet
  <2> HIDE DEF rt
  <2>1. /\ rt.alive = q.alive /\ rt.at = q.at /\ rt.seen = q.seen /\ rt.event = q.event
        /\ rt.detail = q.detail /\ rt.mem.card = q.mem.card /\ rt.mem.shown = q.mem.shown
        /\ rt.mem.thread[e] = none /\ \A d \in Event : d # e => SameCard(q.mem, rt.mem, d)
    BY <2>0 DEF ThreadPut
  <2>2. Track(rt.mem, e, post', history')
    BY <1>1, <1>2, <1>3, <1>4, TrackMoves DEF Gone
  <2>3. Stamp(rt.mem, e, post')
    BY <1>2, <2>1 DEF Stamp
  <2> QED BY <1>1, <1>2, <1>3, <1>4, <2>1, <2>2, <2>3, CardsStep
<1>5. CASE Is(p, rp)
  <2>1. /\ rp.alive = q.alive /\ rp.at = q.at /\ rp.seen = q.seen /\ rp.event = q.event
        /\ rp.detail = q.detail /\ rp.mem.card = q.mem.card /\ rp.mem.shown = q.mem.shown
        /\ rp.mem.thread = q.mem.thread /\ \A d \in Event : SameCard(q.mem, rp.mem, d)
    <3> HIDE DEF e
    <3> QED BY <1>2, ParentSet
  <2> HIDE DEF rp
  <2>2. Track(rp.mem, e, post', history')
    BY <1>1, <1>2, <1>3, <2>1 DEF Track
  <2>3. Stamp(rp.mem, e, post')
    BY <1>2, <2>1 DEF Stamp
  <2> QED BY <1>1, <1>2, <1>3, <1>5, <2>1, <2>2, <2>3, CardsStep
<1> QED BY <1>1, <1>4, <1>5

LEMMA SendParentCards ==
  ASSUME IInv, ~Overlapped, CardsOK, NEW p \in Poller, SendParent(p)
  PROVE  CardsOK'
<1> DEFINE q == poller[p]
           e == q.event
           n == Len(post[e]) + 1
           r == [q EXCEPT !.mem.parent[e] = n]
<1>1. /\ Delivering(p) /\ Posted(e, "none") /\ Is(p, r) /\ file' = r.mem
      /\ UNCHANGED <<history, World>>
  BY DEF SendParent, Save
<1>2. /\ WorldOK /\ q.alive /\ q.at = "deliver" /\ e \in Event /\ ~q.mem.card[e]
      /\ DOMAIN q = Fields /\ q.mem \in Memory
      /\ Track(q.mem, e, post, history)
  BY <1>1, DeliveryNow
<1>3. Later
  BY <1>1, SameIsLater
<1>4. /\ \A d \in Event : d # e => post'[d] = post[d]
      /\ DOMAIN post'[e] = DOMAIN post[e] \cup {n}
      /\ \A j \in DOMAIN post[e] : post'[e][j] = post[e][j]
      /\ post'[e][n].thread = "none"
  BY <1>1, <1>2, PostedRow
<1> HIDE DEF n
<1>5. /\ r.alive = q.alive /\ r.at = q.at /\ r.seen = q.seen /\ r.event = q.event
      /\ r.detail = q.detail /\ r.mem.card = q.mem.card /\ r.mem.shown = q.mem.shown
      /\ r.mem.thread = q.mem.thread /\ \A d \in Event : SameCard(q.mem, r.mem, d)
  <2> HIDE DEF e
  <2> QED BY <1>2, ParentSet
<1> HIDE DEF r
<1>6. Track(r.mem, e, post', history')
  BY <1>2, <1>3, <1>4, <1>5, TrackMoves
<1>7. Stamp(r.mem, e, post')
  BY <1>2, <1>5 DEF Stamp
<1> QED BY <1>1, <1>2, <1>3, <1>4, <1>5, <1>6, <1>7, CardsStep

\* A thread that is made, or recovered, is the one on record.
LEMMA ThreadMade ==
  ASSUME IInv, ~Overlapped, CardsOK, NEW p \in Poller, Delivering(p), NoThread(p),
         UNCHANGED <<history, World>>,
         NEW n, NEW r, ThreadPut(poller[p], r, poller[p].event, n), Is(p, r),
         file' \in {r.mem, file},
         \A d \in Event : d # poller[p].event => post'[d] = post[d],
         DOMAIN post'[poller[p].event] \subseteq DOMAIN post[poller[p].event] \cup {n},
         \A j \in DOMAIN post[poller[p].event] :
           j # n => post'[poller[p].event][j] = post[poller[p].event][j]
  PROVE  CardsOK'
<1> DEFINE q == poller[p]
           e == q.event
<1>2. /\ WorldOK /\ q.alive /\ q.at = "deliver" /\ e \in Event /\ ~q.mem.card[e]
      /\ DOMAIN q = Fields /\ q.mem \in Memory
      /\ Track(q.mem, e, post, history)
  BY DeliveryNow
<1>3. Later
  BY SameIsLater
<1>4. 0 \notin DOMAIN post[e]
  BY <1>2, PostsAre
<1>5. /\ r.alive = q.alive /\ r.at = q.at /\ r.seen = q.seen /\ r.event = q.event
      /\ r.detail = q.detail /\ r.mem.card = q.mem.card /\ r.mem.shown = q.mem.shown
      /\ r.mem.thread[e] = n /\ \A d \in Event : d # e => SameCard(q.mem, r.mem, d)
  BY DEF ThreadPut
<1>6. q.mem.thread[e] = 0
  BY DEF NoThread
<1>7. Track(r.mem, e, post', history')
  BY <1>2, <1>3, <1>4, <1>5, <1>6, TrackMoves
<1>8. Stamp(r.mem, e, post')
  BY <1>2, <1>5 DEF Stamp
<1>9. /\ r.alive /\ q.event = e /\ r.seen \in {q.seen, Unseen}
      /\ \A d \in Event : d # e => post'[d] = post[d] /\ SameCard(q.mem, r.mem, d)
  BY <1>2, <1>5
<1>10. UNCHANGED World
  OBVIOUS
<1> HIDE DEF e
<1> QED BY <1>2, <1>3, <1>5, <1>7, <1>8, <1>9, <1>10, CardsStep

LEMMA CreateCards ==
  ASSUME IInv, ~Overlapped, CardsOK, NEW p \in Poller, CreatePrivate(p) \/ CreateForumPost(p)
  PROVE  CardsOK'
<1> DEFINE q == poller[p]
           e == q.event
           n == Len(post[e]) + 1
           r == [q EXCEPT !.mem.thread[e] = n]
<1>1. /\ Delivering(p) /\ NoThread(p) /\ Posted(e, "open") /\ Is(p, r) /\ file' \in {r.mem, file}
      /\ UNCHANGED <<history, World>>
  BY DEF CreatePrivate, CreateForumPost, Save
<1>2. WorldOK /\ e \in Event /\ DOMAIN q = Fields /\ q.mem \in Memory
  BY <1>1, DeliveryNow
<1>3. /\ \A d \in Event : d # e => post'[d] = post[d]
      /\ DOMAIN post'[e] = DOMAIN post[e] \cup {n}
      /\ \A j \in DOMAIN post[e] : post'[e][j] = post[e][j]
  BY <1>1, <1>2, PostedRow
<1>4. ThreadPut(q, r, e, n)
  BY <1>2, ThreadSet
<1> HIDE DEF n, r
<1> QED BY <1>1, <1>3, <1>4, ThreadMade

LEMMA OpenThreadCards ==
  ASSUME IInv, ~Overlapped, CardsOK, NEW p \in Poller, OpenThread(p)
  PROVE  CardsOK'
<1> DEFINE q == poller[p]
           e == q.event
<1>a. PICK n : n = q.mem.parent[e]
  OBVIOUS
<1>b. PICK row : row = [post[e][n] EXCEPT !.thread = IF post[e][n].thread = "none" THEN "open"
                                                     ELSE post[e][n].thread]
  BY Zenon
<1> DEFINE r == [q EXCEPT !.mem.thread[e] = n]
<1>1. /\ Delivering(p) /\ NoThread(p) /\ Is(p, r) /\ file' = file
      /\ post' = [post EXCEPT ![e][n] = row]
      /\ UNCHANGED <<history, World>>
  BY <1>a, <1>b, Zenon DEF OpenThread
<1>2. WorldOK /\ e \in Event /\ DOMAIN q = Fields /\ q.mem \in Memory
  BY <1>1, DeliveryNow
<1>4. /\ \A d \in Event : d # e => post'[d] = post[d]
      /\ DOMAIN post'[e] = DOMAIN post[e]
      /\ \A j \in DOMAIN post[e] : j # n => post'[e][j] = post[e][j]
  BY <1>1, <1>2, RowIs DEF RowPut
<1>5. ThreadPut(q, r, e, n)
  BY <1>2, ThreadSet
<1> HIDE DEF r
<1> QED BY <1>1, <1>4, <1>5, ThreadMade

LEMMA AbandonIs ==
  ASSUME IInv, CardsOK, NEW p \in Poller, Delivering(p), NEW x
  PROVE  LET r == Resume([poller[p] EXCEPT !.mem.pending[poller[p].event] = x])
         IN  /\ \A d \in Event : SameCard(poller[p].mem, r.mem, d)
             /\ r.alive /\ r.at # "deliver" /\ r.seen \in {poller[p].seen, Unseen}
<1> DEFINE q == poller[p]
           e == q.event
           t == [q EXCEPT !.mem.pending[e] = x]
           r == Resume(t)
<1>1. /\ q.alive /\ DOMAIN q = Fields /\ q.mem \in Memory /\ q.then \in {"announce", "restored"}
  BY DeliveryNow
<1>2. /\ DOMAIN t = Fields /\ t.alive = q.alive /\ t.seen = q.seen /\ t.then = q.then
      /\ \A d \in Event : SameCard(q.mem, t.mem, d)
      /\ DOMAIN t.mem = DOMAIN q.mem
  <2>1. Alike(q, t)
    BY <1>1, PendingStill
  <2> HIDE DEF t
  <2> QED BY <2>1 DEF Alike
<1> HIDE DEF t
<1>3. /\ \A d \in Event : SameCard(t.mem, r.mem, d)
      /\ r.alive \in {t.alive, TRUE} /\ r.at # "deliver" /\ r.seen \in {t.seen, Unseen}
  BY <1>1, <1>2, ResumeStill
<1> HIDE DEF r
<1>4. \A d \in Event : SameCard(q.mem, r.mem, d)
  BY <1>2, <1>3 DEF SameCard
<1>5. r.alive /\ r.at # "deliver" /\ r.seen \in {q.seen, Unseen}
  BY <1>1, <1>2, <1>3
<1> QED BY <1>4, <1>5 DEF r, t

\* A delivery that fails leaves the cards and threads alone, but for what it posted.
LEMMA AbandonCards ==
  ASSUME IInv, ~Overlapped, CardsOK, NEW p \in Poller, Delivering(p), NEW x, NEW r,
         r = Resume([poller[p] EXCEPT !.mem.pending[poller[p].event] = x]),
         Is(p, r), file' = r.mem, UNCHANGED World, Later,
         \A d \in Event : d # poller[p].event => post'[d] = post[d],
         Track(r.mem, poller[p].event, post', history')
  PROVE  CardsOK'
<1> DEFINE q == poller[p]
           e == q.event
<1>1. q.alive /\ q.at = "deliver" /\ e \in Event /\ ~q.mem.card[e]
  BY DeliveryNow
<1>2. /\ \A d \in Event : SameCard(q.mem, r.mem, d)
      /\ r.alive /\ r.at # "deliver" /\ r.seen \in {q.seen, Unseen}
  BY AbandonIs
<1>3. Stamp(r.mem, e, post')
  BY <1>1, <1>2, Zenon DEF Stamp, SameCard
<1> QED BY <1>1, <1>2, <1>3, CardsStep

LEMMA DeliverFailsCards ==
  ASSUME IInv, ~Overlapped, CardsOK, NEW p \in Poller, DeliverFails(p) \/ ForumRefuses(p)
  PROVE  CardsOK'
<1> DEFINE q == poller[p]
           e == q.event
<1>1. PICK x : LET r == Resume([q EXCEPT !.mem.pending[e] = x])
               IN  /\ Delivering(p) /\ Is(p, r) /\ file' = r.mem
                   /\ UNCHANGED <<post, history, World>>
  BY Zenon DEF DeliverFails, ForumRefuses, Fail, Unsure, Save
<1> DEFINE r == Resume([q EXCEPT !.mem.pending[e] = x])
<1>2. e \in Event /\ Track(q.mem, e, post, history)
  BY <1>1, DeliveryNow
<1>3. \A d \in Event : SameCard(q.mem, r.mem, d)
  BY <1>1, AbandonIs
<1>4. Track(r.mem, e, post', history') /\ Later
  <2> HIDE DEF r
  <2> QED BY <1>1, <1>2, <1>3, SameIsLater DEF Track, SameCard
<1> QED BY <1>1, <1>4, AbandonCards

LEMMA AnswerLostCards ==
  ASSUME IInv, ~Overlapped, CardsOK, NEW p \in Poller, AnswerLost(p)
  PROVE  CardsOK'
<1> DEFINE q == poller[p]
           e == q.event
<1>1. PICK x : LET r == Resume([q EXCEPT !.mem.pending[e] = x])
               IN  Is(p, r) /\ file' = r.mem
  BY DEF AnswerLost, Fail, Unsure, Save
<1>2. /\ Delivering(p) /\ Posted(e, IF Mode(p) = "message" THEN "none" ELSE "open")
      /\ Remember({e}, "lost") /\ UNCHANGED World
  BY DEF AnswerLost
<1> DEFINE r == Resume([q EXCEPT !.mem.pending[e] = x])
           thread == IF Mode(p) = "message" THEN "none" ELSE "open"
<1>3. e \in Event /\ WorldOK /\ Posted(e, thread)
  BY <1>2, DeliveryNow
<1> HIDE DEF thread
<1>4. \A d \in Event : d # e => post'[d] = post[d]
  BY <1>3, PostedRow
<1>5. Track(r.mem, e, post', history') /\ Later
  <2> HIDE DEF r
  <2> QED BY <1>2, <1>3, RememberIsLater DEF Track, Remember
<1> QED BY <1>1, <1>2, <1>4, <1>5, AbandonCards

LEMMA CardedRow ==
  ASSUME IInv, CardsOK, NEW p \in Poller, CardFits(p), Carded(p), Later
  PROVE  LET q == poller[p]
             e == q.event
             i == q.mem.thread[e]
         IN  /\ \A d \in Event : d # e => post'[d] = post[d]
             /\ post'[e][i].shows = q.detail
             /\ Track(q.mem, e, post', history')
<1> DEFINE q == poller[p]
           e == q.event
<1>a. PICK i : i = q.mem.thread[e]
  OBVIOUS
<1>b. PICK row : row = [post[e][i] EXCEPT !.shows = q.detail,
                                          !.cards = IF Mode(p) = "forum" THEN 1
                                                    ELSE post[e][i].cards + 1]
  OBVIOUS
<1>1. post' = [post EXCEPT ![e][i] = row] /\ Delivering(p) /\ i # 0
  BY <1>a, <1>b, Zenon DEF Carded, CardFits, NoThread
<1>2. /\ WorldOK /\ e \in Event /\ Track(q.mem, e, post, history)
      /\ i \in Nat /\ i <= Len(post[e])
  BY <1>1, <1>a, DeliveryNow
<1>3. /\ \A d \in Event : d # e => post'[d] = post[d]
      /\ DOMAIN post'[e] = DOMAIN post[e]
      /\ \A j \in DOMAIN post[e] : j # i => post'[e][j] = post[e][j]
      /\ i \in DOMAIN post[e] => post'[e][i] = row
  BY <1>1, <1>2, RowIs DEF RowPut
<1>4. i \in DOMAIN post[e]
  BY <1>1, <1>2, PostsAre
<1>5. post[e][i] \in PostState
  BY <1>2, <1>4, PostsAre
<1>6. row.shows = q.detail
  BY <1>5, <1>b DEF PostState
<1>7. Track(q.mem, e, post', history')
  BY <1>2, <1>3, <1>a, TrackMoves
<1> QED BY <1>3, <1>4, <1>6, <1>7, <1>a

LEMMA CardLostCards ==
  ASSUME IInv, ~Overlapped, CardsOK, NEW p \in Poller, CardLost(p)
  PROVE  CardsOK'
<1> DEFINE q == poller[p]
           e == q.event
           x == "failed"
           r == Resume([q EXCEPT !.mem.pending[e] = x])
<1>1. /\ CardFits(p) /\ Carded(p) /\ Is(p, r) /\ file' = r.mem /\ UNCHANGED <<history, World>>
  BY DEF CardLost, Fail, Save
<1> HIDE DEF x
<1>2. Delivering(p) /\ Later
  BY <1>1, SameIsLater DEF CardFits
<1>3. e \in Event
  BY <1>2, DeliveryNow
<1>4. /\ \A d \in Event : d # e => post'[d] = post[d]
      /\ Track(q.mem, e, post', history')
  BY <1>1, <1>2, CardedRow
<1>5. \A d \in Event : SameCard(q.mem, r.mem, d)
  BY <1>2, AbandonIs
<1>6. Track(r.mem, e, post', history')
  <2> HIDE DEF r
  <2> QED BY <1>3, <1>4, <1>5 DEF Track, SameCard
<1> QED BY <1>1, <1>2, <1>4, <1>6, AbandonCards

LEMMA SendCardCards ==
  ASSUME IInv, ~Overlapped, CardsOK, NEW p \in Poller, SendCard(p)
  PROVE  CardsOK'
<1> DEFINE q == poller[p]
           e == q.event
           n == q.detail
           yes == TRUE
           x == "none"
           k == q.mem
           m == [k EXCEPT !.card[e] = yes, !.shown[e] = n, !.pending[e] = x]
           t == [q EXCEPT !.mem.card[e] = yes, !.mem.shown[e] = n, !.mem.pending[e] = x]
           r == Resume(t)
<1>1. /\ CardFits(p) /\ Carded(p) /\ Is(p, r) /\ file' = r.mem /\ UNCHANGED <<history, World>>
  BY DEF SendCard, Save
<1>2. Delivering(p) /\ Later
  BY <1>1, SameIsLater, Zenon DEF CardFits
<1>3. /\ q.alive /\ e \in Event /\ DOMAIN q = Fields /\ k \in Memory
      /\ q.then \in {"announce", "restored"} /\ n <= rev[e]
  BY <1>2, DeliveryNow
<1>4. /\ \A d \in Event : d # e => post'[d] = post[d]
      /\ post'[e][k.thread[e]].shows = n
      /\ Track(k, e, post', history')
  BY <1>1, <1>2, CardedRow, Zenon
<1>5. yes = TRUE
  OBVIOUS
<1> HIDE DEF x, n, yes
<1>6. /\ m.thread = k.thread /\ DOMAIN m = DOMAIN k /\ m.shown[e] = n
      /\ \A d \in Event : d # e => m.shown[d] = k.shown[d] /\ m.card[d] = k.card[d]
  BY <1>3 DEF Memory
<1>7. DOMAIN t = Fields /\ t.mem = m /\ t.alive = q.alive /\ t.seen = q.seen /\ t.then = q.then
  <2> HIDE DEF e
  <2> QED BY <1>3 DEF Fields
<1> HIDE DEF m, t
<1>8. /\ \A d \in Event : SameCard(m, r.mem, d)
      /\ r.alive /\ r.at # "deliver" /\ r.seen \in {q.seen, Unseen}
  BY <1>3, <1>6, <1>7, ResumeStill
<1> HIDE DEF r
<1>9. \A d \in Event : d # e => SameCard(k, r.mem, d)
  BY <1>6, <1>8 DEF SameCard
<1>10. r.mem.thread[e] = k.thread[e] /\ r.mem.shown[e] = n
  BY <1>3, <1>6, <1>8 DEF SameCard
<1>11. rev' = rev /\ status' = status
  BY <1>1 DEF World
<1>12. Stamp(r.mem, e, post')
  BY <1>3, <1>4, <1>10 DEF Stamp
<1>13. Track(r.mem, e, post', history')
  BY <1>4, <1>10 DEF Track
<1> QED BY <1>1, <1>2, <1>3, <1>4, <1>8, <1>9, <1>12, <1>13, CardsStep

\* A poller that goes on and has forgotten the thread of an event.
Forgets(q, r, e) == /\ r.alive \in {q.alive, TRUE} /\ r.at # "deliver" /\ r.seen \in {q.seen, Unseen}
                    /\ ~r.mem.card[e] /\ \A d \in Event : d # e => SameCard(q.mem, r.mem, d)

LEMMA ForgetsIs ==
  ASSUME NEW q, DOMAIN q = Fields, q.mem \in Memory, q.at # "deliver", NEW e \in Event
  PROVE  Forgets(q, After(Forgotten(q, e)), e)
<1> DEFINE z == 0
           no == FALSE
           x == "none"
           k == q.mem
           m == [k EXCEPT !.thread[e] = z, !.parent[e] = z, !.card[e] = no, !.shown[e] = z,
                          !.pending[e] = x]
           t == [q EXCEPT !.mem.thread[e] = z, !.mem.parent[e] = z, !.mem.card[e] = no,
                          !.mem.shown[e] = z, !.mem.pending[e] = x]
           r == After(t)
<1>1. Forgotten(q, e) = t /\ no = FALSE
  BY DEF Forgotten
<1> HIDE DEF z, no, x
<1>2. /\ m.card[e] = no
      /\ \A d \in Event : d # e => /\ m.thread[d] = k.thread[d] /\ m.card[d] = k.card[d]
                                   /\ m.shown[d] = k.shown[d]
  BY DEF Memory
<1>3. DOMAIN t = Fields /\ t.mem = m /\ t.alive = q.alive /\ t.seen = q.seen /\ t.at = q.at
  BY DEF Fields
<1> HIDE DEF m, t
<1>4. /\ r.mem = t.mem /\ r.alive \in {t.alive, TRUE} /\ r.at # "deliver"
      /\ r.seen \in {t.seen, Unseen}
  BY <1>3, AfterStill
<1> HIDE DEF r
<1>5. Forgets(q, r, e)
  <2>1. r.mem = m /\ r.seen \in {q.seen, Unseen} /\ r.alive \in {q.alive, TRUE} /\ r.at # "deliver"
    BY <1>3, <1>4
  <2>2. ~r.mem.card[e]
    BY <1>1, <1>2, <2>1
  <2>3. \A d \in Event : d # e => SameCard(k, r.mem, d)
    BY <1>2, <2>1 DEF SameCard
  <2> QED BY <2>1, <2>2, <2>3 DEF Forgets
<1> QED BY <1>1, <1>5 DEF r

\* ... and one that has noted that it removes an announcement.
LEMMA RemovingStill ==
  ASSUME NEW q, DOMAIN q = Fields, q.mem \in Memory, NEW e \in Event
  PROVE  /\ Alike(q, Removing(q, e)) /\ Removing(q, e).mem \in Memory
         /\ Removing(q, e).mem.card = q.mem.card /\ Removing(q, e).mem.shown = q.mem.shown
         /\ Removing(q, e).mem.thread = q.mem.thread
<1> DEFINE k == q.mem
           R == k.removed \cup {e}
           m == [k EXCEPT !.removed = R]
           r == [q EXCEPT !.mem.removed = R]
<1>1. Removing(q, e) = r
  BY DEF Removing
<1>2. R \in SUBSET Event
  BY DEF Memory
<1> HIDE DEF R
<1>3. /\ m \in Memory /\ m.thread = k.thread /\ m.card = k.card /\ m.shown = k.shown
      /\ DOMAIN m = DOMAIN k
  BY <1>2 DEF Memory
<1>4. /\ DOMAIN r = Fields /\ r.alive = q.alive /\ r.at = q.at /\ r.seen = q.seen
      /\ r.event = q.event /\ r.detail = q.detail /\ r.then = q.then /\ r.mem = m
  BY DEF Fields
<1> HIDE DEF m, r
<1>5. Alike(q, r)
  BY <1>3, <1>4 DEF Alike, SameCard
<1> QED BY <1>1, <1>3, <1>4, <1>5

\* A thread on record that is closed leaves none open.
LEMMA ClosedTrack ==
  ASSUME WorldOK, NEW e \in Event, NEW i, NEW row, post' = [post EXCEPT ![e][i] = row],
         i \in DOMAIN post[e] => row.thread # "open",
         NEW m, m.thread[e] = i, Track(m, e, post, history), Later, NEW k
  PROVE  Track(k, e, post', history')
<1>1. /\ DOMAIN post'[e] = DOMAIN post[e]
      /\ \A j \in DOMAIN post[e] : j # i => post'[e][j] = post[e][j]
      /\ i \in DOMAIN post[e] => post'[e][i] = row
  <2>1. RowPut(e, i, row)
    BY RowIs
  <2> QED BY <2>1 DEF RowPut
<1> QED BY <1>1, TrackMoves

LEMMA ForgetCards ==
  ASSUME IInv, ~Overlapped, CardsOK, NEW p \in Poller, poller[p].alive, NEW e \in Event,
         NEW r, Forgets(poller[p], r, e), Is(p, r), file' = r.mem, UNCHANGED World, Later,
         \A d \in Event : d # e => post'[d] = post[d],
         Track(r.mem, e, post', history')
  PROVE  CardsOK'
<1>1. r.alive /\ r.at # "deliver" /\ r.seen \in {poller[p].seen, Unseen}
      /\ \A d \in Event : d # e => SameCard(poller[p].mem, r.mem, d)
  BY DEF Forgets
<1>2. Stamp(r.mem, e, post')
  BY DEF Forgets, Stamp
<1> QED BY <1>1, <1>2, CardsStep

\* What is known of the head of a list.
LEMMA ListNow ==
  ASSUME IInv, CardsOK, NEW p \in Poller, poller[p].alive, poller[p].at \in Lists,
         poller[p].todo # <<>>
  PROVE  LET q == poller[p]
             e == Head(q.todo)
         IN  /\ WorldOK /\ e \in Event /\ q.at # "deliver" /\ DOMAIN q = Fields /\ q.mem \in Memory
             /\ Stamp(q.mem, e, post) /\ Track(q.mem, e, post, history)
             /\ q.seen[e].rev <= rev[e]
             /\ q.seen[e].status = "cancelled" /\ q.seen[e].rev = rev[e] => status[e] = "cancelled"
             /\ rev[e] \in Nat
             /\ q.mem.thread[e] # 0 => q.mem.thread[e] \in DOMAIN post[e]
<1> DEFINE q == poller[p]
           e == Head(q.todo)
<1>1. e \in Event
  BY BusyIs
<1>2. WorldOK /\ q \in Task /\ q.mem \in Memory /\ MemOK(q.mem, Facts)
  BY AliveIs
<1>3. DOMAIN q = Fields /\ q.at # "deliver"
  BY <1>2, TaskHasFields DEF Lists
<1>4. Honest(q.mem, post, history) /\ SeenTrue(q)
  BY DEF CardsOK
<1>5. /\ Stamp(q.mem, e, post) /\ Track(q.mem, e, post, history)
      /\ q.seen[e].rev <= rev[e]
      /\ q.seen[e].status = "cancelled" /\ q.seen[e].rev = rev[e] => status[e] = "cancelled"
  BY <1>1, <1>4 DEF Honest, SeenTrue
<1>6. rev[e] \in Nat
  BY <1>1, <1>2 DEF WorldOK
<1>7. q.mem.thread[e] \in Nat /\ q.mem.thread[e] <= Facts.posts[e]
  BY <1>1, <1>2, FieldsOfMemory DEF MemOK
<1>8. Facts.posts[e] = Len(post[e]) /\ DOMAIN post[e] = 1..Len(post[e]) /\ Len(post[e]) \in Nat
  BY <1>1, <1>2, FieldsOfFacts, PostsAre
<1> QED BY <1>1, <1>2, <1>3, <1>5, <1>6, <1>7, <1>8

LEMMA ClosingNow ==
  ASSUME NEW p, NEW s, Closing(p, s)
  PROVE  /\ poller[p].alive /\ poller[p].at = "close" /\ poller[p].at \in Lists
         /\ poller[p].todo # <<>> /\ poller[p].seen[Head(poller[p].todo)].status = s
  BY DEF Closing, Busy, Phase, Lists

LEMMA ForgetClosedCards ==
  ASSUME IInv, ~Overlapped, CardsOK, NEW p \in Poller, ForgetClosed(p)
  PROVE  CardsOK'
<1> DEFINE q == poller[p]
           e == Head(q.todo)
           r == After(Forgotten(q, e))
<1>1. /\ Gone(e, q.mem.thread[e]) /\ Is(p, r) /\ file' = r.mem /\ UNCHANGED <<post, history, World>>
      /\ \E s : Closing(p, s)
  BY DEF ForgetClosed, Save, Quiet
<1>2. q.alive /\ q.at \in Lists /\ q.todo # <<>>
  BY <1>1, ClosingNow
<1>3. /\ e \in Event /\ q.at # "deliver" /\ DOMAIN q = Fields /\ q.mem \in Memory
      /\ Track(q.mem, e, post, history)
  BY <1>2, ListNow
<1>4. Forgets(q, r, e) /\ Later
  BY <1>1, <1>3, ForgetsIs, SameIsLater
<1> HIDE DEF r
<1>5. Track(r.mem, e, post', history')
  BY <1>1, <1>3, <1>4, TrackMoves DEF Gone
<1> QED BY <1>1, <1>2, <1>3, <1>4, <1>5, ForgetCards

LEMMA DeletePostCards ==
  ASSUME IInv, ~Overlapped, CardsOK, NEW p \in Poller, DeletePost(p)
  PROVE  CardsOK'
<1> DEFINE q == poller[p]
           e == Head(q.todo)
           r == Removing(q, e)
<1>a. PICK i : i = q.mem.thread[e]
  OBVIOUS
<1>b. PICK row : row = [post[e][i] EXCEPT !.thread = "deleted"]
  BY Zenon
<1>1. /\ Closing(p, "archived") /\ Is(p, r) /\ file' = r.mem /\ UNCHANGED <<history, World>>
      /\ post' = [post EXCEPT ![e][i] = row]
  BY <1>a, <1>b, Zenon DEF DeletePost, Save
<1>2. q.alive /\ q.at \in Lists /\ q.todo # <<>>
  BY <1>1, ClosingNow
<1>3. /\ WorldOK /\ e \in Event /\ q.at # "deliver" /\ DOMAIN q = Fields /\ q.mem \in Memory
      /\ Stamp(q.mem, e, post) /\ Track(q.mem, e, post, history)
      /\ i # 0 => i \in DOMAIN post[e]
  BY <1>2, <1>a, ListNow
<1>4. /\ Alike(q, r) /\ r.mem.card = q.mem.card /\ r.mem.shown = q.mem.shown
      /\ r.mem.thread = q.mem.thread /\ Later
  BY <1>1, <1>3, RemovingStill, SameIsLater
<1> HIDE DEF r
<1>5. i \in DOMAIN post[e] => row.thread = "deleted" /\ row.shows = post[e][i].shows
  <2>1. i \in DOMAIN post[e] => post[e][i] \in PostState
    BY <1>3, PostsAre
  <2> QED BY <2>1, <1>b DEF PostState
<1>6. Track(r.mem, e, post', history')
  BY <1>1, <1>3, <1>4, <1>5, <1>a, ClosedTrack, Zenon
<1>7. /\ \A d \in Event : d # e => post'[d] = post[d]
      /\ i \in DOMAIN post[e] => post'[e][i] = row
  BY <1>1, <1>3, RowIs, Zenon DEF RowPut
<1>8. Stamp(r.mem, e, post')
  BY <1>3, <1>4, <1>5, <1>7, <1>a, Zenon DEF Stamp
<1>9. r.alive /\ r.at # "deliver" /\ r.seen = q.seen /\ \A d \in Event : SameCard(q.mem, r.mem, d)
  BY <1>2, <1>3, <1>4 DEF Alike
<1> QED BY <1>1, <1>2, <1>3, <1>4, <1>6, <1>7, <1>8, <1>9, CardsStep

LEMMA DeleteRefusedCards ==
  ASSUME IInv, ~Overlapped, CardsOK, NEW p \in Poller, DeleteRefused(p)
  PROVE  CardsOK'
<1> DEFINE q == poller[p]
           e == Head(q.todo)
           v == Removing(q, e)
           locked == After(Forgotten(v, e))
           kept == After(v)
<1>a. PICK i : i = q.mem.thread[e]
  OBVIOUS
<1>b. PICK row : row = [post[e][i] EXCEPT !.thread = "locked"]
  BY Zenon
<1>1. /\ Closing(p, "archived") /\ UNCHANGED World
      /\ \/ /\ post' = [post EXCEPT ![e][i] = row] /\ Is(p, locked) /\ file' = locked.mem
            /\ Remember({e}, "lost")
         \/ UNCHANGED <<post, history>> /\ Is(p, kept) /\ file' = kept.mem
  BY <1>a, <1>b, Zenon DEF DeleteRefused, Save, Locked
<1>2. q.alive /\ q.at \in Lists /\ q.todo # <<>>
  BY <1>1, ClosingNow
<1>3. /\ WorldOK /\ e \in Event /\ q.at # "deliver" /\ DOMAIN q = Fields /\ q.mem \in Memory
  BY <1>2, ListNow
<1>4. Alike(q, v) /\ v.mem \in Memory
  BY <1>3, RemovingStill
<1> HIDE DEF v
<1>5. /\ DOMAIN v = Fields /\ v.at # "deliver" /\ v.alive = q.alive /\ v.seen = q.seen
      /\ \A d \in Event : SameCard(q.mem, v.mem, d)
  BY <1>3, <1>4 DEF Alike
<1>6. CASE /\ post' = [post EXCEPT ![e][i] = row] /\ Is(p, locked) /\ file' = locked.mem
           /\ Remember({e}, "lost")
  <2>1. Forgets(v, locked, e)
    BY <1>3, <1>4, <1>5, ForgetsIs
  <2> HIDE DEF locked
  <2>2. Forgets(q, locked, e)
    BY <1>5, <2>1 DEF Forgets, SameCard
  <2>3. \A d \in Event : d # e => post'[d] = post[d]
    BY <1>3, <1>6, RowIs DEF RowPut
  <2>4. Later /\ Track(locked.mem, e, post', history')
    BY <1>3, <1>6, RememberIsLater DEF Track, Remember
  <2> QED BY <1>1, <1>2, <1>3, <1>6, <2>2, <2>3, <2>4, ForgetCards
<1>7. CASE UNCHANGED <<post, history>> /\ Is(p, kept) /\ file' = kept.mem
  <2>1. /\ kept.mem = v.mem /\ kept.alive \in {v.alive, TRUE} /\ kept.at # "deliver"
        /\ kept.seen \in {v.seen, Unseen}
    BY <1>5, AfterStill
  <2> HIDE DEF kept
  <2>2. Still(q, kept) /\ Later
    BY <1>2, <1>5, <1>7, <2>1, SameIsLater DEF Still
  <2> QED BY <1>1, <1>2, <1>7, <2>1, <2>2, StillCards
<1> QED BY <1>1, <1>6, <1>7

LEMMA LockOverCards ==
  ASSUME IInv, ~Overlapped, CardsOK, NEW p \in Poller, LockOver(p)
  PROVE  CardsOK'
<1> DEFINE q == poller[p]
           e == Head(q.todo)
           r == After(Forgotten(q, e))
<1>a. PICK i : i = q.mem.thread[e]
  OBVIOUS
<1>b. PICK row : row = [post[e][i] EXCEPT !.thread = "locked", !.shows = rev[e]]
  OBVIOUS
<1>1. /\ Closing(p, "over") /\ Is(p, r) /\ file' = r.mem /\ UNCHANGED <<history, World>>
      /\ post' = [post EXCEPT ![e][i] = row]
  BY <1>a, <1>b, Zenon DEF LockOver, Save
<1>2. q.alive /\ q.at \in Lists /\ q.todo # <<>>
  BY <1>1, ClosingNow
<1>3. /\ WorldOK /\ e \in Event /\ q.at # "deliver" /\ DOMAIN q = Fields /\ q.mem \in Memory
      /\ Track(q.mem, e, post, history)
  BY <1>2, ListNow
<1>4. Forgets(q, r, e) /\ Later
  BY <1>1, <1>3, ForgetsIs, SameIsLater
<1> HIDE DEF r
<1>5. i \in DOMAIN post[e] => row.thread = "locked"
  <2>1. i \in DOMAIN post[e] => post[e][i] \in PostState
    BY <1>3, PostsAre
  <2> QED BY <2>1, <1>b DEF PostState
<1>6. Track(r.mem, e, post', history')
  BY <1>1, <1>3, <1>4, <1>5, <1>a, ClosedTrack, Zenon
<1>7. \A d \in Event : d # e => post'[d] = post[d]
  BY <1>1, <1>3, RowIs DEF RowPut
<1> QED BY <1>1, <1>2, <1>3, <1>4, <1>6, <1>7, ForgetCards, Zenon

\* A poller that has another revision stamped on a card.
Stamped(q, r, e, n) ==
  /\ DOMAIN r = Fields /\ r.alive = q.alive /\ r.at = q.at /\ r.seen = q.seen
  /\ r.mem.thread = q.mem.thread /\ r.mem.card = q.mem.card /\ r.mem.shown[e] = n
  /\ \A d \in Event : d # e => r.mem.shown[d] = q.mem.shown[d]

LEMMA StampedIs ==
  ASSUME NEW q, DOMAIN q = Fields, q.mem \in Memory, NEW e \in Event, NEW n
  PROVE  Stamped(q, [q EXCEPT !.mem.shown[e] = n], e, n)
<1> DEFINE k == q.mem
           m == [k EXCEPT !.shown[e] = n]
           r == [q EXCEPT !.mem.shown[e] = n]
<1>1. r = [q EXCEPT !.mem = m]
  OBVIOUS
<1>2. /\ m.thread = k.thread /\ m.card = k.card /\ m.shown[e] = n
      /\ \A d \in Event : d # e => m.shown[d] = k.shown[d]
  BY DEF Memory
<1> HIDE DEF m, r
<1>3. DOMAIN r = Fields /\ r.alive = q.alive /\ r.at = q.at /\ r.seen = q.seen /\ r.mem = m
  BY <1>1 DEF Fields
<1>4. Stamped(q, r, e, n)
  BY <1>2, <1>3, SMTT(30) DEF Stamped
<1> QED BY <1>4 DEF r

\* A poller that goes on after it has refreshed, or has left, the card at the head of
\* its list.
LEMMA RefreshCards ==
  ASSUME IInv, ~Overlapped, CardsOK, NEW p \in Poller, poller[p].alive, poller[p].at \in Lists,
         poller[p].todo # <<>>, UNCHANGED World, history' = history,
         NEW e, e = Head(poller[p].todo), NEW s, NEW n,
         s = poller[p] \/ Stamped(poller[p], s, e, n),
         Is(p, After(s)), file' = s.mem,
         NEW i, i = poller[p].mem.thread[e], NEW row,
         post' = post \/ post' = [post EXCEPT ![e][i] = row],
         Stamp(s.mem, e, post')
  PROVE  CardsOK'
<1> DEFINE q == poller[p]
           r == After(s)
<1>1. /\ WorldOK /\ e \in Event /\ q.at # "deliver" /\ DOMAIN q = Fields /\ q.mem \in Memory
      /\ Track(q.mem, e, post, history)
  BY ListNow
<1>2. /\ DOMAIN s = Fields /\ s.alive = q.alive /\ s.at = q.at /\ s.seen = q.seen
      /\ s.mem.thread = q.mem.thread /\ s.mem.card = q.mem.card
      /\ \A d \in Event : d # e => s.mem.shown[d] = q.mem.shown[d]
  BY <1>1, ZenonT(30) DEF Stamped
<1>3. /\ \A d \in Event : d # e => post'[d] = post[d]
      /\ DOMAIN post'[e] = DOMAIN post[e]
      /\ \A j \in DOMAIN post[e] : j # i => post'[e][j] = post[e][j]
  <2>1. CASE post' = post
    BY <2>1
  <2>2. CASE post' = [post EXCEPT ![e][i] = row]
    <3>1. RowPut(e, i, row)
      BY <1>1, <2>2, RowIs, Zenon
    <3> QED BY <3>1, Zenon DEF RowPut
  <2> QED BY <2>1, <2>2, Zenon
<1>4. /\ r.mem = s.mem /\ r.alive \in {s.alive, TRUE} /\ r.at # "deliver"
      /\ r.seen \in {s.seen, Unseen}
  BY <1>1, <1>2, AfterStill
<1> HIDE DEF r
<1>5. Later
  BY SameIsLater
<1>6. Track(r.mem, e, post', history')
  <2>1. r.mem.thread[e] = i /\ q.mem.thread[e] = i
    BY <1>2, <1>4
  <2>2. \A j \in DOMAIN post'[e] :
          post'[e][j].thread = "open" =>
            \/ j = r.mem.thread[e]
            \/ j \in DOMAIN post[e] /\ post[e][j].thread = "open" /\ j # q.mem.thread[e]
    BY <1>3, <2>1, Zenon
  <2> QED BY <1>1, <1>5, <2>2, TrackMoves, Zenon
<1>7. \A d \in Event : d # e => SameCard(q.mem, r.mem, d)
  BY <1>2, <1>4 DEF SameCard
<1>8. Stamp(r.mem, e, post') /\ file' = r.mem /\ r.alive /\ r.seen \in {q.seen, Unseen}
  BY <1>2, <1>4
<1>9. Is(p, r)
  BY DEF r
<1> QED BY <1>1, <1>3, <1>4, <1>5, <1>6, <1>7, <1>8, <1>9, CardsStep, SMTT(30)

LEMMA LockCancelledCards ==
  ASSUME IInv, ~Overlapped, CardsOK, NEW p \in Poller, LockCancelled(p)
  PROVE  CardsOK'
<1> DEFINE q == poller[p]
           e == Head(q.todo)
<1>a. PICK i : i = q.mem.thread[e]
  OBVIOUS
<1>b. PICK row : row = [post[e][i] EXCEPT !.thread = "locked",
                                          !.shows = IF q.mem.card[e] THEN rev[e]
                                                    ELSE post[e][i].shows]
  OBVIOUS
<1>c. PICK n : n = rev[e]
  OBVIOUS
<1> DEFINE t == [q EXCEPT !.mem.shown[e] = n]
           s == IF q.mem.card[e] THEN t ELSE q
<1>1. /\ Closing(p, "cancelled") /\ Is(p, After(s)) /\ file' = s.mem /\ UNCHANGED <<history, World>>
      /\ post' = [post EXCEPT ![e][i] = row]
  BY <1>a, <1>b, <1>c, Zenon DEF LockCancelled, Save
<1>2. q.alive /\ q.at \in Lists /\ q.todo # <<>>
  BY <1>1, ClosingNow
<1>3. /\ WorldOK /\ e \in Event /\ DOMAIN q = Fields /\ q.mem \in Memory /\ rev[e] \in Nat
      /\ i # 0 => i \in DOMAIN post[e]
  BY <1>2, <1>a, ListNow
<1>4. Stamped(q, t, e, n)
  BY <1>3, StampedIs
<1>5. i # 0 /\ q.mem.card[e] => post'[e][i].shows = rev[e]
  <2>1. i \in DOMAIN post[e] => post'[e][i] = row
    BY <1>1, <1>3, RowIs, Zenon DEF RowPut
  <2>2. i \in DOMAIN post[e] => post[e][i] \in PostState
    BY <1>3, PostsAre
  <2>3. i \in DOMAIN post[e] /\ q.mem.card[e] => row.shows = rev[e]
    BY <2>2, <1>b DEF PostState
  <2> QED BY <1>3, <2>1, <2>3
<1>6. (s = q /\ ~q.mem.card[e]) \/ s = t
  OBVIOUS
<1> HIDE DEF s, t
<1>7. Stamp(s.mem, e, post')
  <2>1. CASE s = q /\ ~q.mem.card[e]
    BY <2>1 DEF Stamp
  <2>2. CASE s = t
    <3>1. s.mem.card[e] = q.mem.card[e] /\ s.mem.thread[e] = i /\ s.mem.shown[e] = rev[e]
      BY <1>4, <2>2, <1>a, <1>c DEF Stamped
    <3> QED BY <1>3, <1>5, <3>1 DEF Stamp
  <2> QED BY <1>6, <2>1, <2>2, SMTT(30)
<1>8. s = q \/ Stamped(q, s, e, n)
  BY <1>4, <1>6
<1>9. PICK f : f = e
  OBVIOUS
<1> QED BY <1>1, <1>2, <1>7, <1>8, <1>9, <1>a, RefreshCards, Zenon

LEMMA StampCancelledCards ==
  ASSUME IInv, ~Overlapped, CardsOK, NEW p \in Poller, StampCancelled(p)
  PROVE  CardsOK'
<1> DEFINE q == poller[p]
           e == Head(q.todo)
<1>a. PICK i : i = q.mem.thread[e]
  OBVIOUS
<1>c. PICK n : n = q.seen[e].rev
  OBVIOUS
<1> DEFINE s == [q EXCEPT !.mem.shown[e] = n]
<1>1. /\ Closing(p, "cancelled") /\ Is(p, After(s)) /\ file' = s.mem
      /\ UNCHANGED <<post, history, World>>
  BY <1>c, Zenon DEF StampCancelled, Save, Quiet
<1>2. q.alive /\ q.at \in Lists /\ q.todo # <<>> /\ q.seen[e].status = "cancelled"
  BY <1>1, ClosingNow
<1>3. /\ e \in Event /\ DOMAIN q = Fields /\ q.mem \in Memory
      /\ n <= rev[e] /\ (n = rev[e] => status[e] = "cancelled")
  BY <1>2, <1>c, ListNow
<1>4. Stamped(q, s, e, n)
  BY <1>3, StampedIs
<1> HIDE DEF s
<1>5. Stamp(s.mem, e, post')
  BY <1>3, <1>4 DEF Stamp, Stamped
<1>9. PICK f : f = e
  OBVIOUS
<1> QED BY <1>1, <1>2, <1>4, <1>5, <1>9, <1>a, RefreshCards

LEMMA LockRefusedCards ==
  ASSUME IInv, ~Overlapped, CardsOK, NEW p \in Poller, LockRefused(p)
  PROVE  CardsOK'
<1> DEFINE q == poller[p]
           e == Head(q.todo)
           r == After(Forgotten(q, e))
<1>1. /\ \E s : Closing(p, s)
      /\ UNCHANGED <<post, World>>
      /\ \/ Is(p, After(q)) /\ UNCHANGED <<file, history>>
         \/ Is(p, r) /\ file' = r.mem /\ Remember({e}, "lost")
  BY DEF LockRefused, Save
<1>2. q.alive /\ q.at \in Lists /\ q.todo # <<>>
  BY <1>1, ClosingNow
<1>3. e \in Event /\ q.at # "deliver" /\ DOMAIN q = Fields /\ q.mem \in Memory
  BY <1>2, ListNow
<1>4. CASE Is(p, After(q)) /\ UNCHANGED <<file, history>>
  BY <1>1, <1>2, <1>3, <1>4, PassStill
<1>5. CASE Is(p, r) /\ file' = r.mem /\ Remember({e}, "lost")
  <2>1. Forgets(q, r, e)
    BY <1>3, ForgetsIs
  <2> HIDE DEF r
  <2>2. Later /\ Track(r.mem, e, post', history')
    BY <1>3, <1>5, RememberIsLater, Zenon DEF Track, Remember
  <2> QED BY <1>1, <1>2, <1>3, <1>5, <2>1, <2>2, ForgetCards
<1> QED BY <1>1, <1>4, <1>5

LEMMA SyncCards ==
  ASSUME IInv, ~Overlapped, CardsOK, NEW p \in Poller, Sync(p)
  PROVE  CardsOK'
<1> DEFINE q == poller[p]
           e == Head(q.todo)
           due == /\ q.seen[e].status \in {"scheduled", "live", "archived"}
                  /\ q.mem.shown[e] # q.seen[e].rev /\ ~Gone(e, q.mem.thread[e])
<1>a. PICK i : i = q.mem.thread[e]
  OBVIOUS
<1>b. PICK row : row = [post[e][i] EXCEPT !.thread = "open",
                                          !.shows = IF q.mem.card[e] THEN rev[e]
                                                    ELSE post[e][i].shows]
  OBVIOUS
<1>c. PICK n : n = q.seen[e].rev
  OBVIOUS
<1> DEFINE t == [q EXCEPT !.mem.shown[e] = n]
           s == IF due /\ q.mem.card[e] THEN t ELSE q
<1>1. /\ q.alive /\ q.at = "roster" /\ q.todo # <<>> /\ Is(p, After(s))
      /\ IF s.mem # q.mem THEN file' = s.mem ELSE file' = file
      /\ UNCHANGED <<history, World>>
      /\ post' = IF due THEN [post EXCEPT ![e][i] = row] ELSE post
  BY <1>a, <1>b, <1>c, Zenon DEF Sync, Save, Busy, Phase
<1>2. q.at \in Lists
  BY <1>1, Zenon DEF Lists
<1>3. /\ WorldOK /\ e \in Event /\ DOMAIN q = Fields /\ q.mem \in Memory
      /\ Stamp(q.mem, e, post) /\ n <= rev[e]
      /\ i # 0 => i \in DOMAIN post[e]
  BY <1>1, <1>2, <1>a, <1>c, ListNow, Zenon
<1>4. Stamped(q, t, e, n)
  BY <1>3, StampedIs
<1>5. due /\ i # 0 /\ q.mem.card[e] => post'[e][i].shows = rev[e]
  <2>1. due /\ i \in DOMAIN post[e] => post'[e][i] = row
    <3>1. ASSUME post' = [post EXCEPT ![e][i] = row] PROVE i \in DOMAIN post[e] => post'[e][i] = row
      BY <1>3, <3>1, RowIs DEF RowPut
    <3> QED BY <1>1, <3>1, Zenon
  <2>2. i \in DOMAIN post[e] => post[e][i] \in PostState
    BY <1>3, PostsAre
  <2>3. i \in DOMAIN post[e] /\ q.mem.card[e] => row.shows = rev[e]
    BY <2>2, <1>b DEF PostState
  <2> HIDE DEF due
  <2> QED BY <1>3, <2>1, <2>3
<1>6. /\ post' = post \/ post' = [post EXCEPT ![e][i] = row]
      /\ \/ s = q /\ (post' = post \/ ~q.mem.card[e])
         \/ s = t /\ due /\ q.mem.card[e]
  BY <1>1, Zenon
<1>7. file = q.mem
  BY <1>1, Zenon DEF IInv, FileOK, Recorded
<1> HIDE DEF s, t, due
<1>8. Stamp(s.mem, e, post')
  BY <1>3, <1>4, <1>5, <1>6, <1>a, Zenon DEF Stamp, Stamped
<1>9. s = q \/ Stamped(q, s, e, n)
  BY <1>4, <1>6
<1>10. file' = s.mem
  BY <1>1, <1>7
<1>11. PICK f : f = e
  OBVIOUS
<1> QED BY <1>1, <1>2, <1>6, <1>8, <1>9, <1>10, <1>11, <1>a, RefreshCards, Zenon

----------------------------------------------------------------------------
(* The other actions, and the invariant.                                   *)

\* An event that is not there yet has no revision.
Fresh == \A e \in Event : status[e] = "absent" => rev[e] = 0
CInv == Fresh /\ (Overlapped \/ CardsOK)

\* The users only make revisions grow.
LEMMA UsersCards ==
  ASSUME IInv, CardsOK, UNCHANGED <<post, file, poller>>, Later,
         \A e \in Event : \/ rev'[e] = rev[e] /\ status'[e] = status[e]
                          \/ status[e] = "absent" /\ rev[e] = 0 /\ rev'[e] = 1
                          \/ rev'[e] = rev[e] + 1
  PROVE  CardsOK'
<1>1. \A e \in Event : rev[e] \in Nat /\ rev[e] <= rev'[e] /\ rev'[e] \in Nat
                       /\ (rev'[e] = rev[e] => status'[e] = status[e])
  <2>1. \A e \in Event : rev[e] \in Nat
    BY DEF IInv, WorldOK
  <2> QED BY <2>1
<1>2. \A m \in Memory, e \in Event :
        Stamp(m, e, post) => Stamp(m, e, post)'
  <2> SUFFICES ASSUME NEW m \in Memory, NEW e \in Event, Stamp(m, e, post),
                      m.card[e] /\ m.thread[e] # 0
               PROVE  /\ m.shown[e] <= rev'[e]
                      /\ m.shown[e] = rev'[e] /\ status'[e] # "cancelled"
                           => post'[e][m.thread[e]].shows = rev'[e]
    BY DEF Stamp
  <2>1. m.shown[e] \in Nat
    BY FieldsOfMemory
  <2>2. m.shown[e] <= rev[e]
    BY DEF Stamp
  <2>3. m.shown[e] = rev'[e] => rev'[e] = rev[e]
    BY <1>1, <2>1, <2>2
  <2>4. m.shown[e] <= rev'[e]
    BY <1>1, <2>1, <2>2
  <2> QED BY <1>1, <2>3, <2>4 DEF Stamp
<1>3. \A m \in Memory, e \in Event : Track(m, e, post, history) => Track(m, e, post, history)'
  BY DEF Track, Later
<1>4. \A m \in Memory : Honest(m, post, history) => Honest(m, post, history)'
  BY <1>2, <1>3 DEF Honest
<1>5. ASSUME NEW p \in Poller, poller'[p].alive
      PROVE  (Honest(poller[p].mem, post, history) /\ SeenTrue(poller[p])
              /\ DeliverTrue(poller[p], file))'
  <2>1. poller[p].alive
    BY <1>5
  <2>2. poller[p].mem \in Memory /\ poller[p] \in Task /\ PollerOK(poller[p], Facts) /\ FactsOK(Facts)
    BY <2>1, AliveIs
  <2>3. /\ Honest(poller[p].mem, post, history) /\ SeenTrue(poller[p])
        /\ DeliverTrue(poller[p], file)
    BY <2>1 DEF CardsOK
  <2>4. /\ \A e \in Event : poller[p].seen[e].rev \in Nat
        /\ poller[p].detail \in Nat
    BY <2>2, FieldsOfTask
  <2>5. SeenTrue(poller[p])'
    <3> SUFFICES ASSUME NEW e \in Event
                 PROVE  /\ poller[p].seen[e].rev <= rev'[e]
                        /\ poller[p].seen[e].status = "cancelled" /\ poller[p].seen[e].rev = rev'[e]
                             => status'[e] = "cancelled"
      BY DEF SeenTrue
    <3>1. /\ poller[p].seen[e].rev <= rev[e]
          /\ poller[p].seen[e].status = "cancelled" /\ poller[p].seen[e].rev = rev[e]
               => status[e] = "cancelled"
      BY <2>3 DEF SeenTrue
    <3>2. poller[p].seen[e].rev <= rev'[e]
      BY <1>1, <2>4, <3>1
    <3>3. poller[p].seen[e].rev = rev'[e] => rev'[e] = rev[e]
      BY <1>1, <2>4, <3>1
    <3> QED BY <1>1, <3>1, <3>2, <3>3
  <2>6. poller[p].at = "deliver" => poller[p].event \in Event
    BY <2>2 DEF PollerOK, DeliverOK, FactsOK
  <2>7. DeliverTrue(poller[p], file)'
    <3>1. poller[p].at = "deliver" => poller[p].detail <= rev'[poller[p].event]
      BY <1>1, <2>3, <2>4, <2>6 DEF DeliverTrue
    <3> QED BY <2>3, <3>1 DEF DeliverTrue
  <2>8. Honest(poller[p].mem, post, history)'
    BY <1>4, <2>2, <2>3 DEF Honest
  <2> QED BY <2>5, <2>7, <2>8
<1>6. (\A p \in Poller : ~poller'[p].alive) => Honest(file, post, history)'
  BY <1>4 DEF CardsOK, IInv, FileOK, MemOK
<1> QED BY <1>5, <1>6 DEF CardsOK

LEMMA UserActs ==
  ASSUME IInv, Fresh, NEW e \in Event,
         (\E flash \in BOOLEAN : Create(e, flash)) \/ Change(e) \/ WindowCloses(e)
  PROVE  Fresh' /\ Later /\ (CardsOK => CardsOK')
<1>1. WorldOK
  BY DEF IInv
<1>2. UNCHANGED <<post, file, poller>> /\ Later
  BY RememberIsLater, SameIsLater DEF Create, Change, WindowCloses
<1>3. /\ \A d \in Event : d # e => rev'[d] = rev[d] /\ status'[d] = status[d]
      /\ status'[e] # "absent" \/ (rev'[e] = rev[e] /\ status'[e] = status[e])
      /\ \/ rev'[e] = rev[e] /\ status'[e] = status[e]
         \/ status[e] = "absent" /\ rev'[e] = 1
         \/ rev'[e] = rev[e] + 1
  <2>1. DOMAIN rev = Event /\ DOMAIN status = Event
    BY <1>1 DEF WorldOK
  <2>2. CASE \E flash \in BOOLEAN : Create(e, flash)
    BY <2>1, <2>2 DEF Create
  <2>3. CASE Change(e)
    <3>1. PICK s \in {m[2] : m \in {x \in Moves : x[1] = status[e]}} :
            status' = [status EXCEPT ![e] = s] /\ rev' = [rev EXCEPT ![e] = @ + 1]
      BY <2>3 DEF Change
    <3>2. s # "absent"
      BY DEF Moves
    <3> QED BY <2>1, <3>1, <3>2
  <2>4. CASE WindowCloses(e)
    BY <2>4 DEF WindowCloses
  <2> QED BY <2>2, <2>3, <2>4
<1>4. Fresh'
  BY <1>3 DEF Fresh
<1>5. CardsOK => CardsOK'
  <2>1. status[e] = "absent" => rev[e] = 0
    BY DEF Fresh
  <2> QED BY <1>2, <1>3, <2>1, UsersCards
<1> QED BY <1>2, <1>4, <1>5

LEMMA UnseenIsTrue ==
  ASSUME WorldOK, NEW q, q.seen = Unseen PROVE SeenTrue(q)
<1>1. \A e \in Event : rev[e] \in Nat /\ Unseen[e].rev = 0 /\ Unseen[e].status = "unknown"
  BY DEF WorldOK, Unseen
<1> QED BY <1>1 DEF SeenTrue

LEMMA EnsureCards ==
  ASSUME IInv, CardsOK, ~Overlapped, NEW p \in Poller, Ensure(p)
  PROVE  Overlapped' \/ CardsOK'
<1> DEFINE boot == IF file.seeded THEN "poll" ELSE "list"
           fresh == Idle(file, boot)
<1>1. /\ registered = None /\ ~poller[p].alive /\ poller' = [poller EXCEPT ![p] = fresh]
      /\ UNCHANGED <<file, post, status, rev>>
      /\ history' = [e \in Event |-> IF \E q \in Poller : InFlight(q)
                                     THEN history[e] \cup {"overlap"} ELSE history[e]]
  BY DEF Ensure, Users
<1> HIDE DEF boot
<1>2. CASE \E q \in Poller : InFlight(q)
  BY <1>1, <1>2 DEF Overlapped
<1>3. CASE ~\E q \in Poller : InFlight(q)
  <2>1. None \notin Poller
    BY BotAssumption DEF BotAssumption
  <2>2. \A q \in Poller : ~poller[q].alive
    BY <1>1, <1>3, <2>1 DEF IInv, ManagerOK
  <2>3. Honest(file, post, history)
    BY <2>2 DEF CardsOK
  <2>4. \A e \in Event : history'[e] = history[e]
    BY <1>1, <1>3
  <2>5. Honest(file, post, history)'
    BY <1>1, <2>3, <2>4 DEF Honest, Stamp, Track
  <2>6. fresh.alive /\ fresh.mem = file /\ fresh.at = "idle" /\ fresh.seen = Unseen
    BY DEF Idle
  <2> HIDE DEF fresh
  <2>7. SeenTrue(fresh) /\ DeliverTrue(fresh, file)
    BY <2>6, UnseenIsTrue DEF IInv, DeliverTrue
  <2>9. DOMAIN poller = Poller
    BY DEF IInv, ManagerOK
  <2>10. poller'[p] = fresh /\ \A q \in Poller : q # p => ~poller'[q].alive
    BY <1>1, <2>2, <2>9
  <2>11. ASSUME NEW q \in Poller, poller'[q].alive
         PROVE  (Honest(poller[q].mem, post, history) /\ SeenTrue(poller[q])
                 /\ DeliverTrue(poller[q], file))'
    <3>1. q = p /\ poller'[q] = fresh
      BY <2>10, <2>11
    <3>2. fresh.mem = file'
      BY <1>1, <2>6
    <3> QED BY <2>5, <2>7, <1>1, <3>1, <3>2 DEF SeenTrue, DeliverTrue, Honest, Stamp, Track
  <2>12. ~\A q \in Poller : ~poller'[q].alive
    BY <2>6, <2>10
  <2> QED BY <2>11, <2>12 DEF CardsOK
<1> QED BY <1>2, <1>3

LEMMA GuildLeftCards ==
  ASSUME IInv, CardsOK, ~Overlapped, NEW again \in BOOLEAN, Forget(again)
  PROVE  CardsOK'
<1> DEFINE p == registered
           q == poller[p]
           last == IF again THEN [q EXCEPT !.boot = "poll"] ELSE q
           stops == last.at = "idle" /\ last.boot = "done"
<1>1. /\ p # None /\ poller' = [poller EXCEPT ![p] = IF stops THEN Stopped ELSE last]
      /\ UNCHANGED <<file, history, status, rev, post>>
  BY DEF Forget, Users
<1>2. p \in Poller /\ q.alive
  BY <1>1 DEF IInv, ManagerOK
<1>3. q \in Task
  BY <1>2, AliveIs
<1>4. /\ DOMAIN poller = Poller
      /\ \A o \in Poller : poller[o].alive => o = p
      /\ q.at # "deliver" => file = q.mem
  BY <1>2 DEF IInv, ManagerOK, FileOK, Recorded
<1>5. Honest(q.mem, post, history) /\ SeenTrue(q) /\ DeliverTrue(q, file)
  BY <1>2 DEF CardsOK
<1> HIDE DEF p
<1>6. /\ last.mem = q.mem /\ last.at = q.at /\ last.event = q.event /\ last.seen = q.seen
      /\ last.detail = q.detail /\ last.alive
  BY <1>2, <1>3 DEF Task
<1> HIDE DEF last
<1>7. poller'[p] = (IF stops THEN Stopped ELSE last) /\ \A o \in Poller : o # p => poller'[o] = poller[o]
  BY <1>1, <1>2, <1>4
<1>8. ASSUME NEW o \in Poller, poller'[o].alive
      PROVE  (Honest(poller[o].mem, post, history) /\ SeenTrue(poller[o])
              /\ DeliverTrue(poller[o], file))'
  <2>1. o = p /\ poller'[o] = last
    BY <1>4, <1>7, <1>8, StoppedIs
  <2>2. Honest(poller[o].mem, post, history)'
    BY <1>1, <1>5, <1>6, <2>1 DEF Honest, Stamp, Track
  <2>3. SeenTrue(poller[o])'
    BY <1>1, <1>5, <1>6, <2>1 DEF SeenTrue
  <2>4. DeliverTrue(poller[o], file)'
    BY <1>1, <1>5, <1>6, <2>1 DEF DeliverTrue
  <2> QED BY <2>2, <2>3, <2>4
<1>9. ASSUME \A o \in Poller : ~poller'[o].alive
      PROVE  Honest(file, post, history)'
  <2>1. stops
    BY <1>2, <1>6, <1>7, <1>9
  <2>2. file = q.mem
    BY <1>4, <1>6, <2>1
  <2> QED BY <1>1, <1>5, <2>2 DEF Honest, Stamp, Track
<1> QED BY <1>8, <1>9 DEF CardsOK

\* The bot dies: a post that no checkpoint has recorded counts as lost.
LEMMA CrashCards ==
  ASSUME IInv, CardsOK, ~Overlapped, Crash
  PROVE  CardsOK'
<1> DEFINE p == registered
           q == poller[p]
<1>1. /\ p # None /\ poller' = [o \in Poller |-> Stopped] /\ UNCHANGED <<status, rev, file>>
  BY DEF Crash
<1>2. p \in Poller /\ q.alive
  BY <1>1 DEF IInv, ManagerOK
<1>3. /\ \A o \in Poller : poller[o].alive => o = p
      /\ q.at # "deliver" => file = q.mem
  BY <1>2 DEF IInv, ManagerOK, FileOK, Recorded
<1>4. Honest(q.mem, post, history) /\ DeliverTrue(q, file)
  BY <1>2 DEF CardsOK
<1>5. WorldOK /\ MemOK(q.mem, Facts)
  BY <1>2, AliveIs
<1>6. q.at = "deliver" => q.event \in Event /\ ~q.mem.card[q.event] /\ ~file.card[q.event]
  <2>1. q.at = "deliver" => Delivering(p)
    BY <1>2 DEF Delivering
  <2> QED BY <1>2, <1>4, <2>1, DeliveringIs DEF DeliverTrue
<1>7. ASSUME NEW e \in Event, ~(q.at = "deliver" /\ q.event = e)
      PROVE  SameCard(q.mem, file, e)
  BY <1>3, <1>4, <1>7 DEF SameCard, DeliverTrue
<1> HIDE DEF p
<1>8. \A o \in Poller : ~poller'[o].alive
  BY <1>1, StoppedIs
<1>9. CASE /\ UNCHANGED post
           /\ history' = [e \in Event |-> IF Unrecorded(e) THEN history[e] \cup {"lost"}
                                          ELSE history[e]]
  <2>1. Later
    BY <1>9 DEF Later
  <2>2. ASSUME NEW e \in Event PROVE Stamp(file, e, post') /\ Track(file, e, post', history')
    <3>1. CASE ~(q.at = "deliver" /\ q.event = e)
      <4>1. Stamp(q.mem, e, post) /\ Track(q.mem, e, post, history)
        BY <1>4 DEF Honest
      <4> QED BY <1>7, <1>9, <2>1, <3>1, <4>1, SameIsHonest
    <3>2. CASE q.at = "deliver" /\ q.event = e
      <4>1. Stamp(file, e, post')
        BY <1>6, <3>2 DEF Stamp
      <4>2. CASE Unrecorded(e)
        BY <1>9, <4>1, <4>2 DEF Track
      <4>3. CASE ~Unrecorded(e)
        <5>1. q.mem.thread[e] \in {0, file.thread[e]}
          BY <1>2, <4>3 DEF Unrecorded
        <5>2. 0 \notin DOMAIN post[e]
          BY <1>5 DEF WorldOK
        <5>3. Track(q.mem, e, post, history)
          BY <1>4 DEF Honest
        <5>4. Track(file, e, post, history)
          BY <5>1, <5>2, <5>3 DEF Track
        <5> QED BY <1>9, <2>1, <4>1, <5>4 DEF Track, Later
      <4> QED BY <4>1, <4>2, <4>3
    <3> QED BY <3>1, <3>2
  <2> QED BY <1>1, <1>8, <2>2 DEF CardsOK, Honest, Stamp, Track
<1>10. CASE \E o \in Poller :
              /\ Delivering(o) /\ NoThread(o) /\ (Mode(o) = "message" => NoParent(o))
              /\ Posted(poller[o].event, IF Mode(o) = "message" THEN "none" ELSE "open")
              /\ Remember({poller[o].event}, "lost")
  <2>1. PICK o \in Poller :
              /\ Delivering(o)
              /\ Posted(poller[o].event, IF Mode(o) = "message" THEN "none" ELSE "open")
              /\ Remember({poller[o].event}, "lost")
    BY <1>10
  <2>2. o = p /\ q.at = "deliver"
    BY <1>3, <2>1 DEF Delivering
  <2>3. Remember({q.event}, "lost") /\ Later
    BY <2>1, <2>2, RememberIsLater
  <2>4. \A d \in Event : d # q.event => post'[d] = post[d]
    <3>1. Posted(q.event, IF Mode(o) = "message" THEN "none" ELSE "open")
      BY <2>1, <2>2
    <3> QED BY <1>6, <2>2, <3>1, <1>5, PostedRow
  <2>5. ASSUME NEW e \in Event PROVE Stamp(file, e, post') /\ Track(file, e, post', history')
    <3>1. CASE q.event # e
      <4>1. Stamp(q.mem, e, post) /\ Track(q.mem, e, post, history)
        BY <1>4 DEF Honest
      <4> QED BY <1>7, <2>3, <2>4, <3>1, <4>1, SameIsHonest
    <3>2. CASE q.event = e
      BY <1>6, <2>2, <2>3, <3>2 DEF Stamp, Track, Remember
    <3> QED BY <3>1, <3>2
  <2> QED BY <1>1, <1>8, <2>5 DEF CardsOK, Honest, Stamp, Track
<1> QED BY <1>9, <1>10 DEF Crash

\* What has happened to an event stays so, through every action.
LEMMA DeliverIsLater ==
  ASSUME NEW p \in Poller, Deliver(p) PROVE Later
<1>1. CASE DeliverFails(p)     BY <1>1, SameIsLater DEF DeliverFails
<1>2. CASE ForgetGone(p)       BY <1>2, SameIsLater DEF ForgetGone, Quiet
<1>3. CASE SendParent(p)       BY <1>3, SameIsLater DEF SendParent
<1>4. CASE OpenThread(p)       BY <1>4, SameIsLater, Zenon DEF OpenThread
<1>5. CASE CreatePrivate(p)    BY <1>5, SameIsLater DEF CreatePrivate
<1>6. CASE CreateForumPost(p)  BY <1>6, SameIsLater DEF CreateForumPost
<1>7. CASE AnswerLost(p)       BY <1>7, SameIsLater, RememberIsLater DEF AnswerLost
<1>8. CASE ForumRefuses(p)     BY <1>8, SameIsLater DEF ForumRefuses
<1>9. CASE SendCard(p)         BY <1>9, SameIsLater DEF SendCard
<1>10. CASE CardLost(p)        BY <1>10, SameIsLater DEF CardLost
<1> QED BY <1>1, <1>2, <1>3, <1>4, <1>5, <1>6, <1>7, <1>8, <1>9, <1>10 DEF Deliver

LEMMA CloseIsLater ==
  ASSUME NEW p \in Poller, Close(p) PROVE Later
<1>1. CASE KeepOpen(p)         BY <1>1, SameIsLater DEF KeepOpen, Quiet
<1>2. CASE ForgetClosed(p)     BY <1>2, SameIsLater DEF ForgetClosed, Quiet
<1>3. CASE DeletePost(p)       BY <1>3, SameIsLater, Zenon DEF DeletePost
<1>4. CASE DeleteRefused(p)    BY <1>4, SameIsLater, RememberIsLater DEF DeleteRefused
<1>5. CASE LockOver(p)         BY <1>5, SameIsLater, Zenon DEF LockOver
<1>6. CASE LockCancelled(p)    BY <1>6, SameIsLater, Zenon DEF LockCancelled
<1>7. CASE StampCancelled(p)   BY <1>7, SameIsLater, Zenon DEF StampCancelled, Quiet
<1>8. CASE LockRefused(p)      BY <1>8, SameIsLater, RememberIsLater DEF LockRefused
<1> QED BY <1>1, <1>2, <1>3, <1>4, <1>5, <1>6, <1>7, <1>8 DEF Close

LEMMA StepIsLater ==
  ASSUME NEW p \in Poller, Step(p) PROVE Later
<1>1. CASE BootLists(p)        BY <1>1, RememberIsLater DEF BootLists
<1>2. CASE BootAdopts(p)       BY <1>2, SameIsLater DEF BootAdopts, Quiet
<1>3. CASE BootFails(p)        BY <1>3, SameIsLater DEF BootFails
<1>4. CASE SeedAgain(p)        BY <1>4, RememberIsLater DEF SeedAgain
<1>5. CASE SeedAdopts(p)       BY <1>5, SameIsLater DEF SeedAdopts, Quiet
<1>6. CASE List(p)             BY <1>6, SameIsLater DEF List
<1>7. CASE ListFails(p)        BY <1>7, SameIsLater DEF ListFails
<1>8. CASE Take(p)             BY <1>8, SameIsLater, Zenon DEF Take, Quiet
<1>9. CASE LookupFails(p)      BY <1>9, SameIsLater DEF LookupFails
<1>10. CASE Advance(p)         BY <1>10, SameIsLater DEF Advance, Quiet
<1>11. CASE Deliver(p)         BY <1>11, DeliverIsLater
<1>12. CASE ReadRevisions(p)   BY <1>12, SameIsLater DEF ReadRevisions, Quiet
<1>13. CASE RevisionsFail(p)   BY <1>13, SameIsLater DEF RevisionsFail
<1>14. CASE Close(p)           BY <1>14, CloseIsLater
<1>15. CASE Restore(p)         BY <1>15, SameIsLater, Zenon DEF Restore, Quiet
<1>16. CASE Sync(p)            BY <1>16, SameIsLater, Zenon DEF Sync
<1>17. CASE SyncFails(p)       BY <1>17, SameIsLater DEF SyncFails
<1> QED BY <1>1, <1>2, <1>3, <1>4, <1>5, <1>6, <1>7, <1>8, <1>9, <1>10, <1>11, <1>12,
           <1>13, <1>14, <1>15, <1>16, <1>17 DEF Step

\* A poller's step leaves the backend alone.
LEMMA StepKeepsBackend ==
  ASSUME NEW p \in Poller, Step(p) PROVE UNCHANGED <<status, rev>>
<1>1. CASE Deliver(p)
  BY <1>1, Zenon DEF Deliver, DeliverFails, ForgetGone, SendParent, OpenThread, CreatePrivate,
              CreateForumPost, AnswerLost, ForumRefuses, SendCard, CardLost, World
<1>2. CASE Close(p)
  BY <1>2, Zenon DEF Close, KeepOpen, ForgetClosed, DeletePost, DeleteRefused, LockOver,
              LockCancelled, StampCancelled, LockRefused, World
<1>3. CASE BootLists(p) \/ BootAdopts(p) \/ BootFails(p) \/ SeedAgain(p) \/ SeedAdopts(p)
           \/ List(p) \/ ListFails(p) \/ Take(p)
  BY <1>3, Zenon DEF BootLists, BootAdopts, BootFails, SeedAgain, SeedAdopts, List, ListFails,
              Take, World
<1>4. CASE LookupFails(p) \/ Advance(p) \/ ReadRevisions(p) \/ RevisionsFail(p) \/ Restore(p)
           \/ Sync(p) \/ SyncFails(p)
  BY <1>4, Zenon DEF LookupFails, Advance, ReadRevisions, RevisionsFail, Restore, Sync,
              SyncFails, World
<1> QED BY <1>1, <1>2, <1>3, <1>4 DEF Step

LEMMA DeliverCards ==
  ASSUME IInv, ~Overlapped, CardsOK, NEW p \in Poller, Deliver(p) PROVE CardsOK'
<1>1. CASE DeliverFails(p) \/ ForumRefuses(p)
  BY <1>1, DeliverFailsCards
<1>2. CASE CreatePrivate(p) \/ CreateForumPost(p)
  BY <1>2, CreateCards
<1> QED BY <1>1, <1>2, ForgetGoneCards, SendParentCards, OpenThreadCards, AnswerLostCards,
           SendCardCards, CardLostCards DEF Deliver

LEMMA CloseCards ==
  ASSUME IInv, ~Overlapped, CardsOK, NEW p \in Poller, Close(p) PROVE CardsOK'
  BY KeepOpenStill, ForgetClosedCards, DeletePostCards, DeleteRefusedCards, LockOverCards,
     LockCancelledCards, StampCancelledCards, LockRefusedCards DEF Close

LEMMA StepCards ==
  ASSUME IInv, ~Overlapped, CardsOK, NEW p \in Poller, Step(p) PROVE CardsOK'
<1>1. CASE BootLists(p) \/ BootAdopts(p) \/ BootFails(p)
  BY <1>1, BootStill
<1>2. CASE SeedAgain(p) \/ SeedAdopts(p)
  BY <1>2, SeedStill
<1>3. CASE List(p)             BY <1>3, ListStill
<1>4. CASE ListFails(p)        BY <1>4, ListFailsStill
<1>5. CASE Take(p)             BY <1>5, TakeStill
<1>6. CASE LookupFails(p)      BY <1>6, LookupFailsStill
<1>7. CASE Advance(p)          BY <1>7, AdvanceStill
<1>8. CASE Deliver(p)          BY <1>8, DeliverCards
<1>9. CASE ReadRevisions(p)    BY <1>9, ReadRevisionsStill
<1>10. CASE RevisionsFail(p)   BY <1>10, RevisionsFailStill
<1>11. CASE Close(p)           BY <1>11, CloseCards
<1>12. CASE Restore(p)         BY <1>12, RestoreStill
<1>13. CASE Sync(p)            BY <1>13, SyncCards
<1>14. CASE SyncFails(p)       BY <1>14, SyncFailsStill
<1> QED BY <1>1, <1>2, <1>3, <1>4, <1>5, <1>6, <1>7, <1>8, <1>9, <1>10, <1>11, <1>12,
           <1>13, <1>14 DEF Step

LEMMA CardsStart == Init => CInv
<1> SUFFICES ASSUME Init PROVE CInv
  OBVIOUS
<1>1. /\ rev = [e \in Event |-> 0] /\ post = [e \in Event |-> << >>]
      /\ poller = [p \in Poller |-> Stopped] /\ file = Checkpoint(left["fresh"] = 0)
  BY DEF Init
<1>2. Fresh
  BY <1>1 DEF Fresh
<1>3. \A e \in Event : ~file.card[e] /\ DOMAIN post[e] = {}
  BY <1>1 DEF Checkpoint
<1>4. Honest(file, post, history)
  BY <1>3 DEF Honest, Stamp, Track
<1>5. \A p \in Poller : ~poller[p].alive
  BY <1>1, StoppedIs
<1> QED BY <1>2, <1>4, <1>5 DEF CInv, CardsOK

LEMMA CardsNext ==
  ASSUME IInv, CInv, [Next]_vars PROVE CInv'
<1>1. CASE \E e \in Event : \/ \E flash \in BOOLEAN : Create(e, flash)
                            \/ Change(e) \/ WindowCloses(e)
  <2>1. Fresh' /\ Later /\ (CardsOK => CardsOK')
    BY <1>1, UserActs DEF CInv
  <2> QED BY <2>1 DEF CInv, Overlapped, Later
<1>2. CASE \E p \in Poller : Step(p)
  <2>1. PICK p \in Poller : Step(p)
    BY <1>2
  <2>2. Later /\ UNCHANGED <<status, rev>>
    BY <2>1, StepIsLater, StepKeepsBackend
  <2>3. Overlapped' \/ CardsOK'
    BY <2>1, <2>2, StepCards DEF CInv, Overlapped, Later
  <2> QED BY <2>2, <2>3 DEF CInv, Fresh
<1>3. CASE \E p \in Poller : Ensure(p)
  <2>1. PICK p \in Poller : Ensure(p)
    BY <1>3
  <2>2. UNCHANGED <<status, rev>>
    BY <2>1 DEF Ensure, Users
  <2>3. Later
    BY <2>1 DEF Ensure, Later
  <2>4. Overlapped' \/ CardsOK'
    BY <2>1, <2>3, EnsureCards DEF CInv, Overlapped, Later
  <2> QED BY <2>2, <2>4 DEF CInv, Fresh
<1>4. CASE \E again \in BOOLEAN : Forget(again)
  <2>1. PICK again \in BOOLEAN : Forget(again)
    BY <1>4
  <2>2. UNCHANGED <<status, rev, history>>
    BY <2>1 DEF Forget, Users
  <2>3. Overlapped' \/ CardsOK'
    BY <2>1, <2>2, GuildLeftCards DEF CInv, Overlapped
  <2> QED BY <2>2, <2>3 DEF CInv, Fresh
<1>5. CASE Crash
  <2>1. UNCHANGED <<status, rev>>
    BY <1>5 DEF Crash
  <2>2. Later
    BY <1>5, RememberIsLater, Zenon DEF Crash, Later
  <2>3. Overlapped' \/ CardsOK'
    BY <1>5, <2>2, CrashCards DEF CInv, Overlapped, Later
  <2> QED BY <2>1, <2>3 DEF CInv, Fresh
<1>6. CASE UNCHANGED vars
  <2>1. UNCHANGED <<status, rev, post, file, poller, history>>
    BY <1>6 DEF vars
  <2>2. CardsOK => CardsOK'
    BY <2>1, ZenonT(30) DEF CardsOK, Honest, Stamp, Track, SeenTrue, DeliverTrue
  <2> QED BY <2>1, <2>2 DEF CInv, Fresh, Overlapped
<1> QED BY <1>1, <1>2, <1>3, <1>4, <1>5, <1>6 DEF Next

LEMMA CardsInvariant == Spec => [](IInv /\ CInv)
<1>1. Init => IInv /\ CInv
  BY InitIsFine, CardsStart
<1>2. IInv /\ CInv /\ [Next]_vars => (IInv /\ CInv)'
  BY NextIsFine, CardsNext
<1> QED BY <1>1, <1>2, PTL DEF Spec

LEMMA CurrentIsHonest ==
  ASSUME CInv, NEW m \in Current, NEW e \in Event, "overlap" \notin history[e]
  PROVE  Honest(m, post, history)
<1>1. CardsOK
  BY DEF CInv, Overlapped
<1> QED BY <1>1 DEF Current, CardsOK

\* No stamp runs ahead of its card: an announced card whose stamp is the present
\* revision shows that revision (announceEvent, checkEventRosterSync,
\* closeCancelledEvent), so roster sync rewrites every card that does not.
THEOREM StampsHold == Spec => []NoStampHidesAChange
<1>1. CInv => NoStampHidesAChange
  <2> SUFFICES ASSUME CInv, NEW m \in Current, NEW e \in Event, Announced(m, e),
                      status[e] # "cancelled", "overlap" \notin history[e], m.shown[e] = rev[e]
               PROVE  post[e][m.thread[e]].shows = rev[e]
    BY DEF NoStampHidesAChange
  <2> QED BY CurrentIsHonest DEF Honest, Stamp, Announced
<1> QED BY <1>1, CardsInvariant, PTL

\* No thread is forgotten while it is open: unless an answer was lost or pollers
\* overlapped, an open thread is the one on record, which checkClosedEvents closes
\* when its event ends.
THEOREM ThreadsKnown == Spec => []NoThreadIsForgotten
<1>1. CInv => NoThreadIsForgotten
  <2> SUFFICES ASSUME CInv, NEW m \in Current, NEW e \in Event, NEW i \in DOMAIN post[e],
                      post[e][i].thread = "open", history[e] \cap {"lost", "overlap"} = {}
               PROVE  i = m.thread[e]
    BY DEF NoThreadIsForgotten
  <2> QED BY CurrentIsHonest DEF Honest, Track
<1> QED BY <1>1, CardsInvariant, PTL
=============================================================================
