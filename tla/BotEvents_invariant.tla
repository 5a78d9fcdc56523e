------------------------- MODULE BotEvents_invariant -------------------------
(***************************************************************************)
(* The inductive invariant of BotEvents, lemmas on checkpoints, pollers    *)
(* and posts, and the steps of the first half of a cycle: the seeding of a *)
(* guild, checkNewEvents and announceEvent.                                *)
(***************************************************************************)
EXTENDS BotEvents, TLAPS, FiniteSetTheorems, WellFoundedInduction

----------------------------------------------------------------------------
(* The inductive invariant.  A poller is related to the world by a few     *)
(* facts about each event, which are gathered in a record: most steps      *)
(* leave it alone, and all of them only let it grow.                       *)

Statuses == {"absent", "scheduled", "live", "over", "cancelled", "archived"}
Marks == {"left", "folded", "lost", "overlap"}

Facts ==
  [present |-> {e \in Event : status[e] # "absent"},
   owed |-> {e \in Event : status[e] = "scheduled" /\ history[e] \cap {"left", "folded"} = {}},
   left |-> {e \in Event : "left" \in history[e]},
   folded |-> {e \in Event : "folded" \in history[e]},
   over |-> {e \in Event : status[e] = "over"},
   excused |-> {e \in Event : history[e] \cap {"lost", "overlap"} # {}},
   pings |-> {e \in Event : delivery = "message" \/ (delivery = "calendar" /\ kind[e] # "organized")},
   posts |-> [e \in Event |-> Len(post[e])],
   standing |-> [e \in Event |-> Standing(e)]]

FactsOK(w) ==
  /\ w.left \subseteq w.present /\ w.over \subseteq w.left
  /\ w.owed \subseteq w.present \ (w.left \cup w.folded)
  /\ w.present \subseteq Event
  /\ \A e \in w.present, d \in Event : d < e => d \in w.present
  /\ w.posts \in [Event -> Nat]
  /\ \A e \in Event : w.standing[e] \subseteq 1..w.posts[e]

\* What a step does to the facts, but for a new post.
Grows(v, w) ==
  /\ v.present \subseteq w.present /\ v.left \subseteq w.left /\ v.folded \subseteq w.folded
  /\ v.over \subseteq w.over /\ v.excused \subseteq w.excused
  /\ w.owed \cap v.present \subseteq v.owed /\ v.pings \cap v.present \subseteq w.pings
  /\ \A e \in Event : v.posts[e] <= w.posts[e]

WorldOK ==
  /\ status \in [Event -> Statuses] /\ rev \in [Event -> Nat]
  /\ kind \in [Event -> {"organized", "young_flash", "flash"}]
  /\ post \in [Event -> Seq(PostState)]
  /\ delivery \in {"message", "calendar", "forum"}
  /\ history \in [Event -> SUBSET Marks]
  /\ left \in [Counter -> Nat]
  /\ \A e \in Event : /\ status[e] \notin {"absent", "scheduled"} => "left" \in history[e]
                      /\ "left" \in history[e] => status[e] # "absent"
                      /\ \A d \in Event : d < e /\ status[e] # "absent" => status[d] # "absent"

\* A checkpoint: what it remembers is there, and what is behind its cursor is
\* announced or pending.
Told(m, e) == Announced(m, e) \/ m.pending[e] # "none"
MemOK(m, w) ==
  /\ m \in Memory
  /\ m.cursor \in {0} \cup w.present /\ m.removed \subseteq w.left
  /\ \A e \in Event :
       /\ m.thread[e] <= w.posts[e] /\ m.parent[e] <= w.posts[e]
       /\ m.thread[e] # 0 \/ m.parent[e] # 0 \/ m.pending[e] # "none" => e \in w.present
       /\ m.parent[e] # 0 => e \in w.pings
       /\ m.card[e] => m.thread[e] # 0
       /\ e <= m.cursor /\ e \in w.owed => Told(m, e)

\* The only post of an event that stands is the one a checkpoint remembers, ...
Kept(m, e) == IF m.thread[e] # 0 THEN {m.thread[e]}
              ELSE IF m.parent[e] # 0 THEN {m.parent[e]} ELSE {}
Tight(m, e, w) == e \in w.excused \/ w.standing[e] \subseteq Kept(m, e)
\* ... or the event is over and its post was locked and forgotten.
Retired(m, e, w) == /\ e \in w.over /\ m.pending[e] = "none"
                    /\ \E i \in 0..w.posts[e] : w.standing[e] \subseteq {i}
Loose(m, e, w) == Tight(m, e, w) \/ Retired(m, e, w)

Task ==
  [alive : BOOLEAN, mem : Memory,
   at : {"idle", "seed", "announce", "deliver", "revisions", "close", "restored", "roster"},
   boot : {"list", "adopt", "poll", "done"},
   baseline : {0} \cup Event, todo : Seq(Event), event : {0} \cup Event, detail : Nat,
   newest : {0} \cup Event, then : {"announce", "restored"}, known : BOOLEAN,
   seen : [Event -> [status : Statuses \cup {"unknown"}, rev : Nat]]]

\* A batch is being announced.
Announcing(q) == q.at = "announce" \/ (q.at = "deliver" /\ q.then = "announce")

TaskOK(q, w) ==
  /\ q \in Task /\ MemOK(q.mem, w)
  /\ {q.baseline, q.newest} \subseteq {0} \cup w.present
  /\ Range(q.todo) \subseteq w.present
  /\ \A e \in Event : e <= q.baseline \/ (q.at = "seed" /\ e <= q.newest) => e \in w.folded
SeenOK(q, w) ==
  \A e \in Event : /\ q.seen[e].status \in {"archived", "cancelled", "over"} => e \in w.left
                   /\ q.seen[e].status = "over" => e \in w.over
DeliverOK(q, w) ==
  q.at = "deliver" => /\ q.event \in w.present /\ ~q.mem.card[q.event]
                      /\ Tight(q.mem, q.event, w)
BatchOK(q, w) ==
  Announcing(q) =>
    /\ q.then = "announce"
    /\ \A e \in w.owed :
         e <= q.newest => \/ Told(q.mem, e) \/ e \in Range(q.todo)
                          \/ q.at = "deliver" /\ e = q.event
    /\ \A e \in Range(q.todo) : Tight(q.mem, e, w)
CloseOK(q) ==
  q.at = "close" => /\ \A e \in Range(q.todo) : q.mem.thread[e] # 0
                    /\ \A i, j \in DOMAIN q.todo : i # j => q.todo[i] # q.todo[j]

PollerOK(q, w) ==
  /\ TaskOK(q, w) /\ SeenOK(q, w) /\ DeliverOK(q, w) /\ BatchOK(q, w) /\ CloseOK(q)
  /\ \A e \in Event : Loose(q.mem, e, w)

\* The pollers that are stopped remember nothing.
PollersOK == \A p \in Poller : IF poller[p].alive THEN PollerOK(poller[p], Facts)
                               ELSE poller[p] = Stopped

\* Without an overlap there is one poller, and the file is what it remembers but for
\* the event it delivers.
Overlapped == \A e \in Event : "overlap" \in history[e]
ManagerOK ==
  /\ DOMAIN poller = Poller
  /\ registered \in {None} \cup Poller
  /\ registered # None => poller[registered].alive
  /\ \A p \in Poller : poller[p].alive /\ registered # p => InFlight(p)
  /\ Overlapped \/ \A p, o \in Poller : poller[p].alive /\ poller[o].alive => p = o

Recorded(q, m) ==
  /\ q.at # "deliver" => q.mem = m
  /\ q.at = "deliver" => \A e \in Event \ {q.event} : q.mem.thread[e] = m.thread[e]
FileOK ==
  /\ MemOK(file, Facts)
  /\ Overlapped \/ \A p \in Poller : poller[p].alive => Recorded(poller[p], file)
  /\ \A e \in Event : Loose(file, e, Facts) \/ Unrecorded(e)

IInv == WorldOK /\ FactsOK(Facts) /\ PollersOK /\ ManagerOK /\ FileOK

----------------------------------------------------------------------------
(* Lemmas on Max, on InOrder and on sequences of events.                   *)

Increasing(s) == \A i, j \in DOMAIN s : i < j => s[i] < s[j]
Enumerates(s, S) == s \in [1..Cardinality(S) -> S] /\ Range(s) = S /\ Increasing(s)

LEMMA EventIs == IsFiniteSet(Event) /\ Event \subseteq Nat \ {0} /\ Cardinality(Event) \in Nat
                 /\ Event = 1..Cardinality(Event)
  BY FS_CardinalityType, BotAssumption DEF BotAssumption

LEMMA IdsAreNumbers == \A x \in {0} \cup Event : x \in Nat
  BY EventIs

LEMMA LeastIsIn ==
  ASSUME NEW S \in SUBSET Nat, S # {}
  PROVE  \E x \in S : \A y \in S : x <= y
<1>1. PICK x \in S : \A y \in S : ~(<<y, x>> \in OpToRel(<, Nat))
  BY NatLessThanWellFounded, WFMin
<1>2. \A y \in S : x <= y
  <2> TAKE y \in S
  <2>1. <<y, x>> \in Nat \X Nat
    OBVIOUS
  <2>2. ~(y < x)
    BY <1>1, <2>1 DEF OpToRel
  <2> QED BY <2>2
<1> QED BY <1>2

LEMMA MaxIs ==
  ASSUME NEW S \in SUBSET ({0} \cup Event), S # {}
  PROVE  Max(S) \in S /\ \A y \in S : Max(S) >= y
<1> DEFINE n == Cardinality(Event)
           R == {n - y : y \in S}
<1>1. n \in Nat /\ \A y \in S : y \in Nat /\ n - y \in Nat
  BY EventIs
<1>2. R \in SUBSET Nat /\ R # {}
  BY <1>1
<1>3. PICK x \in R : \A y \in R : x <= y
  BY <1>2, LeastIsIn
<1>4. PICK m \in S : x = n - m
  BY <1>3
<1>5. \A y \in S : m >= y
  <2> TAKE y \in S
  <2>1. n - m <= n - y
    BY <1>3, <1>4
  <2> QED BY <1>1, <2>1
<1> QED BY <1>5 DEF Max

LEMMA Enumerable ==
  ASSUME NEW S \in SUBSET Event
  PROVE  \E s : Enumerates(s, S)
<1> DEFINE Bad == {T \in SUBSET Event : ~\E s : Enumerates(s, T)}
           Sizes == {Cardinality(T) : T \in Bad}
<1>1. \A T \in SUBSET Event : IsFiniteSet(T) /\ Cardinality(T) \in Nat
  BY EventIs, FS_Subset, FS_CardinalityType
<1>2. SUFFICES ASSUME Sizes # {} PROVE FALSE
  OBVIOUS
<1>3. Sizes \in SUBSET Nat
  BY <1>1
<1>4. PICK n \in Sizes : \A k \in Sizes : n <= k
  BY <1>2, <1>3, LeastIsIn
<1>5. PICK T \in Bad : n = Cardinality(T)
  BY <1>4
<1>a. T \in SUBSET Event
  OBVIOUS
<1>6. T # {}
  <2>1. ASSUME T = {} PROVE FALSE
    <3>1. Cardinality({}) = 0
      BY FS_EmptySet
    <3>2. << >> \in [1..0 -> {}] /\ Range(<< >>) = {} /\ Increasing(<< >>)
      BY DEF Range, Increasing
    <3>3. Enumerates(<< >>, T)
      BY <2>1, <3>1, <3>2 DEF Enumerates
    <3> QED BY <3>3
  <2> QED BY <2>1
<1> DEFINE m == Max(T)
           U == T \ {m}
<1>7. m \in T /\ \A y \in T : m >= y
  BY <1>6, MaxIs
<1>8. IsFiniteSet(U) /\ Cardinality(U) = n - 1 /\ n \in Nat /\ n - 1 \in Nat
  BY <1>1, <1>3, <1>5, <1>7, FS_RemoveElement, FS_CardinalityType
<1>9. \E s : Enumerates(s, U)
  <2>1. ~(n <= n - 1)
    BY <1>8
  <2>2. Cardinality(U) \notin Sizes
    BY <1>4, <1>8, <2>1
  <2> QED BY <2>2
<1>10. PICK s : Enumerates(s, U)
  BY <1>9
<1> DEFINE r == [i \in 1..n |-> IF i = n THEN m ELSE s[i]]
<1> HIDE DEF m, Bad, Sizes
<1>11. s \in [1..(n - 1) -> U] /\ Range(s) = U /\ Increasing(s)
  BY <1>8, <1>10 DEF Enumerates
<1>12. n \in 1..n /\ \A i \in 1..n : i # n => i \in 1..(n - 1)
  BY <1>8
<1>13. r \in [1..n -> T]
  BY <1>7, <1>11, <1>12
<1>14. \A y \in T : y \in Range(r)
  <2> TAKE y \in T
  <2>1. CASE y = m
    <3>1. r[n] = m /\ n \in DOMAIN r
      BY <1>12
    <3> QED BY <2>1, <3>1 DEF Range
  <2>2. CASE y # m
    <3>1. PICK i \in 1..(n - 1) : s[i] = y
      BY <1>11, <2>2 DEF Range
    <3>2. i \in 1..n /\ i # n
      BY <1>8, <3>1
    <3>3. r[i] = y /\ i \in DOMAIN r
      BY <3>1, <3>2
    <3> QED BY <3>3 DEF Range
  <2> QED BY <2>1, <2>2
<1>15. Increasing(r)
  <2> SUFFICES ASSUME NEW i \in 1..n, NEW j \in 1..n, i < j PROVE r[i] < r[j]
    BY DEF Increasing
  <2>1. i \in 1..(n - 1) /\ r[i] = s[i] /\ s[i] \in U
    BY <1>8, <1>11
  <2>2. CASE j = n
    <3>1. s[i] # m /\ s[i] \in Nat /\ m \in Nat /\ m >= s[i]
      BY <1>a, <1>7, <2>1, EventIs
    <3> QED BY <2>1, <2>2, <3>1
  <2>3. CASE j # n
    <3>1. j \in 1..(n - 1) /\ r[j] = s[j]
      BY <1>12, <2>3
    <3> QED BY <1>11, <2>1, <3>1 DEF Increasing
  <2> QED BY <2>2, <2>3
<1>16. Range(r) = T
  BY <1>13, <1>14 DEF Range
<1>17. Enumerates(r, T)
  BY <1>5, <1>13, <1>15, <1>16 DEF Enumerates
<1> QED BY <1>17 DEF Bad

LEMMA InOrderIs ==
  ASSUME NEW S \in SUBSET Event
  PROVE  /\ InOrder(S) \in Seq(Event) /\ Range(InOrder(S)) = S
         /\ \A i, j \in DOMAIN InOrder(S) : i # j => InOrder(S)[i] # InOrder(S)[j]
<1> DEFINE s == InOrder(S)
<1>1. Enumerates(s, S)
  BY Enumerable DEF InOrder, Enumerates, Increasing
<1>2. Cardinality(S) \in Nat
  BY EventIs, FS_Subset, FS_CardinalityType
<1> HIDE DEF s
<1>3. s \in [1..Cardinality(S) -> Event]
  BY <1>1 DEF Enumerates
<1>4. s \in Seq(Event)
  BY <1>2, <1>3
<1>5. \A i, j \in DOMAIN s : i # j => s[i] # s[j]
  <2> SUFFICES ASSUME NEW i \in DOMAIN s, NEW j \in DOMAIN s, i # j PROVE s[i] # s[j]
    OBVIOUS
  <2>1. i \in Nat /\ j \in Nat /\ s[i] \in Nat /\ s[j] \in Nat
    BY <1>2, <1>3, EventIs
  <2>2. i < j \/ j < i
    BY <2>1
  <2>3. s[i] < s[j] \/ s[j] < s[i]
    BY <1>1, <2>2 DEF Enumerates, Increasing
  <2> QED BY <2>1, <2>3
<1> QED BY <1>1, <1>4, <1>5 DEF Enumerates, s

LEMMA TailIs ==
  ASSUME NEW s \in Seq(Event), s # << >>
  PROVE  /\ Tail(s) \in Seq(Event) /\ Head(s) \in Range(s)
         /\ Range(Tail(s)) \subseteq Range(s) /\ Range(s) \subseteq Range(Tail(s)) \cup {Head(s)}
         /\ (\A i, j \in DOMAIN s : i # j => s[i] # s[j])
              => /\ Head(s) \notin Range(Tail(s))
                 /\ \A i, j \in DOMAIN Tail(s) : i # j => Tail(s)[i] # Tail(s)[j]
<1>1. /\ Len(s) \in Nat \ {0} /\ DOMAIN s = 1..Len(s) /\ Head(s) = s[1]
      /\ Tail(s) \in Seq(Event) /\ DOMAIN Tail(s) = 1..(Len(s) - 1)
      /\ \A i \in DOMAIN Tail(s) : Tail(s)[i] = s[i + 1]
  OBVIOUS
<1>2. 1 \in DOMAIN s /\ \A i \in DOMAIN Tail(s) : i + 1 \in DOMAIN s /\ i + 1 # 1
  BY <1>1
<1>3. \A i \in DOMAIN s : i = 1 \/ (i - 1 \in DOMAIN Tail(s) /\ s[i] = Tail(s)[i - 1])
  BY <1>1
<1> DEFINE r == Tail(s)
           h == Head(s)
<1>4. h = s[1] /\ \A i \in DOMAIN r : r[i] = s[i + 1]
  BY <1>1
<1>5. 1 \in DOMAIN s /\ \A i \in DOMAIN r : i + 1 \in DOMAIN s /\ i + 1 # 1 /\ i \in Nat
  BY <1>1, <1>2
<1>6. \A i \in DOMAIN s : i = 1 \/ (i - 1 \in DOMAIN r /\ s[i] = r[i - 1])
  BY <1>3
<1>7. r \in Seq(Event)
  BY <1>1
<1> HIDE DEF r, h
<1>8. h \in Range(s) /\ Range(r) \subseteq Range(s)
  BY <1>4, <1>5 DEF Range
<1>9. Range(s) \subseteq Range(r) \cup {h}
  BY <1>4, <1>6 DEF Range
<1>10. ASSUME \A i, j \in DOMAIN s : i # j => s[i] # s[j]
       PROVE  h \notin Range(r) /\ \A i, j \in DOMAIN r : i # j => r[i] # r[j]
  <2>1. h \notin Range(r)
    BY <1>4, <1>5, <1>10 DEF Range
  <2>2. \A i, j \in DOMAIN r : i # j => r[i] # r[j]
    <3> SUFFICES ASSUME NEW i \in DOMAIN r, NEW j \in DOMAIN r, i # j PROVE r[i] # r[j]
      OBVIOUS
    <3>1. i + 1 \in DOMAIN s /\ j + 1 \in DOMAIN s /\ i + 1 # j + 1
      BY <1>5
    <3> QED BY <1>4, <1>10, <3>1
  <2> QED BY <2>1, <2>2
<1> QED BY <1>7, <1>8, <1>9, <1>10 DEF r, h

LEMMA JoinIs ==
  ASSUME NEW s \in Seq(Event), NEW r \in Seq(Event)
  PROVE  s \o r \in Seq(Event) /\ Range(s \o r) = Range(s) \cup Range(r)
<1>1. /\ s \o r \in Seq(Event) /\ DOMAIN (s \o r) = 1..(Len(s) + Len(r))
      /\ DOMAIN s = 1..Len(s) /\ DOMAIN r = 1..Len(r) /\ Len(s) \in Nat /\ Len(r) \in Nat
      /\ \A i \in DOMAIN (s \o r) :
           (s \o r)[i] = IF i <= Len(s) THEN s[i] ELSE r[i - Len(s)]
  OBVIOUS
<1> DEFINE b == s \o r
<1>2. /\ DOMAIN b = 1..(Len(s) + Len(r))
      /\ \A i \in DOMAIN b : b[i] = IF i <= Len(s) THEN s[i] ELSE r[i - Len(s)]
  BY <1>1
<1> HIDE DEF b
<1>3. Range(b) \subseteq Range(s) \cup Range(r)
  <2> SUFFICES ASSUME NEW i \in DOMAIN b PROVE b[i] \in Range(s) \cup Range(r)
    BY DEF Range
  <2>1. CASE i <= Len(s)
    BY <1>1, <1>2, <2>1 DEF Range
  <2>2. CASE ~(i <= Len(s))
    <3>1. i - Len(s) \in DOMAIN r /\ b[i] = r[i - Len(s)]
      BY <1>1, <1>2, <2>2
    <3> QED BY <3>1 DEF Range
  <2> QED BY <2>1, <2>2
<1>4. Range(s) \subseteq Range(b)
  <2> SUFFICES ASSUME NEW i \in DOMAIN s PROVE s[i] \in Range(b)
    BY DEF Range
  <2>1. i \in DOMAIN b /\ b[i] = s[i]
    BY <1>1, <1>2
  <2> QED BY <2>1 DEF Range
<1>5. Range(r) \subseteq Range(b)
  <2> SUFFICES ASSUME NEW i \in DOMAIN r PROVE r[i] \in Range(b)
    BY DEF Range
  <2>1. i + Len(s) \in DOMAIN b /\ ~(i + Len(s) <= Len(s)) /\ (i + Len(s)) - Len(s) = i
    BY <1>1, <1>2
  <2>2. b[i + Len(s)] = r[i]
    BY <1>2, <2>1
  <2> QED BY <2>1, <2>2 DEF Range
<1> QED BY <1>1, <1>3, <1>4, <1>5 DEF b

LEMMA EmptyIs ==
  /\ << >> \in Seq(Event) /\ Range(<< >>) = {}
  /\ \A i, j \in DOMAIN << >> : i # j => << >>[i] # << >>[j]
  BY DEF Range

----------------------------------------------------------------------------
(* Lemmas on checkpoints.                                                  *)

Pendings == {"none", "undo_window", "failed", "ambiguous"}

\* What a checkpoint says of an event is what the other one says.
Same(m, r, e) == /\ r.thread[e] = m.thread[e] /\ r.parent[e] = m.parent[e]
                 /\ r.card[e] = m.card[e] /\ r.pending[e] = m.pending[e]
\* A checkpoint that differs only in what it says of e.
Beside(m, r, e) == /\ r \in Memory /\ r.cursor = m.cursor /\ r.removed = m.removed
                   /\ \A d \in Event : d # e => Same(m, r, d)

LEMMA FieldsOfMemory ==
  ASSUME NEW m \in Memory
  PROVE  /\ m.thread \in [Event -> Nat] /\ m.parent \in [Event -> Nat]
         /\ m.card \in [Event -> BOOLEAN] /\ m.shown \in [Event -> Nat]
         /\ m.pending \in [Event -> Pendings] /\ m.removed \in SUBSET Event
         /\ m.cursor \in {0} \cup Event /\ m.seeded \in BOOLEAN
  BY DEF Memory, Pendings

LEMMA PendingChanged ==
  ASSUME NEW m \in Memory, NEW e \in Event, NEW x \in Pendings
  PROVE  LET r == [m EXCEPT !.pending[e] = x]
         IN  /\ Beside(m, r, e) /\ r.thread[e] = m.thread[e] /\ r.parent[e] = m.parent[e]
             /\ r.card[e] = m.card[e] /\ r.pending[e] = x
  BY DEF Memory, Beside, Same, Pendings

LEMMA ThreadChanged ==
  ASSUME NEW m \in Memory, NEW e \in Event, NEW n \in Nat
  PROVE  LET r == [m EXCEPT !.thread[e] = n]
         IN  /\ Beside(m, r, e) /\ r.thread[e] = n /\ r.parent[e] = m.parent[e]
             /\ r.card[e] = m.card[e] /\ r.pending[e] = m.pending[e]
  BY DEF Memory, Beside, Same

LEMMA ParentChanged ==
  ASSUME NEW m \in Memory, NEW e \in Event, NEW n \in Nat
  PROVE  LET r == [m EXCEPT !.parent[e] = n]
         IN  /\ Beside(m, r, e) /\ r.thread[e] = m.thread[e] /\ r.parent[e] = n
             /\ r.card[e] = m.card[e] /\ r.pending[e] = m.pending[e]
  BY DEF Memory, Beside, Same

LEMMA ShownChanged ==
  ASSUME NEW m \in Memory, NEW e \in Event, NEW n \in Nat
  PROVE  LET r == [m EXCEPT !.shown[e] = n]
         IN  Beside(m, r, e) /\ Same(m, r, e)
  BY DEF Memory, Beside, Same

LEMMA SeededChanged ==
  ASSUME NEW m \in Memory, NEW c \in {0} \cup Event, NEW b \in BOOLEAN
  PROVE  LET r == [m EXCEPT !.seeded = b, !.cursor = c]
         IN r \in Memory /\ r.cursor = c /\ r.removed = m.removed /\ \A e \in Event : Same(m, r, e)
  BY DEF Memory, Same

LEMMA CursorChanged ==
  ASSUME NEW m \in Memory, NEW c \in {0} \cup Event
  PROVE  LET r == [m EXCEPT !.cursor = c]
         IN r \in Memory /\ r.cursor = c /\ r.removed = m.removed /\ \A e \in Event : Same(m, r, e)
  BY DEF Memory, Same

LEMMA RemovedChanged ==
  ASSUME NEW m \in Memory, NEW R \in SUBSET Event
  PROVE  LET r == [m EXCEPT !.removed = R]
         IN r \in Memory /\ r.cursor = m.cursor /\ r.removed = R /\ \A e \in Event : Same(m, r, e)
  BY DEF Memory, Same

LEMMA Blank ==
  ASSUME NEW w, FactsOK(w), NEW b \in BOOLEAN
  PROVE  /\ MemOK(Checkpoint(b), w)
         /\ \A e \in Event : Checkpoint(b).thread[e] = 0 /\ Checkpoint(b).parent[e] = 0
<1>1. /\ Checkpoint(b) \in Memory /\ Checkpoint(b).cursor = 0 /\ Checkpoint(b).removed = {}
      /\ \A e \in Event : /\ Checkpoint(b).thread[e] = 0 /\ Checkpoint(b).parent[e] = 0
                          /\ ~Checkpoint(b).card[e] /\ Checkpoint(b).pending[e] = "none"
  BY DEF Checkpoint, Memory
<1>2. \A e \in Event : ~(e <= 0) /\ w.posts[e] \in Nat
  BY EventIs DEF FactsOK
<1> QED BY <1>1, <1>2 DEF MemOK

LEMMA MemoryGrows ==
  ASSUME NEW v, NEW w, NEW m, FactsOK(v), FactsOK(w), Grows(v, w), MemOK(m, v)
  PROVE  MemOK(m, w)
<1>1. m \in Memory /\ m.cursor \in {0} \cup w.present /\ m.removed \subseteq w.left
  BY DEF MemOK, Grows
<1>2. ASSUME NEW e \in Event
      PROVE  /\ m.thread[e] <= w.posts[e] /\ m.parent[e] <= w.posts[e]
             /\ m.thread[e] # 0 \/ m.parent[e] # 0 \/ m.pending[e] # "none" => e \in w.present
             /\ m.parent[e] # 0 => e \in w.pings
             /\ m.card[e] => m.thread[e] # 0
  <2>1. /\ m.thread[e] \in Nat /\ m.parent[e] \in Nat /\ v.posts[e] \in Nat /\ w.posts[e] \in Nat
        /\ v.posts[e] <= w.posts[e] /\ m.thread[e] <= v.posts[e] /\ m.parent[e] <= v.posts[e]
    BY <1>1, FieldsOfMemory DEF MemOK, FactsOK, Grows
  <2>2. m.thread[e] <= w.posts[e] /\ m.parent[e] <= w.posts[e]
    BY <2>1
  <2>3. /\ m.thread[e] # 0 \/ m.parent[e] # 0 \/ m.pending[e] # "none" => e \in v.present
        /\ m.parent[e] # 0 => e \in v.pings
        /\ m.card[e] => m.thread[e] # 0
    BY DEF MemOK
  <2> QED BY <2>2, <2>3 DEF Grows
<1>3. ASSUME NEW e \in Event, e <= m.cursor, e \in w.owed PROVE Told(m, e)
  <2>1. m.cursor \in v.present /\ e \in Nat /\ m.cursor \in Nat
    BY <1>3, EventIs DEF MemOK, FactsOK
  <2>2. e = m.cursor \/ e < m.cursor
    BY <1>3, <2>1
  <2>3. e \in v.present
    BY <2>1, <2>2 DEF FactsOK
  <2>4. e \in v.owed
    BY <1>3, <2>3 DEF Grows
  <2> QED BY <1>3, <2>4 DEF MemOK
<1> QED BY <1>1, <1>2, <1>3 DEF MemOK

LEMMA MemoryBeside ==
  ASSUME NEW w, NEW m, NEW r, NEW e \in Event, FactsOK(w), MemOK(m, w), Beside(m, r, e),
         r.thread[e] <= w.posts[e], r.parent[e] <= w.posts[e],
         r.thread[e] # 0 \/ r.parent[e] # 0 \/ r.pending[e] # "none" => e \in w.present,
         r.parent[e] # 0 => e \in w.pings,
         r.card[e] => r.thread[e] # 0,
         e \in w.owed /\ Told(m, e) => Told(r, e)
  PROVE  MemOK(r, w)
<1>1. r \in Memory /\ r.cursor \in {0} \cup w.present /\ r.removed \subseteq w.left
  BY DEF MemOK, Beside
<1>2. ASSUME NEW d \in Event
      PROVE  /\ r.thread[d] <= w.posts[d] /\ r.parent[d] <= w.posts[d]
             /\ r.thread[d] # 0 \/ r.parent[d] # 0 \/ r.pending[d] # "none" => d \in w.present
             /\ r.parent[d] # 0 => d \in w.pings
             /\ r.card[d] => r.thread[d] # 0
             /\ d <= r.cursor /\ d \in w.owed => Told(r, d)
  <2>1. CASE d = e
    <3>1. e <= r.cursor /\ e \in w.owed => Told(r, e)
      BY DEF MemOK, Beside
    <3> QED BY <2>1, <3>1
  <2>2. CASE d # e
    <3>1. Same(m, r, d) /\ r.cursor = m.cursor
      BY <2>2 DEF Beside
    <3>2. Told(m, d) => Told(r, d)
      BY <3>1 DEF Told, Same, Announced
    <3> QED BY <3>1, <3>2 DEF MemOK, Same
  <2> QED BY <2>1, <2>2
<1> QED BY <1>1, <1>2 DEF MemOK

LEMMA MemoryAside ==
  ASSUME NEW w, NEW m, NEW r, MemOK(m, w), r \in Memory, \A e \in Event : Same(m, r, e),
         r.cursor \in {0} \cup w.present, r.removed \subseteq w.left,
         \A e \in Event : e <= r.cursor /\ e \in w.owed => Told(m, e)
  PROVE  MemOK(r, w)
<1>1. ASSUME NEW d \in Event
      PROVE  /\ r.thread[d] <= w.posts[d] /\ r.parent[d] <= w.posts[d]
             /\ r.thread[d] # 0 \/ r.parent[d] # 0 \/ r.pending[d] # "none" => d \in w.present
             /\ r.parent[d] # 0 => d \in w.pings
             /\ r.card[d] => r.thread[d] # 0
             /\ d <= r.cursor /\ d \in w.owed => Told(r, d)
  <2>1. Told(m, d) => Told(r, d)
    BY DEF Told, Same, Announced
  <2> QED BY <2>1 DEF MemOK, Same
<1> QED BY <1>1 DEF MemOK

\* What holds of the posts of an event depends on what a checkpoint says of it alone.
LEMMA SameCover ==
  ASSUME NEW w, NEW m, NEW r, NEW e, Same(m, r, e)
  PROVE  /\ Tight(r, e, w) <=> Tight(m, e, w)
         /\ Loose(r, e, w) <=> Loose(m, e, w)
         /\ Told(r, e) <=> Told(m, e)
         /\ Announced(r, e) <=> Announced(m, e)
  BY DEF Same, Tight, Kept, Loose, Retired, Told, Announced

LEMMA CoverGrows ==
  ASSUME NEW v, NEW w, NEW m, NEW e \in Event, Grows(v, w), FactsOK(v), FactsOK(w),
         w.standing[e] \subseteq v.standing[e]
  PROVE  /\ Tight(m, e, v) => Tight(m, e, w)
         /\ Loose(m, e, v) => Loose(m, e, w)
<1>1. Tight(m, e, v) => Tight(m, e, w)
  BY DEF Tight, Grows
<1>2. Retired(m, e, v) => Retired(m, e, w)
  <2> SUFFICES ASSUME Retired(m, e, v) PROVE Retired(m, e, w)
    OBVIOUS
  <2>1. PICK i \in 0..v.posts[e] : v.standing[e] \subseteq {i}
    BY DEF Retired
  <2>2. v.posts[e] \in Nat /\ w.posts[e] \in Nat /\ v.posts[e] <= w.posts[e]
    BY DEF Grows, FactsOK
  <2>3. i \in 0..w.posts[e] /\ w.standing[e] \subseteq {i}
    BY <2>1, <2>2
  <2> QED BY <2>3 DEF Retired, Grows
<1> QED BY <1>1, <1>2 DEF Loose

----------------------------------------------------------------------------
(* Lemmas on pollers.                                                      *)

LEMMA FieldsOfTask ==
  ASSUME NEW q \in Task
  PROVE  /\ q.mem \in Memory /\ q.todo \in Seq(Event) /\ q.alive \in BOOLEAN
         /\ q.event \in {0} \cup Event /\ q.detail \in Nat
         /\ q.baseline \in {0} \cup Event /\ q.newest \in {0} \cup Event
         /\ q.seen \in [Event -> [status : Statuses \cup {"unknown"}, rev : Nat]]
         /\ q.known \in BOOLEAN /\ q.then \in {"announce", "restored"}
         /\ q.boot \in {"list", "adopt", "poll", "done"}
         /\ q.at \in {"idle", "seed", "announce", "deliver", "revisions", "close", "restored",
                      "roster"}
  BY DEF Task

\* A poller between two batches.
Calm == {"idle", "revisions", "restored", "roster"}

LEMMA CalmIsOK ==
  ASSUME NEW w, NEW q, NEW r \in Task, FactsOK(w), PollerOK(q, w), r.at \in Calm,
         MemOK(r.mem, w), \A e \in Event : Loose(r.mem, e, w),
         Range(r.todo) \subseteq w.present,
         r.baseline \in {0, q.baseline}, r.newest \in {0, q.newest}, r.seen \in {Unseen, q.seen}
  PROVE  PollerOK(r, w)
<1>1. r.at \notin {"seed", "announce", "deliver", "close"}
  BY DEF Calm
<1>2. \A e \in Event : ~(e <= 0)
  BY EventIs
<1>3. TaskOK(r, w)
  BY <1>1, <1>2 DEF TaskOK, PollerOK
<1>4. SeenOK(r, w)
  BY DEF SeenOK, PollerOK, Unseen
<1>5. DeliverOK(r, w) /\ BatchOK(r, w) /\ CloseOK(r)
  BY <1>1 DEF DeliverOK, BatchOK, CloseOK, Announcing
<1> QED BY <1>3, <1>4, <1>5 DEF PollerOK

\* The next phases leave the checkpoint alone and deliver nothing.
Follows(q, r, w) == /\ PollerOK(r, w) /\ r.mem = q.mem /\ r.alive = q.alive /\ r.boot = q.boot
                    /\ r.at # "deliver"

LEMMA RosterEnds ==
  ASSUME NEW w, NEW q, FactsOK(w), PollerOK(q, w), q.alive, q.at # "deliver"
  PROVE  Follows(q, EndOfRoster(q), w)
<1>1. q \in Task /\ MemOK(q.mem, w) /\ \A e \in Event : Loose(q.mem, e, w)
  BY DEF PollerOK, TaskOK
<1>2. CASE q.at = "roster" /\ q.todo = << >>
  <2> DEFINE t == Idle(q.mem, q.boot)
             r == [t EXCEPT !.baseline = q.baseline]
  <2>1. EndOfRoster(q) = r
    BY <1>2 DEF EndOfRoster
  <2>2. /\ r \in Task /\ r.mem = q.mem /\ r.boot = q.boot /\ r.baseline = q.baseline
        /\ r.alive /\ r.at = "idle" /\ r.newest = 0 /\ r.todo = << >> /\ r.seen = Unseen
    <3>1. /\ q.mem \in Memory /\ q.boot \in {"list", "adopt", "poll", "done"}
          /\ q.baseline \in {0} \cup Event
      BY <1>1, FieldsOfTask
    <3>2. /\ t \in Task /\ t.mem = q.mem /\ t.boot = q.boot /\ t.alive = TRUE
          /\ t.at = "idle" /\ t.newest = 0 /\ t.todo = << >> /\ t.seen = Unseen
      <4>1. Unseen \in [Event -> [status : Statuses \cup {"unknown"}, rev : Nat]]
        BY DEF Unseen
      <4>2. << >> \in Seq(Event)
        OBVIOUS
      <4> QED BY <3>1, <4>1, <4>2 DEF Idle, Task
    <3> HIDE DEF t
    <3> QED BY <3>1, <3>2 DEF Task
  <2> HIDE DEF r
  <2>3. PollerOK(r, w)
    BY <1>1, <2>2, CalmIsOK, EmptyIs DEF Calm
  <2>4. r.alive = q.alive
    BY <1>1, <2>2, FieldsOfTask
  <2> QED BY <2>1, <2>2, <2>3, <2>4 DEF Follows
<1>3. CASE ~(q.at = "roster" /\ q.todo = << >>)
  <2>1. EndOfRoster(q) = q
    BY <1>3 DEF EndOfRoster
  <2> QED BY <2>1 DEF Follows
<1> QED BY <1>2, <1>3

LEMMA MappedIs ==
  ASSUME NEW w, NEW m, MemOK(m, w)
  PROVE  Mapped(m) \in SUBSET Event /\ Mapped(m) \subseteq w.present
  BY DEF Mapped, MemOK

LEMMA RestoredEnds ==
  ASSUME NEW w, NEW q, FactsOK(w), PollerOK(q, w), q.alive, q.at # "deliver"
  PROVE  Follows(q, EndOfRestored(q), w)
<1>1. q \in Task /\ MemOK(q.mem, w) /\ \A e \in Event : Loose(q.mem, e, w)
  BY DEF PollerOK, TaskOK
<1>2. CASE q.at = "restored" /\ q.todo = << >>
  <2> DEFINE todo == IF q.known THEN InOrder(Mapped(q.mem)) ELSE << >>
             r == [q EXCEPT !.at = "roster", !.todo = todo]
  <2>1. EndOfRestored(q) = EndOfRoster(r)
    BY <1>2 DEF EndOfRestored
  <2>2. todo \in Seq(Event) /\ Range(todo) \subseteq w.present
    BY <1>1, MappedIs, InOrderIs, EmptyIs
  <2> HIDE DEF todo
  <2>3. /\ r \in Task /\ r.mem = q.mem /\ r.boot = q.boot /\ r.baseline = q.baseline
        /\ r.alive = q.alive /\ r.at = "roster" /\ r.newest = q.newest /\ r.todo = todo
        /\ r.seen = q.seen
    BY <1>1, <2>2 DEF Task
  <2> HIDE DEF r
  <2>4. PollerOK(r, w)
    BY <1>1, <2>2, <2>3, CalmIsOK DEF Calm
  <2>5. Follows(r, EndOfRoster(r), w)
    BY <2>3, <2>4, RosterEnds
  <2> QED BY <2>1, <2>3, <2>5 DEF Follows
<1>3. CASE ~(q.at = "restored" /\ q.todo = << >>)
  <2>1. EndOfRestored(q) = EndOfRoster(q)
    BY <1>3 DEF EndOfRestored
  <2> QED BY <2>1, RosterEnds
<1> QED BY <1>2, <1>3

LEMMA Settles ==
  ASSUME NEW w, NEW q, FactsOK(w), PollerOK(q, w), q.alive, q.at # "deliver"
  PROVE  Follows(q, Settled(q), w)
<1>1. q \in Task /\ MemOK(q.mem, w) /\ \A e \in Event : Loose(q.mem, e, w)
  BY DEF PollerOK, TaskOK
<1>2. CASE q.at = "close" /\ q.todo = << >>
  <2> DEFINE todo == InOrder(q.mem.removed)
             r == [q EXCEPT !.at = "restored", !.todo = todo]
  <2>1. Settled(q) = EndOfRestored(r)
    BY <1>2 DEF Settled
  <2>2. todo \in Seq(Event) /\ Range(todo) \subseteq w.present
    <3>1. q.mem.removed \in SUBSET Event /\ q.mem.removed \subseteq w.present
      BY <1>1, FieldsOfTask, FieldsOfMemory DEF MemOK, FactsOK
    <3> QED BY <3>1, InOrderIs
  <2> HIDE DEF todo
  <2>3. /\ r \in Task /\ r.mem = q.mem /\ r.boot = q.boot /\ r.baseline = q.baseline
        /\ r.alive = q.alive /\ r.at = "restored" /\ r.newest = q.newest /\ r.todo = todo
        /\ r.seen = q.seen
    BY <1>1, <2>2 DEF Task
  <2> HIDE DEF r
  <2>4. PollerOK(r, w)
    BY <1>1, <2>2, <2>3, CalmIsOK DEF Calm
  <2>5. Follows(r, EndOfRestored(r), w)
    BY <2>3, <2>4, RestoredEnds
  <2> QED BY <2>1, <2>3, <2>5 DEF Follows
<1>3. CASE ~(q.at = "close" /\ q.todo = << >>)
  <2>1. Settled(q) = EndOfRestored(q)
    BY <1>3 DEF Settled
  <2> QED BY <2>1, RestoredEnds
<1> QED BY <1>2, <1>3

----------------------------------------------------------------------------
(* What a step of a poller has to show.                                    *)

LEMMA FieldsOfFacts ==
  /\ Facts.present = {e \in Event : status[e] # "absent"}
  /\ Facts.owed = {e \in Event : status[e] = "scheduled" /\ history[e] \cap {"left", "folded"} = {}}
  /\ Facts.left = {e \in Event : "left" \in history[e]}
  /\ Facts.folded = {e \in Event : "folded" \in history[e]}
  /\ Facts.over = {e \in Event : status[e] = "over"}
  /\ Facts.excused = {e \in Event : history[e] \cap {"lost", "overlap"} # {}}
  /\ Facts.pings = {e \in Event : \/ delivery = "message"
                                  \/ delivery = "calendar" /\ kind[e] # "organized"}
  /\ Facts.posts = [e \in Event |-> Len(post[e])]
  /\ Facts.standing = [e \in Event |-> Standing(e)]
  BY DEF Facts

LEMMA WorldGivesFacts == WorldOK => FactsOK(Facts)
<1> SUFFICES ASSUME WorldOK PROVE FactsOK(Facts)
  OBVIOUS
<1> USE FieldsOfFacts
<1>1. /\ Facts.left \subseteq Facts.present /\ Facts.over \subseteq Facts.left
      /\ Facts.owed \subseteq Facts.present \ (Facts.left \cup Facts.folded)
      /\ Facts.present \subseteq Event
  BY DEF WorldOK
<1>2. \A e \in Facts.present, d \in Event : d < e => d \in Facts.present
  BY DEF WorldOK
<1>3. \A e \in Event : Len(post[e]) \in Nat /\ Standing(e) \subseteq 1..Len(post[e])
  <2> SUFFICES ASSUME NEW e \in Event PROVE Len(post[e]) \in Nat /\ Standing(e) \subseteq 1..Len(post[e])
    OBVIOUS
  <2>1. post[e] \in Seq(PostState)
    BY DEF WorldOK
  <2>2. DOMAIN post[e] = 1..Len(post[e]) /\ Len(post[e]) \in Nat
    BY <2>1
  <2> QED BY <2>2 DEF Standing
<1> QED BY <1>1, <1>2, <1>3 DEF FactsOK

LEMMA NextWorldGivesFacts == WorldOK' => FactsOK(Facts')
<1>1. (WorldOK => FactsOK(Facts))'
  BY WorldGivesFacts, PTL
<1> QED BY <1>1

LEMMA SameFacts ==
  UNCHANGED <<status, history, kind, delivery, post>> => Facts' = Facts
  BY DEF Facts, Standing

LEMMA GrowsByNothing ==
  ASSUME NEW w, FactsOK(w) PROVE Grows(w, w)
  BY DEF Grows, FactsOK

\* Once a poller has overlapped another, every event is excused.
LEMMA OverlapExcuses == WorldOK /\ Overlapped => \A e \in Event : e \in Facts.excused
  BY FieldsOfFacts DEF Overlapped

LEMMA NextOverlapExcuses == WorldOK' /\ Overlapped' => \A e \in Event : e \in Facts'.excused
<1>1. (WorldOK /\ Overlapped => \A e \in Event : e \in Facts.excused)'
  BY OverlapExcuses, PTL
<1> QED BY <1>1

LEMMA ExcusedIsLoose ==
  ASSUME NEW w, NEW e \in w.excused, NEW m PROVE Tight(m, e, w) /\ Loose(m, e, w)
  BY DEF Tight, Loose

LEMMA PollerGrows ==
  ASSUME NEW v, NEW w, NEW q, FactsOK(v), FactsOK(w), Grows(v, w), PollerOK(q, v),
         \A e \in Event : e \in w.excused \/ w.standing[e] \subseteq v.standing[e]
  PROVE  PollerOK(q, w)
<1>1. /\ q \in Task /\ MemOK(q.mem, v) /\ q.event \in {0} \cup Event
      /\ q.newest \in {0} \cup v.present
      /\ q.todo \in Seq(Event) /\ Range(q.todo) \subseteq v.present
  BY FieldsOfTask DEF PollerOK, TaskOK
<1>2. MemOK(q.mem, w)
  BY <1>1, MemoryGrows
<1>3. \A e \in Event : /\ Tight(q.mem, e, v) => Tight(q.mem, e, w)
                       /\ Loose(q.mem, e, v) => Loose(q.mem, e, w)
  <2> TAKE e \in Event
  <2>1. CASE e \in w.excused
    BY <2>1, ExcusedIsLoose
  <2>2. CASE w.standing[e] \subseteq v.standing[e]
    BY <2>2, CoverGrows
  <2> QED BY <2>1, <2>2
<1>4. TaskOK(q, w)
  BY <1>1, <1>2 DEF PollerOK, TaskOK, Grows
<1>5. SeenOK(q, w)
  BY DEF PollerOK, SeenOK, Grows
<1>6. DeliverOK(q, w)
  BY <1>1, <1>3 DEF PollerOK, DeliverOK, Grows, FactsOK
<1>7. BatchOK(q, w)
  <2> SUFFICES ASSUME Announcing(q) PROVE BatchOK(q, w)
    BY DEF BatchOK
  <2>1. ASSUME NEW e \in w.owed, e <= q.newest
        PROVE  \/ Told(q.mem, e) \/ e \in Range(q.todo)
               \/ q.at = "deliver" /\ e = q.event
    <3>1. e \in Event /\ e \in Nat \ {0} /\ q.newest \in v.present
      <4>1. e \in Event
        BY DEF FactsOK
      <4>2. e \in Nat \ {0} /\ q.newest # 0
        BY <2>1, <4>1, EventIs
      <4> QED BY <1>1, <4>1, <4>2
    <3>2. e \in v.present
      <4>1. q.newest \in Nat /\ (e = q.newest \/ e < q.newest)
        BY <2>1, <3>1, EventIs DEF FactsOK
      <4> QED BY <3>1, <4>1 DEF FactsOK
    <3>3. e \in v.owed
      BY <2>1, <3>2 DEF Grows
    <3> QED BY <2>1, <3>3 DEF PollerOK, BatchOK
  <2>2. \A e \in Range(q.todo) : Tight(q.mem, e, w)
    BY <1>1, <1>3 DEF PollerOK, BatchOK, FactsOK
  <2> QED BY <2>1, <2>2 DEF BatchOK, PollerOK
<1>8. \A e \in Event : Loose(q.mem, e, w)
  BY <1>3 DEF PollerOK
<1> QED BY <1>4, <1>5, <1>6, <1>7, <1>8 DEF PollerOK

\* The file is what the poller remembers, or it is left alone and is so but for the
\* event that is delivered.
Files(q) ==
  \/ file' = q.mem
  \/ /\ file' = file
     /\ \/ Overlapped
        \/ /\ Recorded(q, file)
           /\ q.at = "deliver" => \A e \in Event : \/ Loose(file, e, Facts')
                                                   \/ q.mem.thread[e] \notin {0, file.thread[e]}

LEMMA PollersKeep ==
  ASSUME IInv, NEW p \in Poller, NEW q, poller[p].alive, Is(p, q), registered' = registered,
         q.alive, PollerOK(q, Facts'), WorldOK', Grows(Facts, Facts'), Overlapped' <=> Overlapped,
         \A e \in Event : \/ e \in Facts'.excused
                          \/ Facts'.standing[e] \subseteq Facts.standing[e]
                          \/ \A o \in Poller : poller[o].alive => o = p,
         Files(q)
  PROVE  IInv'
<1> DEFINE stops == q.at = "idle" /\ q.boot = "done" /\ registered # p
<1>1. /\ DOMAIN poller = Poller /\ DOMAIN poller' = Poller
      /\ poller'[p] = IF stops THEN Stopped ELSE q
      /\ \A o \in Poller : o # p => poller'[o] = poller[o]
  BY DEF Is, IInv, ManagerOK
<1> HIDE DEF stops
<1>2. FactsOK(Facts) /\ FactsOK(Facts')
  BY NextWorldGivesFacts DEF IInv
<1>3. Stopped.alive = FALSE
  BY DEF Stopped, Idle
<1>4. PollersOK'
  <2> SUFFICES ASSUME NEW o \in Poller
               PROVE  IF poller'[o].alive THEN PollerOK(poller'[o], Facts')
                      ELSE poller'[o] = Stopped
    BY DEF PollersOK
  <2>1. CASE o = p
    BY <1>1, <1>3, <2>1
  <2>2. CASE o # p /\ ~poller[o].alive
    BY <1>1, <2>2 DEF IInv, PollersOK
  <2>3. CASE o # p /\ poller[o].alive
    <3>1. \A e \in Event : e \in Facts'.excused \/ Facts'.standing[e] \subseteq Facts.standing[e]
      BY <2>3
    <3>2. PollerOK(poller[o], Facts)
      BY <2>3 DEF IInv, PollersOK
    <3>3. PollerOK(poller[o], Facts')
      BY <1>2, <3>1, <3>2, PollerGrows
    <3> QED BY <1>1, <2>3, <3>3
  <2> QED BY <2>1, <2>2, <2>3
<1>5. ManagerOK'
  <2>1. \A o \in Poller : poller'[o].alive => poller[o].alive
    BY <1>1, <1>3
  <2>2. registered # None => poller'[registered].alive
    <3>1. CASE registered = p
      <4>1. ~stops
        BY <3>1 DEF stops
      <4> QED BY <1>1, <3>1, <4>1
    <3>2. CASE registered # p
      BY <1>1, <3>2 DEF IInv, ManagerOK
    <3> QED BY <3>1, <3>2
  <2>3. \A o \in Poller : poller'[o].alive /\ registered # o
                            => poller'[o].at # "idle" \/ poller'[o].boot # "done"
    <3> TAKE o \in Poller
    <3>1. CASE o = p
      BY <1>1, <1>3, <3>1 DEF stops
    <3>2. CASE o # p
      BY <1>1, <3>2 DEF IInv, ManagerOK, InFlight
    <3> QED BY <3>1, <3>2
  <2>4. Overlapped' \/ \A o, r \in Poller : poller'[o].alive /\ poller'[r].alive => o = r
    BY <2>1 DEF IInv, ManagerOK
  <2>5. registered \in {None} \cup Poller
    BY DEF IInv, ManagerOK
  <2> QED BY <1>1, <2>2, <2>3, <2>4, <2>5 DEF ManagerOK, InFlight
<1>6. FileOK'
  <2>1. MemOK(file', Facts')
    <3>1. CASE file' = q.mem
      BY <3>1 DEF PollerOK, TaskOK
    <3>2. CASE file' = file
      BY <1>2, <3>2, MemoryGrows DEF IInv, FileOK
    <3> QED BY <3>1, <3>2 DEF Files
  <2>2. CASE Overlapped
    <3>1. \A e \in Event : e \in Facts'.excused
      BY <2>2, NextOverlapExcuses
    <3>2. \A e \in Event : Loose(file', e, Facts')
      BY <3>1, ExcusedIsLoose
    <3> QED BY <2>1, <2>2, <3>2 DEF FileOK
  <2>3. CASE ~Overlapped
    <3>1. Recorded(q, file')
      BY <2>3 DEF Files, Recorded
    <3>2. ASSUME NEW o \in Poller, poller'[o].alive PROVE Recorded(poller'[o], file')
      <4>1. o = p
        BY <1>1, <2>3, <3>2 DEF IInv, ManagerOK
      <4> QED BY <1>1, <1>3, <3>1, <3>2, <4>1
    <3>3. ASSUME NEW e \in Event PROVE Loose(file', e, Facts') \/ Unrecorded(e)'
      <4>1. CASE file' = q.mem \/ q.at # "deliver"
        <5>1. file' = q.mem
          BY <3>1, <4>1 DEF Recorded
        <5> QED BY <5>1 DEF PollerOK
      <4>2. CASE file' = file /\ q.at = "deliver"
        <5>1. Loose(file, e, Facts') \/ q.mem.thread[e] \notin {0, file.thread[e]}
          BY <2>3, <4>2 DEF Files, PollerOK
        <5>2. ~stops
          BY <4>2 DEF stops
        <5>3. poller'[p] = q
          BY <1>1, <5>2
        <5> QED BY <4>2, <5>1, <5>3 DEF Unrecorded
      <4> QED BY <4>1, <4>2 DEF Files
    <3> QED BY <2>1, <3>2, <3>3 DEF FileOK
  <2> QED BY <2>2, <2>3
<1> QED BY <1>2, <1>4, <1>5, <1>6 DEF IInv

LEMMA SpendIs ==
  ASSUME WorldOK, NEW what \in Counter, Spend(what)
  PROVE  left' \in [Counter -> Nat]
<1>1. left \in [Counter -> Nat] /\ left[what] \in Nat /\ left[what] > 0
  BY DEF WorldOK, Spend
<1>2. left[what] - 1 \in Nat
  BY <1>1
<1> QED BY <1>1, <1>2 DEF Spend

LEMMA LeftStays == WorldOK /\ left' = left => left' \in [Counter -> Nat]
  BY DEF WorldOK

\* A poller's step changes the posts, and marks events as folded or lost.
Notes == history' = history \/ \E es \in SUBSET Event, what \in {"folded", "lost"} : Remember(es, what)

LEMMA NotesKeep ==
  ASSUME WorldOK, Notes
  PROVE  /\ history' \in [Event -> SUBSET Marks]
         /\ \A e \in Event : /\ history[e] \subseteq history'[e]
                             /\ "left" \in history'[e] <=> "left" \in history[e]
                             /\ "overlap" \in history'[e] <=> "overlap" \in history[e]
<1>1. history \in [Event -> SUBSET Marks]
  BY DEF WorldOK
<1>2. CASE history' = history
  BY <1>1, <1>2
<1>3. CASE \E es \in SUBSET Event, what \in {"folded", "lost"} : Remember(es, what)
  <2>1. PICK es \in SUBSET Event, what \in {"folded", "lost"} : Remember(es, what)
    BY <1>3
  <2>2. history' = [e \in Event |-> IF e \in es THEN history[e] \cup {what} ELSE history[e]]
    BY <2>1 DEF Remember
  <2>3. what \in Marks /\ what # "left" /\ what # "overlap"
    BY DEF Marks
  <2>4. \A e \in Event : history[e] \in SUBSET Marks /\ history'[e] \in {history[e], history[e] \cup {what}}
    BY <1>1, <2>2
  <2>5. history' \in [Event -> SUBSET Marks]
    BY <2>2, <2>3, <2>4
  <2> QED BY <2>3, <2>4, <2>5
<1> QED BY <1>2, <1>3 DEF Notes

LEMMA WorldKeeps ==
  ASSUME WorldOK, UNCHANGED <<status, rev, kind, delivery>>, Notes, left' \in [Counter -> Nat],
         post' \in [Event -> Seq(PostState)],
         \A e \in Event : Len(post[e]) <= Len(post'[e])
  PROVE  /\ WorldOK' /\ Grows(Facts, Facts') /\ (Overlapped' <=> Overlapped)
         /\ Facts'.present = Facts.present /\ Facts'.left = Facts.left
         /\ Facts'.over = Facts.over /\ Facts'.pings = Facts.pings
<1>1. /\ history' \in [Event -> SUBSET Marks]
      /\ \A e \in Event : /\ history[e] \subseteq history'[e]
                          /\ "left" \in history'[e] <=> "left" \in history[e]
                          /\ "overlap" \in history'[e] <=> "overlap" \in history[e]
  BY NotesKeep
<1>2. WorldOK'
  BY <1>1 DEF WorldOK
<1>3. Overlapped' <=> Overlapped
  BY <1>1 DEF Overlapped
<1>4. /\ Facts'.present = Facts.present /\ Facts'.over = Facts.over /\ Facts'.pings = Facts.pings
  BY DEF Facts
<1>5. Facts'.left = Facts.left
  BY <1>1 DEF Facts
<1>6. Facts.folded \subseteq Facts'.folded /\ Facts.excused \subseteq Facts'.excused
      /\ Facts'.owed \subseteq Facts.owed
  BY <1>1 DEF Facts
<1>7. \A e \in Event : Facts.posts[e] <= Facts'.posts[e]
  BY DEF Facts
<1> QED BY <1>2, <1>3, <1>4, <1>5, <1>6, <1>7 DEF Grows

LEMMA PostsStay == WorldOK /\ post' = post => /\ post' \in [Event -> Seq(PostState)]
                                             /\ \A e \in Event : Len(post[e]) <= Len(post'[e])
<1> SUFFICES ASSUME WorldOK, post' = post PROVE /\ post' \in [Event -> Seq(PostState)]
                                              /\ \A e \in Event : Len(post[e]) <= Len(post'[e])
  OBVIOUS
<1>1. post \in [Event -> Seq(PostState)]
  BY DEF WorldOK
<1>2. \A e \in Event : post[e] \in Seq(PostState) /\ Len(post[e]) \in Nat
  BY <1>1
<1> QED BY <1>1, <1>2

\* The file of a poller that did not deliver and leaves its checkpoint alone.
LEMMA FilesStay ==
  ASSUME IInv, NEW p \in Poller, poller[p].alive, poller[p].at # "deliver", NEW q,
         q.mem = poller[p].mem, PollerOK(q, Facts'), file' = file
  PROVE  Files(q)
<1>1. Overlapped \/ poller[p].mem = file
  BY DEF IInv, FileOK, Recorded
<1>2. ASSUME poller[p].mem = file
      PROVE  /\ Recorded(q, file)
             /\ \A e \in Event : Loose(file, e, Facts')
  BY <1>2 DEF Recorded, PollerOK
<1> QED BY <1>1, <1>2 DEF Files

\* A step that leaves the world and Discord alone.
LEMMA QuietKeeps ==
  ASSUME IInv, NEW p \in Poller, NEW q, poller[p].alive, Is(p, q), UNCHANGED World,
         UNCHANGED <<post, history>>, left' \in [Counter -> Nat],
         q.alive, PollerOK(q, Facts),
         \/ file' = q.mem
         \/ file' = file /\ q.mem = poller[p].mem /\ poller[p].at # "deliver"
  PROVE  IInv'
<1>1. UNCHANGED <<status, rev, kind, registered, delivery>>
  BY DEF World
<1>2. Facts' = Facts
  BY <1>1, SameFacts
<1>3. WorldOK' /\ Grows(Facts, Facts') /\ (Overlapped' <=> Overlapped)
  <2>1. WorldOK /\ Notes
    BY DEF IInv, Notes
  <2> QED BY <1>1, <2>1, PostsStay, WorldKeeps
<1>4. Files(q)
  <2>1. CASE file' = q.mem
    BY <2>1 DEF Files
  <2>2. CASE file' = file /\ q.mem = poller[p].mem /\ poller[p].at # "deliver"
    BY <1>2, <2>2, FilesStay
  <2> QED BY <2>1, <2>2
<1> QED BY <1>1, <1>2, <1>3, <1>4, PollersKeep

LEMMA NewestIs == FactsOK(Facts) => Newest \in {0} \cup Facts.present
                                     /\ \A e \in Listed : e <= Newest
<1> SUFFICES ASSUME FactsOK(Facts) PROVE Newest \in {0} \cup Facts.present
                                       /\ \A e \in Listed : e <= Newest
  OBVIOUS
<1>1. Listed \in SUBSET ({0} \cup Event) /\ Listed \subseteq Facts.present
  BY DEF Listed, Facts
<1>2. CASE Listed = {}
  BY <1>2 DEF Newest
<1>3. CASE Listed # {}
  <2>1. Max(Listed) \in Listed /\ \A y \in Listed : Max(Listed) >= y
    BY <1>1, <1>3, MaxIs
  <2>2. Newest = Max(Listed)
    BY <1>3 DEF Newest
  <2>3. \A y \in Listed : y \in Nat
    BY <1>1, EventIs
  <2> QED BY <1>1, <2>1, <2>2, <2>3
<1> QED BY <1>2, <1>3

LEMMA AliveIs ==
  ASSUME IInv, NEW p \in Poller, poller[p].alive
  PROVE  /\ WorldOK /\ FactsOK(Facts) /\ PollerOK(poller[p], Facts) /\ poller[p] \in Task
         /\ poller[p].mem \in Memory /\ MemOK(poller[p].mem, Facts)
  BY DEF IInv, PollersOK, PollerOK, TaskOK, MemOK

\* The file of a poller whose checkpoint and delivery are left alone.
LEMMA FilesStill ==
  ASSUME IInv, NEW p \in Poller, poller[p].alive, NEW q, q.mem = poller[p].mem,
         q.at = poller[p].at, q.event = poller[p].event, PollerOK(q, Facts'), file' = file,
         WorldOK', Grows(Facts, Facts'),
         \A e \in Event : Facts'.standing[e] \subseteq Facts.standing[e]
  PROVE  Files(q)
<1>1. CASE q.at # "deliver"
  BY <1>1, FilesStay
<1>2. CASE q.at = "deliver" /\ ~Overlapped
  <2>1. Recorded(q, file)
    BY <1>2 DEF IInv, FileOK, Recorded
  <2>2. ASSUME NEW e \in Event
        PROVE  Loose(file, e, Facts') \/ q.mem.thread[e] \notin {0, file.thread[e]}
    <3>1. Loose(file, e, Facts) \/ Unrecorded(e)
      BY DEF IInv, FileOK
    <3>2. CASE Loose(file, e, Facts)
      <4>1. FactsOK(Facts) /\ FactsOK(Facts')
        BY NextWorldGivesFacts DEF IInv
      <4> QED BY <3>2, <4>1, CoverGrows
    <3>3. CASE Unrecorded(e)
      <4>1. PICK o \in Poller : poller[o].alive /\ poller[o].mem.thread[e] \notin {0, file.thread[e]}
        BY <3>3 DEF Unrecorded
      <4>2. o = p
        BY <1>2, <4>1 DEF IInv, ManagerOK
      <4> QED BY <4>1, <4>2
    <3> QED BY <3>1, <3>2, <3>3
  <2> QED BY <2>1, <2>2 DEF Files
<1>3. CASE Overlapped
  BY <1>3 DEF Files
<1> QED BY <1>1, <1>2, <1>3

\* A poller that goes on with what it does, and remembers the same of every event.
LEMMA PollerRemembers ==
  ASSUME NEW w, NEW q, NEW r \in Task, FactsOK(w), PollerOK(q, w), MemOK(r.mem, w),
         r.at = q.at, r.todo = q.todo, r.event = q.event, r.then = q.then, r.newest = q.newest,
         r.seen = q.seen, \A e \in Event : Same(q.mem, r.mem, e),
         r.baseline \in {0} \cup w.present, \A e \in Event : e <= r.baseline => e \in w.folded
  PROVE  PollerOK(r, w)
<1>1. \A e \in Event : /\ Tight(r.mem, e, w) <=> Tight(q.mem, e, w)
                       /\ Loose(r.mem, e, w) <=> Loose(q.mem, e, w)
                       /\ Told(r.mem, e) <=> Told(q.mem, e)
                       /\ r.mem.card[e] = q.mem.card[e] /\ r.mem.thread[e] = q.mem.thread[e]
  BY SameCover DEF Same
<1>2. TaskOK(r, w)
  BY DEF PollerOK, TaskOK
<1>3. Range(q.todo) \subseteq Event
  <2>1. q.todo \in Seq(Event)
    BY FieldsOfTask DEF PollerOK, TaskOK
  <2> QED BY <2>1 DEF Range
<1>4. SeenOK(r, w)
  BY DEF PollerOK, SeenOK
<1>5. DeliverOK(r, w)
  BY <1>1 DEF PollerOK, DeliverOK, FactsOK
<1>6. BatchOK(r, w)
  BY <1>1, <1>3 DEF PollerOK, BatchOK, Announcing, FactsOK
<1>7. CloseOK(r)
  BY <1>1, <1>3 DEF PollerOK, CloseOK
<1>8. \A e \in Event : Loose(r.mem, e, w)
  BY <1>1 DEF PollerOK
<1> QED BY <1>2, <1>4, <1>5, <1>6, <1>7, <1>8 DEF PollerOK

----------------------------------------------------------------------------
(* start() and the cycles of a poller that is not seeded.                  *)

LEMMA FoldedKeeps ==
  ASSUME IInv, NEW p \in Poller, NEW q, poller[p].alive, Is(p, q), UNCHANGED <<post, file, left, World>>,
         Remember({e \in Event : e <= Newest}, "folded"),
         q.alive, q.mem = poller[p].mem,
         \/ q.at = poller[p].at /\ q.event = poller[p].event
         \/ poller[p].at # "deliver",
         FactsOK(Facts') /\ PollerOK(poller[p], Facts') /\ Newest \in {0} \cup Facts'.present
            /\ (\A e \in Event : e <= Newest => e \in Facts'.folded) => PollerOK(q, Facts')
  PROVE  IInv'
<1>1. /\ UNCHANGED <<status, rev, kind, registered, delivery>>
      /\ WorldOK /\ FactsOK(Facts) /\ PollerOK(poller[p], Facts)
  BY AliveIs DEF World
<1>2. Notes
  BY DEF Notes
<1>3. /\ WorldOK' /\ Grows(Facts, Facts') /\ (Overlapped' <=> Overlapped)
      /\ Facts'.present = Facts.present
  BY <1>1, <1>2, PostsStay, LeftStays, WorldKeeps
<1>4. \A e \in Event : Facts'.standing[e] \subseteq Facts.standing[e]
  BY DEF Facts, Standing
<1>5. FactsOK(Facts')
  BY <1>3, NextWorldGivesFacts
<1>6. PollerOK(poller[p], Facts')
  BY <1>1, <1>3, <1>4, <1>5, PollerGrows
<1>7. \A e \in Event : e <= Newest => e \in Facts'.folded
  <2>1. history \in [Event -> SUBSET Marks]
    BY <1>1 DEF WorldOK
  <2> QED BY <2>1 DEF Remember, Facts
<1>8. PollerOK(q, Facts')
  BY <1>1, <1>3, <1>5, <1>6, <1>7, NewestIs
<1>9. Files(q)
  BY <1>3, <1>4, <1>8, FilesStay, FilesStill
<1> QED BY <1>1, <1>3, <1>4, <1>8, <1>9, PollersKeep

LEMMA BootListsKeeps ==
  ASSUME IInv, NEW p \in Poller, BootLists(p) PROVE IInv'
<1> DEFINE q == poller[p]
           r == [q EXCEPT !.boot = "adopt", !.baseline = Newest]
<1>1. /\ q.alive /\ Is(p, r) /\ UNCHANGED <<post, file, left, World>>
      /\ Remember({e \in Event : e <= Newest}, "folded")
  BY DEF BootLists
<1>2. q \in Task /\ FactsOK(Facts) /\ Newest \in {0} \cup Event
  <2>1. FactsOK(Facts) /\ q \in Task
    BY <1>1, AliveIs
  <2> QED BY <2>1, NewestIs DEF FactsOK
<1> DEFINE b == Newest
<1> HIDE DEF b
<1>3. /\ r \in Task /\ r.alive = q.alive /\ r.mem = q.mem /\ r.at = q.at /\ r.event = q.event
      /\ r.todo = q.todo /\ r.then = q.then /\ r.newest = q.newest /\ r.seen = q.seen
      /\ r.baseline = Newest
  BY <1>2 DEF Task
<1> HIDE DEF r
<1>4. ASSUME FactsOK(Facts'), PollerOK(q, Facts'), Newest \in {0} \cup Facts'.present,
             \A e \in Event : e <= Newest => e \in Facts'.folded
      PROVE  PollerOK(r, Facts')
  <2>1. MemOK(r.mem, Facts')
    BY <1>3, <1>4 DEF PollerOK, TaskOK
  <2>2. \A e \in Event : Same(q.mem, r.mem, e)
    BY <1>3 DEF Same
  <2> QED BY <1>3, <1>4, <2>1, <2>2, PollerRemembers
<1>5. r.alive
  BY <1>1, <1>3
<1> QED BY <1>1, <1>3, <1>4, <1>5, FoldedKeeps

LEMMA CycleIs ==
  ASSUME NEW p, poller[p] \in Task
  PROVE  LET q == poller[p]
             c == Cycle(p)
         IN  /\ c \in Task /\ c.alive = q.alive /\ c.mem = q.mem /\ c.todo = q.todo /\ c.seen = q.seen
             /\ c.baseline = q.baseline /\ c.at = q.at /\ c.newest = q.newest
<1> DEFINE q == poller[p]
<1>1. q \in Task
  OBVIOUS
<1>2. Cycle(p) = IF q.boot = "poll" THEN [q EXCEPT !.boot = "done"] ELSE q
  BY DEF Cycle
<1> HIDE DEF q
<1>3. LET c == IF q.boot = "poll" THEN [q EXCEPT !.boot = "done"] ELSE q
      IN  /\ c \in Task /\ c.alive = q.alive /\ c.mem = q.mem /\ c.todo = q.todo /\ c.seen = q.seen
          /\ c.baseline = q.baseline /\ c.at = q.at /\ c.newest = q.newest
  <2>1. CASE q.boot = "poll"
    BY <1>1, <2>1 DEF Task
  <2>2. CASE q.boot # "poll"
    BY <1>1, <2>2
  <2> QED BY <2>1, <2>2
<1> QED BY <1>2, <1>3 DEF q

LEMMA SeedAgainKeeps ==
  ASSUME IInv, NEW p \in Poller, SeedAgain(p) PROVE IInv'
<1> DEFINE q == poller[p]
           c == Cycle(p)
           r == [c EXCEPT !.at = "seed", !.newest = Newest]
<1>1. /\ q.alive /\ q.at = "idle" /\ Is(p, r) /\ UNCHANGED <<post, file, left, World>>
      /\ Remember({e \in Event : e <= Newest}, "folded")
  BY DEF SeedAgain, Begins
<1>2. q \in Task /\ FactsOK(Facts) /\ Newest \in {0} \cup Event
  <2>1. FactsOK(Facts) /\ q \in Task
    BY <1>1, AliveIs
  <2> QED BY <2>1, NewestIs DEF FactsOK
<1>3. /\ c \in Task /\ c.alive = q.alive /\ c.mem = q.mem /\ c.todo = q.todo /\ c.seen = q.seen
      /\ c.baseline = q.baseline
  BY <1>2, CycleIs
<1> HIDE DEF c
<1>4. /\ r \in Task /\ r.alive = q.alive /\ r.mem = q.mem /\ r.at = "seed"
      /\ r.todo = q.todo /\ r.newest = Newest /\ r.seen = q.seen
      /\ r.baseline = q.baseline
  BY <1>2, <1>3 DEF Task
<1> HIDE DEF r
<1>5. ASSUME FactsOK(Facts'), PollerOK(q, Facts'), Newest \in {0} \cup Facts'.present,
             \A e \in Event : e <= Newest => e \in Facts'.folded
      PROVE  PollerOK(r, Facts')
  <2>1. TaskOK(r, Facts') /\ SeenOK(r, Facts')
    BY <1>4, <1>5 DEF PollerOK, TaskOK, SeenOK
  <2>2. DeliverOK(r, Facts') /\ BatchOK(r, Facts') /\ CloseOK(r)
    BY <1>4 DEF DeliverOK, BatchOK, CloseOK, Announcing
  <2>3. \A e \in Event : Loose(r.mem, e, Facts')
    BY <1>4, <1>5 DEF PollerOK
  <2> QED BY <2>1, <2>2, <2>3 DEF PollerOK
<1>6. r.alive /\ poller[p].at # "deliver"
  BY <1>1, <1>4
<1> QED BY <1>1, <1>4, <1>5, <1>6, FoldedKeeps

\* A cursor that is raised to an id all of whose events are folded or told.
LEMMA CursorRaised ==
  ASSUME NEW w, FactsOK(w), NEW m, MemOK(m, w), NEW n \in {0} \cup w.present,
         \A e \in w.owed : e <= n => Told(m, e)
  PROVE  LET c == Max({m.cursor, n})
         IN c \in {0} \cup w.present /\ \A e \in Event : e <= c /\ e \in w.owed => Told(m, e)
<1>1. {m.cursor, n} \in SUBSET ({0} \cup Event) /\ {m.cursor, n} # {}
  BY DEF MemOK, FactsOK
<1>2. Max({m.cursor, n}) \in {m.cursor, n}
  BY <1>1, MaxIs
<1> QED BY <1>2 DEF MemOK

LEMMA BootedIs ==
  ASSUME NEW q \in Task
  PROVE  /\ Booted(q) \in Task /\ Booted(q).alive = q.alive /\ Booted(q).mem = q.mem
         /\ Booted(q).at = q.at /\ Booted(q).todo = q.todo /\ Booted(q).event = q.event
         /\ Booted(q).then = q.then /\ Booted(q).newest = q.newest /\ Booted(q).seen = q.seen
         /\ Booted(q).baseline = 0
  BY DEF Booted, Task

LEMMA BootAdoptsKeeps ==
  ASSUME IInv, NEW p \in Poller, BootAdopts(p) PROVE IInv'
<1> DEFINE q == poller[p]
           c == Max({q.mem.cursor, q.baseline})
           m == [q.mem EXCEPT !.seeded = TRUE, !.cursor = c]
           s == [q EXCEPT !.mem = m]
           r == Booted(s)
<1>1. q.alive /\ Is(p, r) /\ file' = r.mem /\ UNCHANGED World /\ Quiet
  BY DEF BootAdopts, Save
<1>2. WorldOK /\ FactsOK(Facts) /\ PollerOK(q, Facts) /\ q \in Task /\ MemOK(q.mem, Facts) /\ q.mem \in Memory
  BY <1>1, AliveIs
<1>3. c \in {0} \cup Facts.present /\ \A e \in Event : e <= c /\ e \in Facts.owed => Told(q.mem, e)
  <2>1. q.baseline \in {0} \cup Facts.present /\ \A e \in Event : e <= q.baseline => e \in Facts.folded
    BY <1>2 DEF PollerOK, TaskOK
  <2>2. \A e \in Facts.owed : e <= q.baseline => Told(q.mem, e)
    BY <1>2, <2>1 DEF FactsOK
  <2> QED BY <1>2, <2>1, <2>2, CursorRaised
<1> HIDE DEF c
<1>4. m \in Memory /\ m.cursor = c /\ m.removed = q.mem.removed /\ \A e \in Event : Same(q.mem, m, e)
  <2>1. c \in {0} \cup Event /\ q.mem.removed \in SUBSET Event
    BY <1>2, <1>3, FieldsOfMemory DEF FactsOK
  <2> QED BY <1>2, <2>1, SeededChanged
<1> HIDE DEF m
<1>5. MemOK(m, Facts)
  <2>1. q.mem.removed \subseteq Facts.left
    BY <1>2 DEF MemOK
  <2> QED BY <1>2, <1>3, <1>4, <2>1, MemoryAside
<1>6. /\ s \in Task /\ s.alive = q.alive /\ s.mem = m /\ s.at = q.at /\ s.todo = q.todo
      /\ s.event = q.event /\ s.then = q.then /\ s.newest = q.newest /\ s.seen = q.seen
  BY <1>2, <1>4 DEF Task
<1> HIDE DEF s
<1>7. /\ r \in Task /\ r.alive = q.alive /\ r.mem = m /\ r.at = q.at /\ r.todo = q.todo
      /\ r.event = q.event /\ r.then = q.then /\ r.newest = q.newest /\ r.seen = q.seen
      /\ r.baseline = 0
  BY <1>6, BootedIs
<1> HIDE DEF r
<1>8. PollerOK(r, Facts)
  <2>1. \A e \in Event : e <= r.baseline => e \in Facts.folded
    BY <1>7, EventIs
  <2> QED BY <1>2, <1>4, <1>5, <1>7, <2>1, PollerRemembers
<1>9. left' \in [Counter -> Nat] /\ UNCHANGED <<post, history>> /\ r.alive
  BY <1>1, <1>2, <1>7, LeftStays DEF Quiet
<1> QED BY <1>1, <1>8, <1>9, QuietKeeps

LEMMA BootFailsKeeps ==
  ASSUME IInv, NEW p \in Poller, BootFails(p) PROVE IInv'
<1> DEFINE q == poller[p]
           r == Booted(q)
<1>1. q.alive /\ Is(p, r) /\ Spend("faults") /\ UNCHANGED <<post, file, history, World>>
  BY DEF BootFails
<1>2. WorldOK /\ FactsOK(Facts) /\ PollerOK(q, Facts) /\ q \in Task /\ MemOK(q.mem, Facts)
  BY <1>1, AliveIs
<1>3. /\ r \in Task /\ r.alive = q.alive /\ r.mem = q.mem /\ r.at = q.at /\ r.todo = q.todo
      /\ r.event = q.event /\ r.then = q.then /\ r.newest = q.newest /\ r.seen = q.seen
      /\ r.baseline = 0
  BY <1>2, BootedIs
<1> HIDE DEF r
<1>4. PollerOK(r, Facts)
  <2>1. \A e \in Event : (e <= r.baseline => e \in Facts.folded) /\ Same(q.mem, r.mem, e)
    BY <1>3, EventIs DEF Same
  <2> QED BY <1>2, <1>3, <2>1, PollerRemembers
<1>5. UNCHANGED <<status, rev, kind, registered, delivery>>
  BY <1>1 DEF World
<1>6. Facts' = Facts
  BY <1>1, <1>5, SameFacts
<1>7. left' \in [Counter -> Nat] /\ Notes
  BY <1>1, <1>2, SpendIs DEF Counter, Notes
<1>8. WorldOK' /\ Grows(Facts, Facts') /\ (Overlapped' <=> Overlapped)
  BY <1>1, <1>2, <1>5, <1>7, PostsStay, WorldKeeps
<1>9. Files(r)
  BY <1>1, <1>3, <1>4, <1>6, <1>8, FilesStill
<1>10. r.alive
  BY <1>1, <1>3
<1> QED BY <1>1, <1>4, <1>5, <1>6, <1>8, <1>9, <1>10, PollersKeep

LEMMA SeedAdoptsKeeps ==
  ASSUME IInv, NEW p \in Poller, SeedAdopts(p) PROVE IInv'
<1> DEFINE q == poller[p]
           c == Max({q.mem.cursor, q.newest})
           m == [q.mem EXCEPT !.seeded = TRUE, !.cursor = c]
           r == [q EXCEPT !.at = "idle", !.newest = 0, !.mem = m]
<1>1. q.alive /\ q.at = "seed" /\ Is(p, r) /\ file' = r.mem /\ UNCHANGED World /\ Quiet
  BY DEF SeedAdopts, Save
<1>2. WorldOK /\ FactsOK(Facts) /\ PollerOK(q, Facts) /\ q \in Task /\ MemOK(q.mem, Facts) /\ q.mem \in Memory
  BY <1>1, AliveIs
<1>3. c \in {0} \cup Facts.present /\ \A e \in Event : e <= c /\ e \in Facts.owed => Told(q.mem, e)
  <2>1. q.newest \in {0} \cup Facts.present /\ \A e \in Event : e <= q.newest => e \in Facts.folded
    BY <1>1, <1>2 DEF PollerOK, TaskOK
  <2>2. \A e \in Facts.owed : e <= q.newest => Told(q.mem, e)
    BY <1>2, <2>1 DEF FactsOK
  <2> QED BY <1>2, <2>1, <2>2, CursorRaised
<1> HIDE DEF c
<1>4. m \in Memory /\ m.cursor = c /\ m.removed = q.mem.removed /\ \A e \in Event : Same(q.mem, m, e)
  <2>1. c \in {0} \cup Event /\ q.mem.removed \in SUBSET Event
    BY <1>2, <1>3, FieldsOfMemory DEF FactsOK
  <2> QED BY <1>2, <2>1, SeededChanged
<1> HIDE DEF m
<1>5. MemOK(m, Facts)
  <2>1. q.mem.removed \subseteq Facts.left
    BY <1>2 DEF MemOK
  <2> QED BY <1>2, <1>3, <1>4, <2>1, MemoryAside
<1>6. /\ r \in Task /\ r.alive = q.alive /\ r.mem = m /\ r.at = "idle" /\ r.todo = q.todo
      /\ r.newest = 0 /\ r.seen = q.seen /\ r.baseline = q.baseline
  BY <1>2, <1>4 DEF Task
<1> HIDE DEF r
<1>7. PollerOK(r, Facts)
  <2>1. \A e \in Event : Loose(m, e, Facts)
    BY <1>2, <1>4, SameCover DEF PollerOK
  <2>2. Range(r.todo) \subseteq Facts.present
    BY <1>2, <1>6 DEF PollerOK, TaskOK
  <2> QED BY <1>2, <1>5, <1>6, <2>1, <2>2, CalmIsOK DEF Calm
<1>8. left' \in [Counter -> Nat] /\ UNCHANGED <<post, history>> /\ r.alive
  BY <1>1, <1>2, <1>6, LeftStays DEF Quiet
<1> QED BY <1>1, <1>7, <1>8, QuietKeeps

----------------------------------------------------------------------------
(* checkNewEvents.                                                         *)

LEMMA LooseToTight ==
  ASSUME NEW w, NEW m, NEW e, Loose(m, e, w), e \notin w.over \/ m.pending[e] # "none"
  PROVE  Tight(m, e, w)
  BY DEF Loose, Retired

LEMMA ListMoves ==
  ASSUME NEW w, FactsOK(w), NEW q, PollerOK(q, w), NEW r \in Task,
         r.baseline = q.baseline, r.at = "announce", r.then = "announce",
         MemOK(r.mem, w), \A e \in Event : Same(q.mem, r.mem, e),
         NEW new \in SUBSET w.present, new \cap w.over = {},
         Range(r.todo) = Retries(q.mem) \cup new,
         r.newest \in {0} \cup w.present,
         \A e \in w.owed : e <= r.newest => Told(q.mem, e) \/ e \in new,
         \A e \in Event : r.seen[e].status \in {"scheduled", "unknown"}
  PROVE  PollerOK(r, w)
<1>1. q \in Task /\ MemOK(q.mem, w) /\ \A e \in Event : Loose(q.mem, e, w)
  BY DEF PollerOK, TaskOK
<1>2. Retries(q.mem) \in SUBSET Event /\ Retries(q.mem) \subseteq w.present /\ new \in SUBSET Event
  BY <1>1 DEF Retries, MemOK, FactsOK
<1>3. TaskOK(r, w)
  BY <1>2 DEF PollerOK, TaskOK
<1>4. SeenOK(r, w)
  BY DEF SeenOK
<1>5. DeliverOK(r, w) /\ CloseOK(r)
  BY DEF DeliverOK, CloseOK
<1>6. \A e \in Event : /\ Loose(r.mem, e, w)
                       /\ Told(r.mem, e) <=> Told(q.mem, e)
                       /\ r.mem.pending[e] = q.mem.pending[e]
  BY <1>1, SameCover DEF Same
<1>7. BatchOK(r, w)
  <2>1. ASSUME NEW e \in w.owed, e <= r.newest
        PROVE  Told(r.mem, e) \/ e \in Range(r.todo)
    BY <1>6, <2>1 DEF FactsOK
  <2>2. ASSUME NEW e \in Range(r.todo) PROVE Tight(r.mem, e, w)
    <3>1. e \in Event /\ Loose(r.mem, e, w)
      BY <1>2, <1>6
    <3>2. e \in Retries(q.mem) => r.mem.pending[e] # "none"
      BY <1>6, <3>1 DEF Retries
    <3> QED BY <3>1, <3>2, LooseToTight
  <2> QED BY <2>1, <2>2 DEF BatchOK
<1> QED BY <1>3, <1>4, <1>5, <1>6, <1>7 DEF PollerOK

LEMMA ListKeeps ==
  ASSUME IInv, NEW p \in Poller, List(p) PROVE IInv'
<1> DEFINE q == poller[p]
           c == Cycle(p)
           lower == [c EXCEPT !.mem.cursor = Newest]
           clamped == IF Newest > 0 /\ Newest < c.mem.cursor THEN lower ELSE c
           fresh == {e \in Listed : e > c.mem.cursor}
<1>1. PICK found \in SUBSET fresh :
        /\ \/ found = fresh /\ UNCHANGED left
           \/ found # fresh /\ Spend("faults")
        /\ LET base == IF found = fresh THEN clamped ELSE c
               new == {e \in found : status[e] = "scheduled"}
           IN /\ Is(p, [base EXCEPT !.at = "announce", !.then = "announce",
                          !.todo = InOrder(Retries(c.mem)) \o InOrder(new),
                          !.newest = IF found = fresh THEN Newest ELSE 0,
                          !.seen = [e \in Event |->
                                      [status |-> IF e \in new THEN "scheduled" ELSE "unknown",
                                       rev |-> 0]]])
              /\ IF base.mem # c.mem THEN Save(base) ELSE UNCHANGED file
  BY DEF List
<1>2. q.alive /\ q.at = "idle" /\ UNCHANGED <<post, history, World>>
  BY DEF List, Begins
<1> DEFINE base == IF found = fresh THEN clamped ELSE c
           new == {e \in found : status[e] = "scheduled"}
           n == IF found = fresh THEN Newest ELSE 0
           seen == [e \in Event |-> [status |-> IF e \in new THEN "scheduled" ELSE "unknown",
                                     rev |-> 0]]
           todo == InOrder(Retries(c.mem)) \o InOrder(new)
           r == [base EXCEPT !.at = "announce", !.then = "announce", !.todo = todo,
                             !.newest = n, !.seen = seen]
<1>3. Is(p, r) /\ file' = IF base.mem # c.mem THEN base.mem ELSE file
  BY <1>1 DEF Save
<1>4. /\ WorldOK /\ FactsOK(Facts) /\ PollerOK(q, Facts) /\ q \in Task /\ MemOK(q.mem, Facts)
      /\ q.mem \in Memory
  BY <1>2, AliveIs
<1>5. /\ c \in Task /\ c.alive = q.alive /\ c.mem = q.mem /\ c.baseline = q.baseline
  BY <1>4, CycleIs
<1>6. Newest \in {0} \cup Facts.present /\ \A e \in Listed : e <= Newest
  BY <1>4, NewestIs
<1>7. left' \in [Counter -> Nat]
  BY <1>1, <1>4, SpendIs, LeftStays DEF Counter
<1>8. new \in SUBSET Facts.present /\ new \cap Facts.over = {} /\ n \in {0} \cup Facts.present
  BY <1>6 DEF Listed, Facts
<1>9. ASSUME NEW e \in Facts.owed, e <= n PROVE Told(q.mem, e) \/ e \in new
  <2>1. e \in Event /\ status[e] = "scheduled" /\ e \in Nat \ {0}
    BY EventIs DEF Facts
  <2>2. found = fresh
    BY <1>9, <2>1
  <2>3. e \in Listed /\ q.mem.cursor \in {0} \cup Event
    BY <1>4, <2>1, FieldsOfMemory DEF Listed
  <2>4. e <= q.mem.cursor \/ e > q.mem.cursor
    BY <2>1, <2>3, EventIs
  <2>5. CASE e <= q.mem.cursor
    BY <1>4, <2>1, <2>5 DEF MemOK
  <2>6. CASE e > q.mem.cursor
    BY <1>5, <2>1, <2>2, <2>3, <2>6
  <2> QED BY <2>4, <2>5, <2>6
<1>10. /\ base \in Task /\ base.alive = q.alive /\ base.baseline = q.baseline
       /\ MemOK(base.mem, Facts) /\ \A e \in Event : Same(q.mem, base.mem, e)
  <2>1. CASE found = fresh /\ Newest > 0 /\ Newest < c.mem.cursor
    <3> DEFINE k == Newest
               m == [q.mem EXCEPT !.cursor = k]
    <3>1. base = [c EXCEPT !.mem.cursor = k]
      BY <2>1
    <3>2. k \in {0} \cup Event
      BY <1>4, <1>6 DEF FactsOK
    <3>a. k < q.mem.cursor
      BY <1>5, <2>1
    <3>b. k \in {0} \cup Facts.present
      BY <1>6
    <3> HIDE DEF k
    <3>3. m \in Memory /\ m.cursor = k /\ m.removed = q.mem.removed /\ \A e \in Event : Same(q.mem, m, e)
      BY <1>4, <3>2, CursorChanged
    <3> HIDE DEF m
    <3>4. MemOK(m, Facts)
      <4>1. \A e \in Event : e <= k /\ e \in Facts.owed => Told(q.mem, e)
        <5> SUFFICES ASSUME NEW e \in Event, e <= k, e \in Facts.owed PROVE Told(q.mem, e)
          OBVIOUS
        <5>1. e <= q.mem.cursor
          <6>1. e \in Nat /\ k \in Nat /\ q.mem.cursor \in Nat
            <7>1. q.mem.cursor \in {0} \cup Event /\ e \in {0} \cup Event
              BY <1>4, FieldsOfMemory
            <7> HIDE DEF q
            <7> QED BY <3>2, <7>1, IdsAreNumbers
          <6> QED BY <3>a, <6>1
        <5> QED BY <1>4, <5>1 DEF MemOK
      <4>2. q.mem.removed \subseteq Facts.left
        BY <1>4 DEF MemOK
      <4> QED BY <1>4, <3>b, <3>3, <4>1, <4>2, MemoryAside
    <3>5. base = [c EXCEPT !.mem = m]
      BY <1>4, <1>5, <3>1, <3>2 DEF Task, m
    <3> HIDE DEF c, base
    <3>6. base \in Task /\ base.alive = c.alive /\ base.baseline = c.baseline /\ base.mem = m
      BY <1>5, <3>3, <3>5 DEF Task
    <3> QED BY <1>5, <3>3, <3>4, <3>6
  <2>2. CASE ~(found = fresh /\ Newest > 0 /\ Newest < c.mem.cursor)
    <3>1. base = c
      BY <2>2
    <3>2. \A e \in Event : Same(q.mem, base.mem, e)
      BY <1>5, <3>1 DEF Same
    <3> QED BY <1>4, <1>5, <3>1, <3>2
  <2> QED BY <2>1, <2>2
<1>12. todo \in Seq(Event) /\ Range(todo) = Retries(q.mem) \cup new
  <2>1. Retries(q.mem) \in SUBSET Event /\ new \in SUBSET Event
    BY <1>4, <1>8 DEF Retries, FactsOK
  <2>2. /\ InOrder(Retries(q.mem)) \in Seq(Event) /\ Range(InOrder(Retries(q.mem))) = Retries(q.mem)
        /\ InOrder(new) \in Seq(Event) /\ Range(InOrder(new)) = new
    BY <2>1, InOrderIs
  <2>3. todo = InOrder(Retries(q.mem)) \o InOrder(new)
    BY <1>5
  <2> HIDE DEF todo, new
  <2> QED BY <2>2, <2>3, JoinIs
<1>13. /\ r \in Task /\ r.alive = base.alive /\ r.mem = base.mem /\ r.at = "announce"
       /\ r.then = "announce" /\ r.todo = todo /\ r.newest = n /\ r.seen = seen
       /\ r.baseline = base.baseline
  <2>1. seen \in [Event -> [status : Statuses \cup {"unknown"}, rev : Nat]]
    BY DEF Statuses
  <2>2. n \in {0} \cup Event
    BY <1>4, <1>8 DEF FactsOK
  <2> HIDE DEF base, todo, n, seen
  <2> QED BY <1>10, <1>12, <2>1, <2>2 DEF Task
<1>11. \A e \in Event : seen[e].status \in {"scheduled", "unknown"}
  OBVIOUS
<1> HIDE DEF r, base, n, seen, todo, new, fresh, clamped, lower
<1>14. PollerOK(r, Facts)
  BY <1>4, <1>8, <1>9, <1>10, <1>11, <1>12, <1>13, ListMoves
<1>15. \/ file' = r.mem
       \/ file' = file /\ r.mem = poller[p].mem /\ poller[p].at # "deliver"
  BY <1>2, <1>3, <1>5, <1>13
<1>16. r.alive
  BY <1>2, <1>10, <1>13
<1> QED BY <1>2, <1>3, <1>7, <1>14, <1>15, <1>16, QuietKeeps

LEMMA ListFailsKeeps ==
  ASSUME IInv, NEW p \in Poller, ListFails(p) PROVE IInv'
<1> DEFINE q == poller[p]
           c == Cycle(p)
           r == [c EXCEPT !.at = "revisions"]
<1>1. /\ q.alive /\ q.at = "idle" /\ Is(p, r) /\ Spend("faults")
      /\ UNCHANGED <<post, file, history, World>>
  BY DEF ListFails, Begins
<1>2. WorldOK /\ FactsOK(Facts) /\ PollerOK(q, Facts) /\ q \in Task
  BY <1>1, AliveIs
<1>3. /\ c \in Task /\ c.alive = q.alive /\ c.mem = q.mem /\ c.todo = q.todo /\ c.seen = q.seen
      /\ c.baseline = q.baseline /\ c.newest = q.newest
  BY <1>2, CycleIs
<1> HIDE DEF c
<1>4. /\ r \in Task /\ r.alive = q.alive /\ r.mem = q.mem /\ r.todo = q.todo /\ r.seen = q.seen
      /\ r.baseline = q.baseline /\ r.newest = q.newest /\ r.at = "revisions"
  BY <1>3 DEF Task
<1> HIDE DEF r
<1>5. PollerOK(r, Facts)
  <2>1. MemOK(r.mem, Facts) /\ Range(r.todo) \subseteq Facts.present
        /\ \A e \in Event : Loose(r.mem, e, Facts)
    BY <1>2, <1>4 DEF PollerOK, TaskOK
  <2> QED BY <1>2, <1>4, <2>1, CalmIsOK DEF Calm
<1>6. left' \in [Counter -> Nat]
  BY <1>1, <1>2, SpendIs DEF Counter
<1>7. r.alive /\ r.mem = poller[p].mem /\ poller[p].at # "deliver"
  BY <1>1, <1>4
<1> QED BY <1>1, <1>5, <1>6, <1>7, QuietKeeps

LEMMA BatchGoesOn ==
  ASSUME NEW w, FactsOK(w), NEW q, PollerOK(q, w), q.at = "announce", q.todo # << >>,
         NEW r \in Task, r.at = "announce", r.then = q.then, r.newest = q.newest,
         r.seen = q.seen, r.baseline = q.baseline, r.todo = Tail(q.todo),
         MemOK(r.mem, w), Beside(q.mem, r.mem, Head(q.todo)),
         r.mem.thread[Head(q.todo)] = q.mem.thread[Head(q.todo)],
         r.mem.parent[Head(q.todo)] = q.mem.parent[Head(q.todo)],
         Head(q.todo) \in w.owed => Told(r.mem, Head(q.todo))
  PROVE  PollerOK(r, w)
<1> DEFINE e == Head(q.todo)
<1>1. /\ q \in Task /\ q.todo \in Seq(Event) /\ Range(q.todo) \subseteq w.present
      /\ w.present \subseteq Event /\ w.owed \subseteq Event
  BY FieldsOfTask DEF PollerOK, TaskOK, FactsOK
<1>2. /\ e \in Range(q.todo) /\ Range(r.todo) \subseteq Range(q.todo)
      /\ Range(q.todo) \subseteq Range(r.todo) \cup {e}
  BY <1>1, TailIs
<1> HIDE DEF e
<1>3. \A d \in Event : d # e => Same(q.mem, r.mem, d)
  BY DEF Beside, e
<1>4. \A d \in Event : d # e => /\ Tight(q.mem, d, w) <=> Tight(r.mem, d, w)
                                /\ Loose(q.mem, d, w) <=> Loose(r.mem, d, w)
                                /\ Told(q.mem, d) <=> Told(r.mem, d)
  BY <1>3, SameCover
<1>5. Tight(r.mem, e, w)
  <2>1. Tight(q.mem, e, w)
    BY <1>2 DEF PollerOK, BatchOK, Announcing
  <2> QED BY <2>1 DEF Tight, Kept, e
<1>6. TaskOK(r, w)
  BY <1>1, <1>2 DEF PollerOK, TaskOK
<1>7. SeenOK(r, w) /\ DeliverOK(r, w) /\ CloseOK(r)
  BY DEF PollerOK, SeenOK, DeliverOK, CloseOK
<1>8. BatchOK(r, w)
  <2>1. /\ q.then = "announce"
        /\ \A d \in w.owed : d <= q.newest => Told(q.mem, d) \/ d \in Range(q.todo)
        /\ \A d \in Range(q.todo) : Tight(q.mem, d, w)
    BY DEF PollerOK, BatchOK, Announcing
  <2>2. e \in w.owed => Told(r.mem, e)
    BY DEF e
  <2>3. \A d \in w.owed : d <= r.newest => Told(r.mem, d) \/ d \in Range(r.todo)
    BY <1>1, <1>2, <1>4, <2>1, <2>2
  <2>4. \A d \in Range(r.todo) : Tight(r.mem, d, w)
    BY <1>1, <1>2, <1>4, <1>5, <2>1
  <2> QED BY <2>1, <2>3, <2>4 DEF BatchOK
<1>9. \A d \in Event : Loose(r.mem, d, w)
  BY <1>4, <1>5 DEF PollerOK, Loose
<1> QED BY <1>6, <1>7, <1>8, <1>9 DEF PollerOK

LEMMA SameIsBeside ==
  ASSUME NEW m \in Memory, NEW e PROVE Beside(m, m, e) /\ Same(m, m, e)
  BY DEF Beside, Same

LEMMA NotAnnounced ==
  ASSUME NEW w, NEW m, MemOK(m, w), NEW e \in Event, ~Announced(m, e)
  PROVE  ~m.card[e]
  BY DEF MemOK, Announced

\* The delivery of an event that has no card, of a batch or of a restored one.
LEMMA DeliveryBegins ==
  ASSUME NEW w, FactsOK(w), NEW q, PollerOK(q, w), q.todo # << >>,
         q.at = "announce" \/ q.at = "restored",
         NEW r \in Task, r.at = "deliver", r.then = q.at, r.newest = q.newest,
         r.seen = q.seen, r.baseline = q.baseline, r.todo = Tail(q.todo), r.mem = q.mem,
         r.event = Head(q.todo), ~q.mem.card[Head(q.todo)], Tight(q.mem, Head(q.todo), w)
  PROVE  PollerOK(r, w)
<1> DEFINE e == Head(q.todo)
<1>1. /\ q \in Task /\ q.todo \in Seq(Event) /\ Range(q.todo) \subseteq w.present
      /\ w.present \subseteq Event /\ w.owed \subseteq Event
  BY FieldsOfTask DEF PollerOK, TaskOK, FactsOK
<1>2. /\ e \in Range(q.todo) /\ Range(r.todo) \subseteq Range(q.todo)
      /\ Range(q.todo) \subseteq Range(r.todo) \cup {e}
  BY <1>1, TailIs
<1>3. r.event = e /\ ~q.mem.card[e] /\ Tight(q.mem, e, w)
  OBVIOUS
<1> HIDE DEF e
<1>4. TaskOK(r, w)
  BY <1>1, <1>2 DEF PollerOK, TaskOK
<1>5. SeenOK(r, w) /\ CloseOK(r)
  BY DEF PollerOK, SeenOK, CloseOK
<1>6. DeliverOK(r, w)
  BY <1>1, <1>2, <1>3 DEF DeliverOK
<1>7. BatchOK(r, w)
  <2> SUFFICES ASSUME Announcing(r) PROVE BatchOK(r, w)
    BY DEF BatchOK
  <2>1. q.at = "announce" /\ r.then = "announce"
    BY DEF Announcing
  <2>2. /\ \A d \in w.owed : d <= q.newest => Told(q.mem, d) \/ d \in Range(q.todo)
        /\ \A d \in Range(q.todo) : Tight(q.mem, d, w)
    BY <2>1 DEF PollerOK, BatchOK, Announcing
  <2>3. \A d \in w.owed : d <= r.newest => Told(r.mem, d) \/ d \in Range(r.todo) \/ d = r.event
    BY <1>2, <1>3, <2>2
  <2>4. \A d \in Range(r.todo) : Tight(r.mem, d, w)
    BY <1>2, <2>2
  <2> QED BY <2>1, <2>3, <2>4 DEF BatchOK
<1>8. \A d \in Event : Loose(r.mem, d, w)
  BY DEF PollerOK
<1> QED BY <1>4, <1>5, <1>6, <1>7, <1>8 DEF PollerOK

\* An announcement that waits.
LEMMA MemoryPends ==
  ASSUME NEW w, FactsOK(w), NEW m, MemOK(m, w), NEW e \in w.present, NEW x \in Pendings \ {"none"}
  PROVE  LET r == [m EXCEPT !.pending[e] = x]
         IN  /\ MemOK(r, w) /\ Beside(m, r, e) /\ Told(r, e)
             /\ r.thread[e] = m.thread[e] /\ r.parent[e] = m.parent[e] /\ r.card[e] = m.card[e]
<1> DEFINE r == [m EXCEPT !.pending[e] = x]
<1>1. m \in Memory /\ e \in Event /\ x \in Pendings
  BY DEF MemOK, FactsOK
<1>2. /\ Beside(m, r, e) /\ r.thread[e] = m.thread[e] /\ r.parent[e] = m.parent[e]
      /\ r.card[e] = m.card[e] /\ r.pending[e] = x
  BY <1>1, PendingChanged
<1> HIDE DEF r
<1>3. Told(r, e)
  BY <1>2 DEF Told
<1>4. /\ m.thread[e] <= w.posts[e] /\ m.parent[e] <= w.posts[e]
      /\ m.parent[e] # 0 => e \in w.pings
      /\ m.card[e] => m.thread[e] # 0
  BY <1>1 DEF MemOK
<1>5. MemOK(r, w)
  BY <1>1, <1>2, <1>3, <1>4, MemoryBeside
<1> QED BY <1>2, <1>3, <1>5 DEF r

LEMMA MemoryDrops ==
  ASSUME NEW w, FactsOK(w), NEW m, MemOK(m, w), NEW e \in w.present,
         e \notin w.owed \/ Announced(m, e)
  PROVE  LET r == [m EXCEPT !.pending[e] = "none"]
         IN  /\ MemOK(r, w) /\ Beside(m, r, e) /\ (e \in w.owed => Told(r, e))
             /\ r.thread[e] = m.thread[e] /\ r.parent[e] = m.parent[e]
<1> DEFINE x == "none"
<1>0. x = "none" /\ x \in Pendings
  BY DEF Pendings
<1> HIDE DEF x
<1> DEFINE r == [m EXCEPT !.pending[e] = x]
<1>1. m \in Memory /\ e \in Event
  BY DEF MemOK, FactsOK
<1>2. /\ Beside(m, r, e) /\ r.thread[e] = m.thread[e] /\ r.parent[e] = m.parent[e]
      /\ r.card[e] = m.card[e] /\ r.pending[e] = x
  BY <1>0, <1>1, PendingChanged
<1> HIDE DEF r
<1>3. e \in w.owed => Told(r, e)
  BY <1>2 DEF Told, Announced
<1>4. /\ m.thread[e] <= w.posts[e] /\ m.parent[e] <= w.posts[e]
      /\ m.parent[e] # 0 => e \in w.pings
      /\ m.card[e] => m.thread[e] # 0
  BY <1>1 DEF MemOK
<1>5. MemOK(r, w)
  BY <1>1, <1>2, <1>3, <1>4, MemoryBeside
<1> QED BY <1>0, <1>2, <1>3, <1>5 DEF r, x

LEMMA TakeKeeps ==
  ASSUME IInv, NEW p \in Poller, Take(p) PROVE IInv'
<1> DEFINE q == poller[p]
           e == Head(q.todo)
           t == Tail(q.todo)
           rest == [q EXCEPT !.todo = t]
           current == q.seen[e].status = "scheduled" \/ status[e] = "scheduled"
           dropped == [rest EXCEPT !.mem.pending[e] = "none"]
           next == IF current /\ ~Announced(q.mem, e) THEN Attempt(rest, e)
                   ELSE IF e \in Retries(q.mem) THEN dropped ELSE rest
<1>1. /\ q.alive /\ q.at = "announce" /\ q.todo # << >> /\ Is(p, next)
      /\ file' = (IF next.mem # q.mem THEN next.mem ELSE file)
      /\ UNCHANGED World /\ Quiet
  BY DEF Take, Save
<1>2. /\ WorldOK /\ FactsOK(Facts) /\ PollerOK(q, Facts) /\ q \in Task /\ MemOK(q.mem, Facts)
      /\ q.mem \in Memory
  BY <1>1, AliveIs
<1>3. /\ t \in Seq(Event) /\ e \in Range(q.todo) /\ e \in Facts.present /\ e \in Event
      /\ Tight(q.mem, e, Facts)
  <2>1. q.todo \in Seq(Event) /\ Range(q.todo) \subseteq Facts.present
    BY <1>2, FieldsOfTask DEF PollerOK, TaskOK
  <2>2. t \in Seq(Event) /\ e \in Range(q.todo)
    BY <1>1, <2>1, TailIs
  <2>3. Tight(q.mem, e, Facts)
    BY <1>1, <1>2, <2>2 DEF PollerOK, BatchOK, Announcing
  <2> QED BY <1>2, <2>1, <2>2, <2>3 DEF FactsOK
<1>4. ~current => e \notin Facts.owed
  BY DEF Facts
<1> HIDE DEF current
<1>5. /\ rest \in Task /\ rest.alive = q.alive /\ rest.mem = q.mem /\ rest.at = q.at
      /\ rest.then = q.then /\ rest.newest = q.newest /\ rest.seen = q.seen
      /\ rest.baseline = q.baseline /\ rest.todo = t
  BY <1>2, <1>3 DEF Task
<1> HIDE DEF rest
<1>6. ASSUME NEW r \in Task, r.alive = q.alive, r.at = "announce", r.then = q.then, r.newest = q.newest,
             r.seen = q.seen, r.baseline = q.baseline, r.todo = t,
             MemOK(r.mem, Facts), Beside(q.mem, r.mem, e),
             r.mem.thread[e] = q.mem.thread[e], r.mem.parent[e] = q.mem.parent[e],
             e \in Facts.owed => Told(r.mem, e)
      PROVE  PollerOK(r, Facts) /\ r.alive
  BY <1>1, <1>2, <1>6, BatchGoesOn
<1>7. ASSUME e \in Facts.owed => Told(q.mem, e) PROVE PollerOK(rest, Facts) /\ rest.alive
  BY <1>1, <1>2, <1>5, <1>6, <1>7, SameIsBeside
<1>8. PollerOK(next, Facts) /\ next.alive
  <2>1. CASE current /\ ~Announced(q.mem, e)
    <3>1. next = Attempt(rest, e)
      BY <2>1
    <3>2. CASE q.mem.pending[e] = "ambiguous"
      <4>1. next = rest
        BY <1>5, <3>1, <3>2 DEF Attempt
      <4>2. Told(q.mem, e)
        BY <3>2 DEF Told
      <4> QED BY <1>7, <4>1, <4>2
    <3>3. CASE q.mem.pending[e] # "ambiguous" /\ kind[e] = "young_flash"
      <4> DEFINE x == "undo_window"
      <4>0. x \in Pendings \ {"none"}
        BY DEF Pendings
      <4>1. next = [rest EXCEPT !.mem.pending[e] = x]
        BY <1>5, <3>1, <3>3 DEF Attempt
      <4> HIDE DEF x
      <4> DEFINE m == [q.mem EXCEPT !.pending[e] = x]
      <4>2. /\ MemOK(m, Facts) /\ Beside(q.mem, m, e) /\ Told(m, e)
            /\ m.thread[e] = q.mem.thread[e] /\ m.parent[e] = q.mem.parent[e]
        BY <1>2, <1>3, <4>0, MemoryPends
      <4>3. next = [rest EXCEPT !.mem = m]
        BY <1>2, <1>5, <4>1 DEF Task
      <4>4. m \in Memory
        BY <4>2 DEF MemOK
      <4> HIDE DEF m, next, e, t
      <4> DEFINE r == [rest EXCEPT !.mem = m]
      <4>5. /\ r \in Task /\ r.alive = q.alive /\ r.at = "announce" /\ r.then = q.then
            /\ r.newest = q.newest /\ r.seen = q.seen /\ r.baseline = q.baseline /\ r.todo = t
            /\ r.mem = m
        BY <1>1, <1>5, <4>4 DEF Task
      <4> HIDE DEF r
      <4>6. PollerOK(r, Facts) /\ r.alive
        BY <1>6, <4>2, <4>5
      <4> QED BY <4>3, <4>6 DEF r
    <3>4. CASE q.mem.pending[e] # "ambiguous" /\ kind[e] # "young_flash"
      <4> DEFINE r == [rest EXCEPT !.at = "deliver", !.event = e, !.detail = rev[e]]
      <4>1. next = r
        BY <1>5, <3>1, <3>4 DEF Attempt
      <4>2. rev[e] \in Nat
        BY <1>2, <1>3 DEF WorldOK
      <4> HIDE DEF next
      <4>3. ~q.mem.card[e]
        BY <1>2, <1>3, <2>1, NotAnnounced
      <4>4. q.then = "announce"
        BY <1>1, <1>2 DEF PollerOK, BatchOK, Announcing
      <4>5. /\ r \in Task /\ r.alive = q.alive /\ r.at = "deliver" /\ r.then = q.then
            /\ r.newest = q.newest /\ r.seen = q.seen /\ r.baseline = q.baseline /\ r.todo = t
            /\ r.mem = q.mem /\ r.event = e
        BY <1>3, <1>5, <4>2 DEF Task
      <4> HIDE DEF r
      <4>6. PollerOK(r, Facts)
        BY <1>1, <1>2, <1>3, <4>3, <4>4, <4>5, DeliveryBegins
      <4> QED BY <1>1, <4>1, <4>5, <4>6
    <3> QED BY <3>2, <3>3, <3>4
  <2>2. CASE ~(current /\ ~Announced(q.mem, e)) /\ e \in Retries(q.mem)
    <3>1. next = dropped
      BY <2>2
    <3>2. e \notin Facts.owed \/ Announced(q.mem, e)
      BY <1>4, <2>2
    <3> DEFINE m == [q.mem EXCEPT !.pending[e] = "none"]
    <3>3. /\ MemOK(m, Facts) /\ Beside(q.mem, m, e) /\ (e \in Facts.owed => Told(m, e))
          /\ m.thread[e] = q.mem.thread[e] /\ m.parent[e] = q.mem.parent[e]
      BY <1>2, <1>3, <3>2, MemoryDrops
    <3>4. dropped = [rest EXCEPT !.mem = m]
      BY <1>2, <1>5 DEF Task
    <3>5. m \in Memory
      BY <3>3 DEF MemOK
    <3> HIDE DEF m, next, dropped, e, t
    <3> DEFINE r == [rest EXCEPT !.mem = m]
    <3>6. /\ r \in Task /\ r.alive = q.alive /\ r.at = "announce" /\ r.then = q.then
          /\ r.newest = q.newest /\ r.seen = q.seen /\ r.baseline = q.baseline /\ r.todo = t
          /\ r.mem = m
      BY <1>1, <1>5, <3>5 DEF Task
    <3> HIDE DEF r
    <3>7. PollerOK(r, Facts) /\ r.alive
      BY <1>6, <3>3, <3>6
    <3> QED BY <3>1, <3>4, <3>7 DEF r
  <2>3. CASE ~(current /\ ~Announced(q.mem, e)) /\ e \notin Retries(q.mem)
    <3>1. next = rest
      BY <2>3
    <3>2. e \in Facts.owed => Told(q.mem, e)
      BY <1>4, <2>3 DEF Told
    <3> QED BY <1>7, <3>1, <3>2
  <2> QED BY <2>1, <2>2, <2>3
<1> HIDE DEF next
<1>9. left' \in [Counter -> Nat] /\ UNCHANGED <<post, history>>
  BY <1>1, <1>2, LeftStays DEF Quiet
<1>10. \/ file' = next.mem
       \/ file' = file /\ next.mem = poller[p].mem /\ poller[p].at # "deliver"
  BY <1>1
<1> QED BY <1>1, <1>8, <1>9, <1>10, QuietKeeps

LEMMA LookupFailsKeeps ==
  ASSUME IInv, NEW p \in Poller, LookupFails(p) PROVE IInv'
<1> DEFINE q == poller[p]
           e == Head(q.todo)
           t == Tail(q.todo)
           r == [q EXCEPT !.todo = t]
<1>1. /\ q.alive /\ q.at = "announce" /\ q.todo # << >> /\ Is(p, r) /\ e \in Retries(q.mem)
      /\ Spend("faults") /\ UNCHANGED <<post, file, history, World>>
  BY DEF LookupFails
<1>2. WorldOK /\ FactsOK(Facts) /\ PollerOK(q, Facts) /\ q \in Task /\ MemOK(q.mem, Facts)
      /\ q.mem \in Memory
  BY <1>1, AliveIs
<1>3. t \in Seq(Event)
  <2>1. q.todo \in Seq(Event)
    BY <1>2, FieldsOfTask
  <2> QED BY <1>1, <2>1, TailIs
<1>4. /\ r \in Task /\ r.alive = q.alive /\ r.mem = q.mem /\ r.at = q.at
      /\ r.then = q.then /\ r.newest = q.newest /\ r.seen = q.seen
      /\ r.baseline = q.baseline /\ r.todo = t
  BY <1>2, <1>3 DEF Task
<1> HIDE DEF r
<1>5. Told(q.mem, e)
  BY <1>1 DEF Told, Retries
<1>6. PollerOK(r, Facts)
  BY <1>1, <1>2, <1>4, <1>5, BatchGoesOn, SameIsBeside
<1>7. left' \in [Counter -> Nat]
  BY <1>1, <1>2, SpendIs DEF Counter
<1>8. r.alive /\ r.mem = poller[p].mem /\ poller[p].at # "deliver"
  BY <1>1, <1>4
<1> QED BY <1>1, <1>6, <1>7, <1>8, QuietKeeps

LEMMA AdvanceKeeps ==
  ASSUME IInv, NEW p \in Poller, Advance(p) PROVE IInv'
<1> DEFINE q == poller[p]
           c == Max({q.mem.cursor, q.newest})
           m == [q.mem EXCEPT !.cursor = c]
           r == [q EXCEPT !.at = "revisions", !.newest = 0, !.seen = Unseen, !.mem = m]
<1>1. /\ q.alive /\ q.at = "announce" /\ q.todo = << >> /\ Is(p, r)
      /\ file' = (IF r.mem # q.mem THEN r.mem ELSE file) /\ UNCHANGED World /\ Quiet
  BY DEF Advance, Save
<1>2. /\ WorldOK /\ FactsOK(Facts) /\ PollerOK(q, Facts) /\ q \in Task /\ MemOK(q.mem, Facts)
      /\ q.mem \in Memory
  BY <1>1, AliveIs
<1>3. c \in {0} \cup Facts.present /\ \A e \in Event : e <= c /\ e \in Facts.owed => Told(q.mem, e)
  <2>1. q.newest \in {0} \cup Facts.present /\ Range(q.todo) = {}
    BY <1>1, <1>2, EmptyIs DEF PollerOK, TaskOK
  <2>2. \A e \in Facts.owed : e <= q.newest => Told(q.mem, e)
    BY <1>1, <1>2, <2>1 DEF PollerOK, BatchOK, Announcing
  <2> QED BY <1>2, <2>1, <2>2, CursorRaised
<1> HIDE DEF c
<1>4. m \in Memory /\ m.cursor = c /\ m.removed = q.mem.removed /\ \A e \in Event : Same(q.mem, m, e)
  <2>1. c \in {0} \cup Event
    BY <1>2, <1>3 DEF FactsOK
  <2> QED BY <1>2, <2>1, CursorChanged
<1> HIDE DEF m
<1>5. MemOK(m, Facts)
  <2>1. q.mem.removed \subseteq Facts.left
    BY <1>2 DEF MemOK
  <2> QED BY <1>2, <1>3, <1>4, <2>1, MemoryAside
<1>6. /\ r \in Task /\ r.alive = q.alive /\ r.mem = m /\ r.at = "revisions" /\ r.todo = q.todo
      /\ r.newest = 0 /\ r.seen = Unseen /\ r.baseline = q.baseline
  <2>1. Unseen \in [Event -> [status : Statuses \cup {"unknown"}, rev : Nat]]
    BY DEF Unseen
  <2> HIDE DEF Unseen
  <2> QED BY <1>2, <1>4, <2>1 DEF Task
<1> HIDE DEF r
<1>7. PollerOK(r, Facts)
  <2>1. \A e \in Event : Loose(m, e, Facts)
    BY <1>2, <1>4, SameCover DEF PollerOK
  <2>2. Range(r.todo) \subseteq Facts.present
    BY <1>2, <1>6 DEF PollerOK, TaskOK
  <2> QED BY <1>2, <1>5, <1>6, <2>1, <2>2, CalmIsOK DEF Calm
<1>8. left' \in [Counter -> Nat] /\ UNCHANGED <<post, history>> /\ r.alive
  BY <1>1, <1>2, <1>6, LeftStays DEF Quiet
<1>9. \/ file' = r.mem
      \/ file' = file /\ r.mem = poller[p].mem /\ poller[p].at # "deliver"
  BY <1>1
<1> QED BY <1>1, <1>7, <1>8, <1>9, QuietKeeps

----------------------------------------------------------------------------
(* Discord: an announcement more, or another state of one.                 *)

LEMMA PostsAre ==
  ASSUME WorldOK, NEW e \in Event
  PROVE  /\ post[e] \in Seq(PostState) /\ Len(post[e]) \in Nat /\ DOMAIN post[e] = 1..Len(post[e])
         /\ DOMAIN post = Event /\ \A i \in DOMAIN post[e] : post[e][i] \in PostState
<1>1. post \in [Event -> Seq(PostState)]
  BY DEF WorldOK
<1>2. post[e] \in Seq(PostState)
  BY <1>1
<1> QED BY <1>1, <1>2

LEMMA PostedIs ==
  ASSUME WorldOK, NEW e \in Event, NEW thread \in {"none", "open"}, Posted(e, thread)
  PROVE  /\ post' \in [Event -> Seq(PostState)]
         /\ \A d \in Event : Len(post[d]) <= Len(post'[d])
         /\ Facts'.posts[e] = Facts.posts[e] + 1
         /\ Facts'.standing[e] = Facts.standing[e] \cup {Len(post[e]) + 1}
         /\ \A d \in Event : d # e => Facts'.standing[d] = Facts.standing[d]
<1> DEFINE row == [thread |-> thread, cards |-> 0, shows |-> 0]
           more == Append(post[e], row)
<1>1. row \in PostState /\ row.thread # "deleted"
  BY DEF PostState
<1>2. /\ post[e] \in Seq(PostState) /\ Len(post[e]) \in Nat /\ DOMAIN post[e] = 1..Len(post[e])
  BY PostsAre
<1>3. /\ more \in Seq(PostState) /\ Len(more) = Len(post[e]) + 1
      /\ DOMAIN more = 1..(Len(post[e]) + 1) /\ more[Len(post[e]) + 1] = row
      /\ \A i \in 1..Len(post[e]) : more[i] = post[e][i]
  <2> HIDE DEF row
  <2> QED BY <1>1, <1>2
<1>4. post' = [post EXCEPT ![e] = more] /\ post \in [Event -> Seq(PostState)]
  BY DEF Posted, WorldOK
<1> HIDE DEF row, more
<1>5. /\ post' \in [Event -> Seq(PostState)] /\ post'[e] = more
      /\ \A d \in Event : d # e => post'[d] = post[d]
  BY <1>3, <1>4
<1>6. \A d \in Event : Len(post[d]) <= Len(post'[d])
  <2> TAKE d \in Event
  <2>1. CASE d = e
    BY <1>2, <1>3, <1>5, <2>1
  <2>2. CASE d # e
    <3>1. Len(post[d]) \in Nat /\ post'[d] = post[d]
      BY <1>5, <2>2, PostsAre
    <3> QED BY <3>1
  <2> QED BY <2>1, <2>2
<1>7. Facts'.posts[e] = Facts.posts[e] + 1
  BY <1>3, <1>5 DEF Facts
<1>8. {i \in DOMAIN more : more[i].thread # "deleted"}
        = {i \in DOMAIN post[e] : post[e][i].thread # "deleted"} \cup {Len(post[e]) + 1}
  BY <1>1, <1>2, <1>3
<1>9. Facts'.standing[e] = Facts.standing[e] \cup {Len(post[e]) + 1}
  BY <1>5, <1>8 DEF Facts, Standing
<1>10. \A d \in Event : d # e => Facts'.standing[d] = Facts.standing[d]
  BY <1>5 DEF Facts, Standing
<1> QED BY <1>5, <1>6, <1>7, <1>9, <1>10

LEMMA PostChanged ==
  ASSUME WorldOK, NEW e \in Event, NEW i, NEW row,
         post' = [post EXCEPT ![e][i] = row],
         i \in DOMAIN post[e] => row \in PostState /\ (row.thread # "deleted" => i \in Standing(e))
  PROVE  /\ post' \in [Event -> Seq(PostState)]
         /\ \A d \in Event : Len(post[d]) <= Len(post'[d])
         /\ \A d \in Event : Facts'.standing[d] \subseteq Facts.standing[d]
<1> DEFINE other == [post[e] EXCEPT ![i] = row]
<1>1. /\ post[e] \in Seq(PostState) /\ Len(post[e]) \in Nat /\ DOMAIN post[e] = 1..Len(post[e])
      /\ \A j \in DOMAIN post[e] : post[e][j] \in PostState
  BY PostsAre
<1>2. /\ DOMAIN other = DOMAIN post[e]
      /\ \A j \in DOMAIN post[e] : other[j] = IF j = i THEN row ELSE post[e][j]
  OBVIOUS
<1>3. other \in [1..Len(post[e]) -> PostState]
  BY <1>1, <1>2
<1>4. other \in Seq(PostState) /\ Len(other) = Len(post[e])
  BY <1>1, <1>2, <1>3
<1>5. post' = [post EXCEPT ![e] = other] /\ post \in [Event -> Seq(PostState)]
  BY DEF WorldOK
<1> HIDE DEF other
<1>6. /\ post' \in [Event -> Seq(PostState)] /\ post'[e] = other
      /\ \A d \in Event : d # e => post'[d] = post[d]
  BY <1>4, <1>5
<1>7. \A d \in Event : Len(post[d]) <= Len(post'[d])
  <2> TAKE d \in Event
  <2>1. CASE d = e
    BY <1>1, <1>4, <1>6, <2>1
  <2>2. CASE d # e
    <3>1. Len(post[d]) \in Nat /\ post'[d] = post[d]
      BY <1>6, <2>2, PostsAre
    <3> QED BY <3>1
  <2> QED BY <2>1, <2>2
<1>8. {j \in DOMAIN other : other[j].thread # "deleted"} \subseteq Standing(e)
  BY <1>2 DEF Standing
<1>9. \A d \in Event : Facts'.standing[d] \subseteq Facts.standing[d]
  <2> TAKE d \in Event
  <2>1. CASE d = e
    BY <1>6, <1>8, <2>1 DEF Facts, Standing
  <2>2. CASE d # e
    BY <1>6, <2>2 DEF Facts, Standing
  <2> QED BY <2>1, <2>2
<1> QED BY <1>6, <1>7, <1>9

LEMMA GoneFalls ==
  ASSUME NEW e \in Event, NEW i, Gone(e, i) PROVE i \notin Facts.standing[e]
  BY DEF Facts, Standing, Gone

\* A poller is alone, or every event is excused.
LEMMA Alone ==
  ASSUME IInv, NEW p \in Poller, poller[p].alive
  PROVE  \/ \A e \in Event : e \in Facts.excused
         \/ ~Overlapped /\ \A o \in Poller : poller[o].alive => o = p
<1>1. CASE Overlapped
  BY <1>1, OverlapExcuses DEF IInv
<1>2. CASE ~Overlapped
  BY <1>2 DEF IInv, ManagerOK
<1> QED BY <1>1, <1>2

----------------------------------------------------------------------------
(* announceEvent.                                                          *)

LEMMA DeliveringIs ==
  ASSUME IInv, NEW p \in Poller, Delivering(p)
  PROVE  /\ poller[p].alive /\ poller[p].at = "deliver"
         /\ poller[p].event \in Facts.present /\ poller[p].event \in Event
         /\ ~poller[p].mem.card[poller[p].event]
         /\ Tight(poller[p].mem, poller[p].event, Facts)
<1>1. poller[p].alive /\ poller[p].at = "deliver"
  BY DEF Delivering
<1>2. PollerOK(poller[p], Facts) /\ FactsOK(Facts)
  BY <1>1, AliveIs
<1> QED BY <1>1, <1>2 DEF PollerOK, DeliverOK, FactsOK

LEMMA Resumes ==
  ASSUME NEW w, FactsOK(w), NEW q, PollerOK(q, w), q.at = "deliver", q.alive,
         NEW t \in Task, t.alive = q.alive, t.todo = q.todo, t.event = q.event, t.then = q.then,
         t.newest = q.newest, t.seen = q.seen, t.baseline = q.baseline,
         MemOK(t.mem, w), Beside(q.mem, t.mem, q.event),
         t.mem.thread[q.event] = q.mem.thread[q.event],
         t.mem.parent[q.event] = q.mem.parent[q.event],
         q.event \in w.owed => Told(t.mem, q.event)
  PROVE  PollerOK(Resume(t), w) /\ Resume(t).alive
<1> DEFINE e == q.event
           m == t.mem
           back == t.then = "restored" /\ Announced(m, e) /\ m.pending[e] # "ambiguous"
           R == IF back THEN m.removed \ {e} ELSE m.removed
           n == [m EXCEPT !.removed = R]
           r == [t EXCEPT !.at = t.then, !.event = 0, !.detail = 0, !.mem = n]
<1>1. Resume(t) = Settled(r)
  <2>1. t.event = e
    OBVIOUS
  <2> QED BY <2>1 DEF Resume, Task
<1>2. m \in Memory /\ m.removed \in SUBSET Event /\ m.removed \subseteq w.left
  BY FieldsOfMemory DEF MemOK
<1>3. R \in SUBSET Event /\ R \subseteq w.left
  BY <1>2
<1> HIDE DEF R
<1>4. n \in Memory /\ n.cursor = m.cursor /\ n.removed = R /\ \A d \in Event : Same(m, n, d)
  BY <1>2, <1>3, RemovedChanged
<1> HIDE DEF n
<1>5. MemOK(n, w)
  BY <1>2, <1>3, <1>4, MemoryAside DEF MemOK
<1>6. /\ r \in Task /\ r.alive = q.alive /\ r.mem = n /\ r.at = q.then /\ r.then = q.then
      /\ r.todo = q.todo /\ r.newest = q.newest /\ r.seen = q.seen /\ r.baseline = q.baseline
  BY <1>4, FieldsOfTask DEF Task
<1> HIDE DEF r
<1>7. /\ q \in Task /\ q.todo \in Seq(Event) /\ Range(q.todo) \subseteq w.present
      /\ w.present \subseteq Event /\ w.owed \subseteq Event
      /\ e \in Event /\ q.then \in {"announce", "restored"}
  BY FieldsOfTask DEF PollerOK, TaskOK, FactsOK, DeliverOK
<1>8. \A d \in Event : /\ Tight(q.mem, d, w) => Tight(n, d, w)
                       /\ Loose(q.mem, d, w) /\ d # e => Loose(n, d, w)
                       /\ Told(q.mem, d) /\ d # e => Told(n, d)
  <2> TAKE d \in Event
  <2>1. CASE d # e
    <3>1. Same(q.mem, m, d) /\ Same(m, n, d)
      BY <1>4, <2>1 DEF Beside
    <3> QED BY <3>1, SameCover
  <2>2. CASE d = e
    <3>1. Same(m, n, d)
      BY <1>4
    <3>2. n.thread[d] = q.mem.thread[d] /\ n.parent[d] = q.mem.parent[d]
      BY <2>2, <3>1 DEF Same
    <3>3. Tight(q.mem, d, w) => Tight(n, d, w)
      BY <3>2 DEF Tight, Kept
    <3> QED BY <2>2, <3>3
  <2> QED BY <2>1, <2>2
<1>9. Loose(n, e, w)
  <2>1. Tight(q.mem, e, w)
    BY DEF PollerOK, DeliverOK
  <2> QED BY <1>7, <1>8, <2>1 DEF Loose
<1>10. \A d \in Event : Loose(n, d, w)
  BY <1>8, <1>9 DEF PollerOK
<1>11. PollerOK(r, w)
  <2>1. CASE q.then = "restored"
    BY <1>5, <1>6, <1>7, <1>10, <2>1, CalmIsOK DEF Calm
  <2>2. CASE q.then = "announce"
    <3>1. TaskOK(r, w)
      BY <1>5, <1>6, <2>2 DEF PollerOK, TaskOK
    <3>2. SeenOK(r, w) /\ DeliverOK(r, w) /\ CloseOK(r)
      BY <1>6, <2>2 DEF PollerOK, SeenOK, DeliverOK, CloseOK
    <3>3. BatchOK(r, w)
      <4>1. /\ \A d \in w.owed : d <= q.newest => Told(q.mem, d) \/ d \in Range(q.todo) \/ d = e
            /\ \A d \in Range(q.todo) : Tight(q.mem, d, w)
        BY <2>2 DEF PollerOK, BatchOK, Announcing
      <4>2. e \in w.owed => Told(n, e)
        BY <1>4, <1>7, SameCover
      <4>3. \A d \in w.owed : d <= r.newest => Told(n, d) \/ d \in Range(r.todo)
        BY <1>6, <1>7, <1>8, <4>1, <4>2
      <4>4. \A d \in Range(r.todo) : Tight(n, d, w)
        BY <1>6, <1>7, <1>8, <4>1
      <4> QED BY <1>6, <2>2, <4>3, <4>4 DEF BatchOK
    <3> QED BY <1>6, <1>10, <3>1, <3>2, <3>3 DEF PollerOK
  <2> QED BY <1>7, <2>1, <2>2
<1>12. r.alive /\ r.at # "deliver"
  BY <1>6, <1>7
<1>13. Follows(r, Settled(r), w)
  BY <1>11, <1>12, Settles
<1> QED BY <1>1, <1>12, <1>13 DEF Follows

\* A delivery is given up: a call failed, or its answer was lost.
LEMMA Abandons ==
  ASSUME IInv, NEW p \in Poller, Delivering(p), NEW x \in Pendings \ {"none"},
         NEW r, r = Resume([poller[p] EXCEPT !.mem.pending[poller[p].event] = x]),
         Is(p, r), Save(r), UNCHANGED World, Notes, left' \in [Counter -> Nat],
         post' \in [Event -> Seq(PostState)], \A d \in Event : Len(post[d]) <= Len(post'[d]),
         \A d \in Event : \/ d \in Facts'.excused
                          \/ Facts'.standing[d] \subseteq Facts.standing[d]
  PROVE  IInv'
<1> DEFINE q == poller[p]
           e == q.event
           m == [q.mem EXCEPT !.pending[e] = x]
           t == [q EXCEPT !.mem.pending[e] = x]
<1>1. q.alive /\ q.at = "deliver"
  BY DEF Delivering
<1>2. WorldOK /\ FactsOK(Facts) /\ PollerOK(q, Facts) /\ q \in Task
  BY <1>1, AliveIs
<1>3. /\ UNCHANGED <<status, rev, kind, registered, delivery>>
      /\ WorldOK' /\ Grows(Facts, Facts') /\ (Overlapped' <=> Overlapped)
  BY <1>2, WorldKeeps DEF World
<1>4. FactsOK(Facts')
  BY <1>3, NextWorldGivesFacts
<1>5. PollerOK(q, Facts')
  BY <1>2, <1>3, <1>4, PollerGrows
<1>6. MemOK(q.mem, Facts') /\ q.mem \in Memory /\ e \in Facts'.present
  BY <1>1, <1>5, AliveIs DEF PollerOK, TaskOK, DeliverOK
<1>7. /\ MemOK(m, Facts') /\ Beside(q.mem, m, e) /\ Told(m, e)
      /\ m.thread[e] = q.mem.thread[e] /\ m.parent[e] = q.mem.parent[e]
  BY <1>4, <1>6, MemoryPends
<1>8. t = [q EXCEPT !.mem = m]
  BY <1>2 DEF Task
<1>9. m \in Memory
  BY <1>7 DEF MemOK
<1>10. r = Resume(t)
  OBVIOUS
<1> HIDE DEF m, t
<1>11. /\ t \in Task /\ t.alive = q.alive /\ t.todo = q.todo /\ t.event = q.event
       /\ t.then = q.then /\ t.newest = q.newest /\ t.seen = q.seen /\ t.baseline = q.baseline
       /\ t.mem = m
  BY <1>2, <1>8, <1>9 DEF Task
<1>12. PollerOK(Resume(t), Facts') /\ Resume(t).alive
  BY <1>1, <1>4, <1>5, <1>7, <1>11, Resumes
<1>13. Files(r)
  BY DEF Files, Save
<1> QED BY <1>1, <1>3, <1>10, <1>12, <1>13, PollersKeep

LEMMA DeliverFailsKeeps ==
  ASSUME IInv, NEW p \in Poller, DeliverFails(p) PROVE IInv'
<1> DEFINE x == "failed"
           r == Resume([poller[p] EXCEPT !.mem.pending[poller[p].event] = x])
<1>1. /\ Delivering(p) /\ Is(p, r) /\ Save(r) /\ UNCHANGED World /\ post' = post /\ Notes
      /\ Spend("faults") \/ left' = left
  BY DEF DeliverFails, Fail, Notes
<1>2. x \in Pendings \ {"none"}
  BY DEF Pendings
<1> HIDE DEF x
<1> HIDE DEF r
<1>3. WorldOK
  BY DEF IInv
<1>4. left' \in [Counter -> Nat]
  BY <1>1, <1>3, SpendIs, LeftStays DEF Counter
<1>5. post' \in [Event -> Seq(PostState)] /\ \A d \in Event : Len(post[d]) <= Len(post'[d])
  BY <1>1, <1>3, PostsStay
<1>6. \A d \in Event : Facts'.standing[d] \subseteq Facts.standing[d]
  BY <1>1 DEF Facts, Standing
<1> QED BY <1>1, <1>2, <1>4, <1>5, <1>6, Abandons DEF r

LEMMA ForumRefusesKeeps ==
  ASSUME IInv, NEW p \in Poller, ForumRefuses(p) PROVE IInv'
<1> DEFINE x == "ambiguous"
           r == Resume([poller[p] EXCEPT !.mem.pending[poller[p].event] = x])
<1>1. /\ Delivering(p) /\ Is(p, r) /\ Save(r) /\ UNCHANGED World /\ post' = post /\ Notes
      /\ Spend("faults")
  BY DEF ForumRefuses, Unsure, Notes
<1>2. x \in Pendings \ {"none"}
  BY DEF Pendings
<1> HIDE DEF x
<1> HIDE DEF r
<1>3. WorldOK
  BY DEF IInv
<1>4. left' \in [Counter -> Nat]
  BY <1>1, <1>3, SpendIs DEF Counter
<1>5. post' \in [Event -> Seq(PostState)] /\ \A d \in Event : Len(post[d]) <= Len(post'[d])
  BY <1>1, <1>3, PostsStay
<1>6. \A d \in Event : Facts'.standing[d] \subseteq Facts.standing[d]
  BY <1>1 DEF Facts, Standing
<1> QED BY <1>1, <1>2, <1>4, <1>5, <1>6, Abandons DEF r

LEMMA AnswerLostKeeps ==
  ASSUME IInv, NEW p \in Poller, AnswerLost(p) PROVE IInv'
<1> DEFINE e == poller[p].event
           thread == IF Mode(p) = "message" THEN "none" ELSE "open"
           x == IF Mode(p) = "forum" THEN "ambiguous" ELSE "failed"
           r == Resume([poller[p] EXCEPT !.mem.pending[e] = x])
<1>1. /\ Delivering(p) /\ UNCHANGED World /\ Spend("faults") /\ Posted(e, thread)
      /\ Remember({e}, "lost")
  BY DEF AnswerLost
<1>2. Is(p, r) /\ Save(r)
  BY DEF AnswerLost, Unsure, Fail
<1>3. x \in Pendings \ {"none"} /\ thread \in {"none", "open"}
  BY DEF Pendings
<1> HIDE DEF x, r, thread
<1>4. WorldOK /\ e \in Event
  BY <1>1, DeliveringIs DEF IInv
<1>5. left' \in [Counter -> Nat]
  BY <1>1, <1>4, SpendIs DEF Counter
<1>6. /\ post' \in [Event -> Seq(PostState)] /\ \A d \in Event : Len(post[d]) <= Len(post'[d])
      /\ \A d \in Event : d # e => Facts'.standing[d] = Facts.standing[d]
  BY <1>1, <1>3, <1>4, PostedIs
<1>7. Notes /\ e \in Facts'.excused
  BY <1>1, <1>4 DEF Notes, Remember, Facts
<1>8. \A d \in Event : d \in Facts'.excused \/ Facts'.standing[d] \subseteq Facts.standing[d]
  BY <1>6, <1>7
<1> QED BY <1>1, <1>2, <1>3, <1>5, <1>6, <1>7, <1>8, Abandons DEF r

\* The announcement that the delivery has reached.
LEMMA CardedIs ==
  ASSUME IInv, NEW p \in Poller, CardFits(p), Carded(p)
  PROVE  /\ post' \in [Event -> Seq(PostState)]
         /\ \A d \in Event : Len(post[d]) <= Len(post'[d])
         /\ \A d \in Event : Facts'.standing[d] \subseteq Facts.standing[d]
<1> DEFINE q == poller[p]
           e == q.event
           i == q.mem.thread[e]
           cards == IF Mode(p) = "forum" THEN 1 ELSE post[e][i].cards + 1
           row == [post[e][i] EXCEPT !.shows = q.detail, !.cards = cards]
<1>1. Delivering(p) /\ post[e][i].thread = "open" /\ post' = [post EXCEPT ![e][i] = row]
  BY DEF CardFits, Carded
<1>2. WorldOK /\ e \in Event /\ q \in Task
  BY <1>1, DeliveringIs, AliveIs
<1>3. q.detail \in Nat
  BY <1>2, FieldsOfTask
<1>4. ASSUME i \in DOMAIN post[e]
      PROVE  row \in PostState /\ (row.thread # "deleted" => i \in Standing(e))
  <2>1. post[e][i] \in PostState
    BY <1>2, <1>4, PostsAre
  <2>2. post[e][i].cards \in Nat
    BY <2>1 DEF PostState
  <2>3. cards \in Nat
    BY <2>2
  <2> HIDE DEF cards
  <2>4. row \in PostState
    BY <1>3, <2>1, <2>3 DEF PostState
  <2>5. i \in Standing(e)
    BY <1>1, <1>4 DEF Standing
  <2> QED BY <2>4, <2>5
<1> HIDE DEF row
<1> QED BY <1>1, <1>2, <1>4, PostChanged

LEMMA CardLostKeeps ==
  ASSUME IInv, NEW p \in Poller, CardLost(p) PROVE IInv'
<1> DEFINE x == "failed"
           r == Resume([poller[p] EXCEPT !.mem.pending[poller[p].event] = x])
<1>1. /\ CardFits(p) /\ Carded(p) /\ Is(p, r) /\ Save(r) /\ UNCHANGED World /\ Notes
      /\ Spend("faults")
  BY DEF CardLost, Fail, Notes
<1>2. x \in Pendings \ {"none"} /\ Delivering(p)
  BY <1>1 DEF Pendings, CardFits
<1> HIDE DEF x
<1> HIDE DEF r
<1>3. WorldOK
  BY DEF IInv
<1>4. left' \in [Counter -> Nat]
  BY <1>1, <1>3, SpendIs DEF Counter
<1>5. /\ post' \in [Event -> Seq(PostState)]
      /\ \A d \in Event : Len(post[d]) <= Len(post'[d])
      /\ \A d \in Event : Facts'.standing[d] \subseteq Facts.standing[d]
  BY <1>1, CardedIs
<1> QED BY <1>1, <1>2, <1>4, <1>5, Abandons DEF r

LEMMA SendCardKeeps ==
  ASSUME IInv, NEW p \in Poller, SendCard(p) PROVE IInv'
<1> DEFINE q == poller[p]
           e == q.event
           x == "none"
           b == TRUE
           n == q.detail
           t == [q EXCEPT !.mem.card[e] = b, !.mem.shown[e] = n, !.mem.pending[e] = x]
           r == Resume(t)
<1>1. /\ CardFits(p) /\ Carded(p) /\ Is(p, r) /\ Save(r) /\ UNCHANGED World /\ Notes
      /\ left' = left
  BY DEF SendCard, Notes
<1>2. x \in Pendings /\ b \in BOOLEAN /\ b = TRUE
  BY DEF Pendings
<1> HIDE DEF x, b, n
<1>a. PICK k : k = q.mem
  OBVIOUS
<1> DEFINE m == [k EXCEPT !.card[e] = b, !.shown[e] = n, !.pending[e] = x]
<1>3. t = [q EXCEPT !.mem = m]
  BY <1>a
<1> HIDE DEF t
<1>4. Delivering(p) /\ q.alive /\ q.at = "deliver" /\ e \in Event /\ e \in Facts.present
      /\ q.mem.thread[e] # 0
  BY <1>1, DeliveringIs DEF CardFits, NoThread
<1>5. WorldOK /\ FactsOK(Facts) /\ PollerOK(q, Facts) /\ q \in Task /\ q.mem \in Memory
  BY <1>4, AliveIs
<1>6. /\ post' \in [Event -> Seq(PostState)]
      /\ \A d \in Event : Len(post[d]) <= Len(post'[d])
      /\ \A d \in Event : Facts'.standing[d] \subseteq Facts.standing[d]
  BY <1>1, CardedIs
<1>7. /\ UNCHANGED <<status, rev, kind, registered, delivery>>
      /\ WorldOK' /\ Grows(Facts, Facts') /\ (Overlapped' <=> Overlapped)
      /\ Facts'.present = Facts.present
  BY <1>1, <1>5, <1>6, LeftStays, WorldKeeps DEF World
<1>8. FactsOK(Facts') /\ PollerOK(q, Facts')
  BY <1>5, <1>6, <1>7, NextWorldGivesFacts, PollerGrows
<1>9. n \in Nat
  BY <1>5, FieldsOfTask DEF n
<1>10. /\ Beside(q.mem, m, e) /\ m.thread[e] = q.mem.thread[e] /\ m.parent[e] = q.mem.parent[e]
       /\ m.card[e] = b /\ m.pending[e] = x
  <2>1. k \in Memory /\ e \in Event
    BY <1>4, <1>5, <1>a
  <2> HIDE DEF e, q
  <2> QED BY <1>2, <1>9, <1>a, <2>1 DEF Memory, Beside, Same, Pendings
<1> HIDE DEF m
<1>11. Told(m, e)
  BY <1>2, <1>4, <1>10 DEF Told, Announced
<1>12. MemOK(m, Facts')
  <2>1. MemOK(q.mem, Facts')
    BY <1>8 DEF PollerOK, TaskOK
  <2>2. /\ q.mem.thread[e] <= Facts'.posts[e] /\ q.mem.parent[e] <= Facts'.posts[e]
        /\ q.mem.parent[e] # 0 => e \in Facts'.pings
    BY <1>4, <2>1 DEF MemOK
  <2> QED BY <1>4, <1>7, <1>8, <1>10, <1>11, <2>1, <2>2, MemoryBeside
<1>13. /\ t \in Task /\ t.alive = q.alive /\ t.todo = q.todo /\ t.event = q.event
       /\ t.then = q.then /\ t.newest = q.newest /\ t.seen = q.seen /\ t.baseline = q.baseline
       /\ t.mem = m
  <2>1. m \in Memory
    BY <1>12 DEF MemOK
  <2> QED BY <1>3, <1>5, <2>1 DEF Task
<1>14. PollerOK(Resume(t), Facts') /\ Resume(t).alive
  BY <1>4, <1>8, <1>10, <1>11, <1>12, <1>13, Resumes
<1>15. Files(r)
  BY <1>1 DEF Files, Save
<1> QED BY <1>1, <1>4, <1>6, <1>7, <1>14, <1>15, PollersKeep

\* A delivery that goes on, with something new recorded in memory.
LEMMA DeliveryGoesOn ==
  ASSUME NEW v, NEW w, FactsOK(v), FactsOK(w), Grows(v, w), NEW q, PollerOK(q, v),
         q.at = "deliver", NEW r \in Task, r.at = "deliver", r.todo = q.todo,
         r.event = q.event, r.then = q.then, r.newest = q.newest, r.seen = q.seen,
         r.baseline = q.baseline,
         MemOK(r.mem, w), Beside(q.mem, r.mem, q.event), ~r.mem.card[q.event],
         Tight(r.mem, q.event, w),
         \A d \in Event : d # q.event => w.standing[d] \subseteq v.standing[d]
  PROVE  PollerOK(r, w)
<1> DEFINE e == q.event
<1>1. /\ q \in Task /\ q.todo \in Seq(Event) /\ Range(q.todo) \subseteq v.present
      /\ e \in Event /\ e \in v.present /\ v.present \subseteq w.present
      /\ w.owed \subseteq Event /\ v.present \subseteq Event
      /\ q.newest \in {0} \cup v.present
  BY FieldsOfTask DEF PollerOK, TaskOK, FactsOK, DeliverOK, Grows
<1> HIDE DEF e
<1>2. \A d \in Event : d # e => /\ Tight(q.mem, d, v) => Tight(r.mem, d, w)
                                /\ Loose(q.mem, d, v) => Loose(r.mem, d, w)
                                /\ Told(q.mem, d) <=> Told(r.mem, d)
  <2> TAKE d \in Event
  <2> HAVE d # e
  <2>1. Same(q.mem, r.mem, d) /\ w.standing[d] \subseteq v.standing[d]
    BY DEF Beside, e
  <2> QED BY <2>1, SameCover, CoverGrows
<1>3. Tight(r.mem, e, w)
  BY DEF e
<1>4. TaskOK(r, w)
  BY <1>1 DEF PollerOK, TaskOK, Grows
<1>5. SeenOK(r, w) /\ CloseOK(r)
  BY DEF PollerOK, SeenOK, CloseOK, Grows
<1>6. DeliverOK(r, w)
  BY <1>1 DEF DeliverOK, e
<1>7. BatchOK(r, w)
  <2> SUFFICES ASSUME Announcing(r) PROVE BatchOK(r, w)
    BY DEF BatchOK
  <2>1. q.then = "announce" /\ r.then = "announce"
    BY DEF Announcing
  <2>2. /\ \A d \in v.owed : d <= q.newest => Told(q.mem, d) \/ d \in Range(q.todo) \/ d = e
        /\ \A d \in Range(q.todo) : Tight(q.mem, d, v)
    BY <2>1 DEF PollerOK, BatchOK, Announcing, e
  <2>3. ASSUME NEW d \in w.owed, d <= q.newest
        PROVE  Told(r.mem, d) \/ d \in Range(q.todo) \/ d = e
    <3>1. d \in Event /\ d \in Nat \ {0} /\ q.newest \in v.present
      <4>1. d \in Event
        BY <1>1
      <4>2. d \in Nat \ {0} /\ q.newest # 0
        BY <2>3, <4>1, EventIs
      <4> QED BY <1>1, <4>1, <4>2
    <3>2. d \in v.present
      <4>1. q.newest \in Nat /\ (d = q.newest \/ d < q.newest)
        BY <1>1, <2>3, <3>1, EventIs
      <4> QED BY <3>1, <4>1 DEF FactsOK
    <3>3. d \in v.owed
      BY <2>3, <3>2 DEF Grows
    <3> QED BY <1>2, <2>2, <2>3, <3>1, <3>3
  <2>4. \A d \in Range(q.todo) : Tight(r.mem, d, w)
    BY <1>1, <1>2, <1>3, <2>2
  <2> QED BY <2>1, <2>3, <2>4 DEF BatchOK, e
<1>8. \A d \in Event : Loose(r.mem, d, w)
  BY <1>2, <1>3 DEF PollerOK, Loose
<1> QED BY <1>4, <1>5, <1>6, <1>7, <1>8 DEF PollerOK

\* ... which the file may not know of yet.
LEMMA FilesDeliver ==
  ASSUME IInv, NEW p \in Poller, Delivering(p), NEW r, r.at = "deliver",
         r.event = poller[p].event, Beside(poller[p].mem, r.mem, poller[p].event), file' = file,
         WorldOK', Grows(Facts, Facts'),
         \A d \in Event : d # poller[p].event => Facts'.standing[d] \subseteq Facts.standing[d],
         \/ Loose(file, poller[p].event, Facts')
         \/ r.mem.thread[poller[p].event] \notin {0, file.thread[poller[p].event]}
  PROVE  Files(r)
<1> DEFINE e == poller[p].event
<1>1. CASE Overlapped
  BY <1>1 DEF Files
<1>2. CASE ~Overlapped
  <2>1. poller[p].alive /\ poller[p].at = "deliver"
    BY DEF Delivering
  <2>2. \A d \in Event \ {e} : /\ poller[p].mem.thread[d] = file.thread[d]
                               /\ r.mem.thread[d] = poller[p].mem.thread[d]
    BY <1>2, <2>1 DEF IInv, FileOK, Recorded, Beside, Same
  <2>3. Recorded(r, file)
    BY <2>2 DEF Recorded
  <2>4. ASSUME NEW d \in Event
        PROVE  Loose(file, d, Facts') \/ r.mem.thread[d] \notin {0, file.thread[d]}
    <3>1. CASE d = e
      BY <3>1
    <3>2. CASE d # e
      <4>1. Loose(file, d, Facts) \/ Unrecorded(d)
        BY DEF IInv, FileOK
      <4>2. ~Unrecorded(d)
        <5> SUFFICES ASSUME NEW o \in Poller, poller[o].alive,
                            poller[o].mem.thread[d] \notin {0, file.thread[d]}
                     PROVE  FALSE
          BY DEF Unrecorded
        <5>1. o = p
          BY <1>2, <2>1 DEF IInv, ManagerOK
        <5> QED BY <2>2, <3>2, <5>1
      <4>3. FactsOK(Facts) /\ FactsOK(Facts')
        BY NextWorldGivesFacts DEF IInv
      <4> QED BY <3>2, <4>1, <4>2, <4>3, CoverGrows
    <3> QED BY <3>1, <3>2
  <2> QED BY <2>3, <2>4 DEF Files
<1> QED BY <1>1, <1>2

LEMMA DeliveryKeeps ==
  ASSUME IInv, NEW p \in Poller, Delivering(p), NEW m, Is(p, [poller[p] EXCEPT !.mem = m]),
         UNCHANGED World, UNCHANGED <<history, left>>,
         post' \in [Event -> Seq(PostState)], \A d \in Event : Len(post[d]) <= Len(post'[d]),
         \A d \in Event : d # poller[p].event => Facts'.standing[d] \subseteq Facts.standing[d],
         Beside(poller[p].mem, m, poller[p].event), ~m.card[poller[p].event],
         FactsOK(Facts') /\ MemOK(poller[p].mem, Facts') /\ Facts'.present = Facts.present
           /\ Facts'.pings = Facts.pings
           => MemOK(m, Facts'),
         Tight(m, poller[p].event, Facts'),
         \/ file' = m
         \/ /\ file' = file
            /\ \/ Loose(file, poller[p].event, Facts')
               \/ m.thread[poller[p].event] \notin {0, file.thread[poller[p].event]}
  PROVE  IInv'
<1> DEFINE q == poller[p]
           r == [q EXCEPT !.mem = m]
<1>1. q.alive /\ q.at = "deliver" /\ q.event \in Event
  BY DeliveringIs
<1>2. WorldOK /\ FactsOK(Facts) /\ PollerOK(q, Facts) /\ q \in Task /\ MemOK(q.mem, Facts)
  BY <1>1, AliveIs
<1>3. /\ UNCHANGED <<status, rev, kind, registered, delivery>>
      /\ WorldOK' /\ Grows(Facts, Facts') /\ (Overlapped' <=> Overlapped)
      /\ Facts'.present = Facts.present /\ Facts'.pings = Facts.pings
  <2>1. Notes /\ left' \in [Counter -> Nat]
    BY <1>2, LeftStays DEF Notes
  <2> QED BY <1>2, <2>1, WorldKeeps DEF World
<1>4. FactsOK(Facts')
  BY <1>3, NextWorldGivesFacts
<1>5. MemOK(m, Facts')
  <2>1. MemOK(q.mem, Facts')
    BY <1>2, <1>3, <1>4, MemoryGrows
  <2> QED BY <1>3, <1>4, <2>1
<1>6. /\ r \in Task /\ r.alive = q.alive /\ r.at = q.at /\ r.todo = q.todo /\ r.event = q.event
      /\ r.then = q.then /\ r.newest = q.newest /\ r.seen = q.seen /\ r.baseline = q.baseline
      /\ r.mem = m
  <2>1. m \in Memory
    BY <1>5 DEF MemOK
  <2> QED BY <1>2, <2>1 DEF Task
<1>7. Is(p, r)
  OBVIOUS
<1> HIDE DEF r
<1>8. PollerOK(r, Facts')
  BY <1>1, <1>2, <1>3, <1>4, <1>5, <1>6, DeliveryGoesOn
<1>9. Files(r)
  <2>1. CASE file' = m
    BY <1>6, <2>1 DEF Files
  <2>2. CASE /\ file' = file
             /\ \/ Loose(file, q.event, Facts')
                \/ m.thread[q.event] \notin {0, file.thread[q.event]}
    BY <1>1, <1>3, <1>6, <2>2, FilesDeliver
  <2> QED BY <2>1, <2>2
<1>10. \A d \in Event : \/ d \in Facts'.excused
                        \/ Facts'.standing[d] \subseteq Facts.standing[d]
                        \/ \A o \in Poller : poller[o].alive => o = p
  BY <1>1, <1>3, Alone DEF Grows
<1>11. q.alive /\ r.alive /\ registered' = registered
  BY <1>1, <1>3, <1>6
<1> QED BY <1>3, <1>7, <1>8, <1>9, <1>10, <1>11, PollersKeep

\* A post that is gone is forgotten: nothing of the event stands any more.
LEMMA ForgetGoneKeeps ==
  ASSUME IInv, NEW p \in Poller, ForgetGone(p) PROVE IInv'
<1> DEFINE q == poller[p]
           e == q.event
           none == 0
<1>0. none \in Nat /\ none = 0
  OBVIOUS
<1> HIDE DEF none
<1>a. PICK k : k = q.mem
  OBVIOUS
<1> DEFINE mt == [k EXCEPT !.thread[e] = none]
           mp == [k EXCEPT !.parent[e] = none]
<1>1. /\ Delivering(p) /\ UNCHANGED World /\ UNCHANGED <<post, history, left>> /\ file' = file
      /\ \/ /\ k.thread[e] # 0 /\ Gone(e, k.thread[e]) /\ Is(p, [q EXCEPT !.mem = mt])
         \/ /\ k.thread[e] = 0 /\ k.parent[e] # 0 /\ Gone(e, k.parent[e])
            /\ Is(p, [q EXCEPT !.mem = mp])
  BY <1>0, <1>a DEF ForgetGone, Quiet
<1>2. /\ q.alive /\ q.at = "deliver" /\ e \in Facts.present /\ e \in Event
      /\ ~k.card[e] /\ Tight(k, e, Facts)
  BY <1>1, <1>a, DeliveringIs
<1>3. WorldOK /\ FactsOK(Facts) /\ k \in Memory
  BY <1>2, <1>a, AliveIs
<1>4. /\ post' \in [Event -> Seq(PostState)] /\ \A d \in Event : Len(post[d]) <= Len(post'[d])
  BY <1>1, <1>3, PostsStay
<1>5. Facts' = Facts
  BY <1>1, SameFacts DEF World
<1>6. e \in Facts.excused \/ Facts.standing[e] = {}
  <2>1. PICK i : Gone(e, i) /\ Kept(k, e) = {i}
    BY <1>1 DEF Kept
  <2>2. i \notin Facts.standing[e]
    BY <1>2, <2>1, GoneFalls
  <2> QED BY <1>2, <2>1, <2>2 DEF Tight
<1>7. \A m : Tight(m, e, Facts') /\ Loose(file, e, Facts')
  BY <1>5, <1>6 DEF Tight, Loose
<1>8. /\ Beside(k, mt, e) /\ mt.thread[e] = none /\ mt.parent[e] = k.parent[e]
      /\ mt.card[e] = k.card[e] /\ mt.pending[e] = k.pending[e]
  <2> HIDE DEF e
  <2> QED BY <1>0, <1>2, <1>3, ThreadChanged
<1>9. /\ Beside(k, mp, e) /\ mp.thread[e] = k.thread[e] /\ mp.parent[e] = none
      /\ mp.card[e] = k.card[e] /\ mp.pending[e] = k.pending[e]
  <2> HIDE DEF e
  <2> QED BY <1>0, <1>2, <1>3, ParentChanged
<1> HIDE DEF mt, mp
<1>10. ASSUME NEW m \in {mt, mp}, FactsOK(Facts'), MemOK(k, Facts')
       PROVE  MemOK(m, Facts')
  <2>1. /\ m.thread[e] \in {0, k.thread[e]} /\ m.parent[e] \in {0, k.parent[e]}
        /\ m.card[e] = k.card[e] /\ m.pending[e] = k.pending[e] /\ Beside(k, m, e)
    BY <1>0, <1>8, <1>9
  <2>2. /\ k.thread[e] <= Facts'.posts[e] /\ k.parent[e] <= Facts'.posts[e]
        /\ k.parent[e] # 0 => e \in Facts'.pings
        /\ Facts'.posts[e] \in Nat
    BY <1>2, <1>10 DEF MemOK, FactsOK
  <2>3. Told(k, e) => Told(m, e)
    BY <1>2, <2>1 DEF Told, Announced
  <2>4. m.thread[e] <= Facts'.posts[e] /\ m.parent[e] <= Facts'.posts[e]
    BY <2>1, <2>2
  <2> QED BY <1>2, <1>5, <1>10, <2>1, <2>2, <2>3, <2>4, MemoryBeside
<1>11. ASSUME NEW m \in {mt, mp}, Is(p, [q EXCEPT !.mem = m]) PROVE IInv'
  <2>1. Beside(k, m, e) /\ ~m.card[e]
    BY <1>2, <1>8, <1>9
  <2>2. \A d \in Event : Facts'.standing[d] \subseteq Facts.standing[d]
    BY <1>5
  <2> QED BY <1>1, <1>4, <1>7, <1>10, <1>11, <1>a, <2>1, <2>2, DeliveryKeeps
<1> QED BY <1>1, <1>11

\* A delivery that has no post yet has nothing that stands.
LEMMA NothingStands ==
  ASSUME IInv, NEW p \in Poller, Delivering(p), NoThread(p),
         NoParent(p) \/ poller[p].event \notin Facts.pings
  PROVE  poller[p].event \in Facts.excused \/ Facts.standing[poller[p].event] = {}
<1> DEFINE m == poller[p].mem
           e == poller[p].event
<1>1. e \in Event /\ Tight(m, e, Facts) /\ poller[p].alive
  BY DeliveringIs
<1>2. MemOK(m, Facts)
  BY <1>1, AliveIs
<1>3. m.thread[e] = 0 /\ m.parent[e] = 0
  BY <1>1, <1>2 DEF MemOK, NoThread, NoParent
<1> QED BY <1>1, <1>3 DEF Tight, Kept

\* Whether an event is announced with a ping.
LEMMA ModeIs ==
  ASSUME WorldOK, NEW p \in Poller, poller[p].event \in Event
  PROVE  /\ Mode(p) = "message" <=> poller[p].event \in Facts.pings
         /\ Mode(p) \in {"message", "calendar", "forum"}
  BY DEF Mode, Facts, WorldOK

\* The post that an event has now is the only one.
LEMMA PostedStands ==
  ASSUME IInv, NEW p \in Poller, Delivering(p), NoThread(p),
         NoParent(p) \/ Mode(p) # "message",
         NEW thread \in {"none", "open"}, Posted(poller[p].event, thread),
         history' = history
  PROVE  LET e == poller[p].event
             i == Len(post[e]) + 1
         IN  /\ post' \in [Event -> Seq(PostState)]
             /\ \A d \in Event : Len(post[d]) <= Len(post'[d])
             /\ \A d \in Event : d # e => Facts'.standing[d] \subseteq Facts.standing[d]
             /\ Facts'.posts[e] = i /\ i \in Nat \ {0} /\ file.thread[e] # i
             /\ e \in Facts'.excused \/ Facts'.standing[e] = {i}
<1> DEFINE e == poller[p].event
           i == Len(post[e]) + 1
<1>1. e \in Event /\ WorldOK /\ FactsOK(Facts) /\ poller[p].alive
  BY DeliveringIs, AliveIs
<1>2. /\ post' \in [Event -> Seq(PostState)]
      /\ \A d \in Event : Len(post[d]) <= Len(post'[d])
      /\ Facts'.posts[e] = Facts.posts[e] + 1
      /\ Facts'.standing[e] = Facts.standing[e] \cup {i}
      /\ \A d \in Event : d # e => Facts'.standing[d] = Facts.standing[d]
  BY <1>1, PostedIs
<1>3. Facts.posts[e] = Len(post[e]) /\ Len(post[e]) \in Nat
  BY <1>1, PostsAre, FieldsOfFacts
<1>4. file.thread[e] <= Facts.posts[e] /\ file.thread[e] \in Nat
  BY <1>1, FieldsOfMemory DEF IInv, FileOK, MemOK
<1>5. i \in Nat \ {0} /\ file.thread[e] # i /\ Facts'.posts[e] = i
  BY <1>2, <1>3, <1>4
<1>6. e \in Facts.excused \/ Facts.standing[e] = {}
  BY <1>1, NothingStands, ModeIs
<1>7. Facts'.excused = Facts.excused
  BY DEF Facts
<1> QED BY <1>2, <1>5, <1>6, <1>7

LEMMA SendParentKeeps ==
  ASSUME IInv, NEW p \in Poller, SendParent(p) PROVE IInv'
<1> DEFINE q == poller[p]
           e == q.event
           i == Len(post[e]) + 1
           thread == "none"
<1>a. PICK k : k = q.mem
  OBVIOUS
<1>b. PICK n : n = i
  OBVIOUS
<1> DEFINE m == [k EXCEPT !.parent[e] = n]
<1>1. /\ Delivering(p) /\ UNCHANGED World /\ UNCHANGED <<history, left>>
      /\ Mode(p) = "message" /\ NoThread(p) /\ NoParent(p) /\ Posted(e, thread)
      /\ Is(p, [q EXCEPT !.mem = m]) /\ file' = m
  BY <1>a, <1>b DEF SendParent, Save
<1>2. thread \in {"none", "open"}
  OBVIOUS
<1> HIDE DEF thread
<1>3. /\ post' \in [Event -> Seq(PostState)]
      /\ \A d \in Event : Len(post[d]) <= Len(post'[d])
      /\ \A d \in Event : d # e => Facts'.standing[d] \subseteq Facts.standing[d]
      /\ Facts'.posts[e] = n /\ n \in Nat \ {0}
      /\ e \in Facts'.excused \/ Facts'.standing[e] = {n}
  BY <1>1, <1>2, <1>b, PostedStands
<1>4. q.alive /\ e \in Event /\ e \in Facts.present /\ ~k.card[e]
  BY <1>1, <1>a, DeliveringIs
<1>5. WorldOK /\ FactsOK(Facts) /\ k \in Memory
  BY <1>4, <1>a, AliveIs
<1>6. /\ Beside(k, m, e) /\ m.thread[e] = k.thread[e] /\ m.parent[e] = n
      /\ m.card[e] = k.card[e] /\ m.pending[e] = k.pending[e]
  <2>1. n \in Nat
    BY <1>3
  <2> HIDE DEF e
  <2> QED BY <1>4, <1>5, <2>1, ParentChanged
<1> HIDE DEF m
<1>7. k.thread[e] = 0 /\ e \in Facts.pings
  BY <1>1, <1>4, <1>5, <1>a, ModeIs DEF NoThread
<1>8. Tight(m, e, Facts')
  BY <1>3, <1>6, <1>7 DEF Tight, Kept
<1>9. ASSUME FactsOK(Facts'), MemOK(k, Facts'), Facts'.present = Facts.present,
             Facts'.pings = Facts.pings
      PROVE  MemOK(m, Facts')
  <2>1. Told(k, e) => Told(m, e)
    BY <1>4, <1>6 DEF Told, Announced
  <2>2. m.thread[e] <= Facts'.posts[e] /\ m.parent[e] <= Facts'.posts[e]
    BY <1>3, <1>6, <1>7
  <2> QED BY <1>4, <1>6, <1>7, <1>9, <2>1, <2>2, MemoryBeside
<1> QED BY <1>1, <1>3, <1>4, <1>6, <1>8, <1>9, <1>a, DeliveryKeeps

\* A private thread, and a forum post, is a post of its own.
LEMMA CreateKeeps ==
  ASSUME IInv, NEW p \in Poller, Delivering(p), Mode(p) # "message", NoThread(p),
         NEW thread \in {"none", "open"}, Posted(poller[p].event, thread),
         UNCHANGED <<history, left>>, UNCHANGED World,
         NEW k, k = poller[p].mem, NEW n, n = Len(post[poller[p].event]) + 1,
         NEW m, n \in Nat => /\ Beside(k, m, poller[p].event) /\ m.thread[poller[p].event] = n
                             /\ m.parent[poller[p].event] = k.parent[poller[p].event]
                             /\ m.card[poller[p].event] = k.card[poller[p].event]
                             /\ m.pending[poller[p].event] = k.pending[poller[p].event],
         Is(p, [poller[p] EXCEPT !.mem = m]), file' = file \/ file' = m
  PROVE  IInv'
<1> DEFINE e == poller[p].event
<1>3. /\ post' \in [Event -> Seq(PostState)]
      /\ \A d \in Event : Len(post[d]) <= Len(post'[d])
      /\ \A d \in Event : d # e => Facts'.standing[d] \subseteq Facts.standing[d]
      /\ Facts'.posts[e] = n /\ n \in Nat \ {0} /\ file.thread[e] # n
      /\ e \in Facts'.excused \/ Facts'.standing[e] = {n}
  BY PostedStands
<1>4. poller[p].alive /\ e \in Event /\ e \in Facts.present /\ ~k.card[e]
  BY DeliveringIs
<1>5. WorldOK /\ FactsOK(Facts) /\ k \in Memory
  BY <1>4, AliveIs
<1>6. /\ Beside(k, m, e) /\ m.thread[e] = n /\ m.parent[e] = k.parent[e]
      /\ m.card[e] = k.card[e] /\ m.pending[e] = k.pending[e]
  BY <1>3
<1>8. Tight(m, e, Facts')
  BY <1>3, <1>6 DEF Tight, Kept
<1>9. ASSUME FactsOK(Facts'), MemOK(k, Facts'), Facts'.present = Facts.present,
             Facts'.pings = Facts.pings
      PROVE  MemOK(m, Facts')
  <2>1. Told(k, e) => Told(m, e)
    BY <1>4, <1>6 DEF Told, Announced
  <2>2. /\ m.thread[e] <= Facts'.posts[e] /\ m.parent[e] <= Facts'.posts[e]
        /\ m.parent[e] # 0 => e \in Facts'.pings
    BY <1>3, <1>4, <1>6, <1>9 DEF MemOK
  <2> QED BY <1>4, <1>6, <1>9, <2>1, <2>2, MemoryBeside
<1>10. m.thread[e] \notin {0, file.thread[e]}
  BY <1>3, <1>6
<1> QED BY <1>3, <1>4, <1>6, <1>8, <1>9, <1>10, DeliveryKeeps

LEMMA CreatePrivateKeeps ==
  ASSUME IInv, NEW p \in Poller, CreatePrivate(p) PROVE IInv'
<1> DEFINE q == poller[p]
           e == q.event
           thread == "open"
<1>a. PICK k : k = q.mem
  OBVIOUS
<1>b. PICK n : n = Len(post[e]) + 1
  OBVIOUS
<1> DEFINE m == [k EXCEPT !.thread[e] = n]
<1>1. /\ Delivering(p) /\ UNCHANGED World /\ UNCHANGED <<history, left>>
      /\ Mode(p) # "message" /\ NoThread(p) /\ Posted(e, thread)
      /\ Is(p, [q EXCEPT !.mem = m]) /\ file' = file
  BY <1>a, <1>b DEF CreatePrivate
<1>2. thread \in {"none", "open"}
  OBVIOUS
<1> HIDE DEF thread
<1>3. e \in Event /\ q.alive
  BY <1>1, DeliveringIs
<1>4. k \in Memory
  BY <1>3, <1>a, AliveIs
<1>5. n \in Nat => /\ Beside(k, m, e) /\ m.thread[e] = n /\ m.parent[e] = k.parent[e]
                    /\ m.card[e] = k.card[e] /\ m.pending[e] = k.pending[e]
  <2> HIDE DEF e
  <2> QED BY <1>3, <1>4, ThreadChanged
<1> HIDE DEF m
<1> QED BY <1>1, <1>2, <1>5, <1>a, <1>b, CreateKeeps

LEMMA CreateForumPostKeeps ==
  ASSUME IInv, NEW p \in Poller, CreateForumPost(p) PROVE IInv'
<1> DEFINE q == poller[p]
           e == q.event
           thread == "open"
<1>a. PICK k : k = q.mem
  OBVIOUS
<1>b. PICK n : n = Len(post[e]) + 1
  OBVIOUS
<1> DEFINE m == [k EXCEPT !.thread[e] = n]
<1>1. /\ Delivering(p) /\ UNCHANGED World /\ UNCHANGED <<history, left>>
      /\ Mode(p) # "message" /\ NoThread(p) /\ Posted(e, thread)
      /\ Is(p, [q EXCEPT !.mem = m]) /\ file' = m
  BY <1>a, <1>b DEF CreateForumPost, Save
<1>2. thread \in {"none", "open"}
  OBVIOUS
<1> HIDE DEF thread
<1>3. e \in Event /\ q.alive
  BY <1>1, DeliveringIs
<1>4. k \in Memory
  BY <1>3, <1>a, AliveIs
<1>5. n \in Nat => /\ Beside(k, m, e) /\ m.thread[e] = n /\ m.parent[e] = k.parent[e]
                    /\ m.card[e] = k.card[e] /\ m.pending[e] = k.pending[e]
  <2> HIDE DEF e
  <2> QED BY <1>3, <1>4, ThreadChanged
<1> HIDE DEF m
<1> QED BY <1>1, <1>2, <1>5, <1>a, <1>b, CreateKeeps

LEMMA OpenThreadKeeps ==
  ASSUME IInv, NEW p \in Poller, OpenThread(p) PROVE IInv'
<1> DEFINE q == poller[p]
           e == q.event
<1>a. PICK k : k = q.mem
  OBVIOUS
<1>b. PICK n : n = k.parent[e]
  OBVIOUS
<1> DEFINE m == [k EXCEPT !.thread[e] = n]
           opened == IF post[e][n].thread = "none" THEN "open" ELSE post[e][n].thread
           row == [post[e][n] EXCEPT !.thread = opened]
<1>1. /\ Delivering(p) /\ UNCHANGED World /\ UNCHANGED <<history, left>>
      /\ k.thread[e] = 0 /\ n # 0 /\ post[e][n].thread # "deleted" /\ file' = file
      /\ Is(p, [q EXCEPT !.mem = m])
      /\ post' = [post EXCEPT ![e][n].thread = opened]
  BY <1>a, <1>b DEF OpenThread, NoThread, NoParent, Gone
<1>2. post' = [post EXCEPT ![e][n] = row]
  BY <1>1
<1>4. /\ q.alive /\ e \in Event /\ e \in Facts.present /\ ~k.card[e] /\ Tight(k, e, Facts)
  BY <1>1, <1>a, DeliveringIs
<1>5. WorldOK /\ FactsOK(Facts) /\ k \in Memory
  BY <1>4, <1>a, AliveIs
<1>6. ASSUME n \in DOMAIN post[e]
      PROVE  row \in PostState /\ (row.thread # "deleted" => n \in Standing(e))
  <2>1. post[e][n] \in PostState
    BY <1>4, <1>5, <1>6, PostsAre
  <2>2. opened \in {"none", "open", "locked", "deleted"}
    BY <2>1 DEF PostState
  <2> HIDE DEF opened
  <2>3. row \in PostState
    BY <2>1, <2>2 DEF PostState
  <2> QED BY <1>1, <1>6, <2>3 DEF Standing
<1> HIDE DEF row
<1>7. /\ post' \in [Event -> Seq(PostState)]
      /\ \A d \in Event : Len(post[d]) <= Len(post'[d])
      /\ \A d \in Event : Facts'.standing[d] \subseteq Facts.standing[d]
  BY <1>2, <1>4, <1>5, <1>6, PostChanged
<1>8. n \in Nat
  BY <1>4, <1>5, <1>b, FieldsOfMemory
<1>9. /\ Beside(k, m, e) /\ m.thread[e] = n /\ m.parent[e] = k.parent[e]
      /\ m.card[e] = k.card[e] /\ m.pending[e] = k.pending[e]
  <2> HIDE DEF e
  <2> QED BY <1>4, <1>5, <1>8, ThreadChanged
<1> HIDE DEF m
<1>10. Facts'.excused = Facts.excused
  BY <1>1 DEF Facts
<1>11. e \in Facts'.excused \/ Facts'.standing[e] \subseteq {n}
  <2>1. Kept(k, e) = {n}
    BY <1>1, <1>b DEF Kept
  <2> QED BY <1>4, <1>7, <1>10, <2>1 DEF Tight
<1>12. Tight(m, e, Facts')
  BY <1>1, <1>9, <1>11 DEF Tight, Kept
<1>13. ASSUME FactsOK(Facts'), MemOK(k, Facts'), Facts'.present = Facts.present,
              Facts'.pings = Facts.pings
       PROVE  MemOK(m, Facts')
  <2>1. Told(k, e) => Told(m, e)
    BY <1>4, <1>9 DEF Told, Announced
  <2>2. /\ m.thread[e] <= Facts'.posts[e] /\ m.parent[e] <= Facts'.posts[e]
        /\ m.parent[e] # 0 => e \in Facts'.pings
    BY <1>4, <1>9, <1>13, <1>b DEF MemOK
  <2> QED BY <1>4, <1>9, <1>13, <2>1, <2>2, MemoryBeside
<1>14. Loose(file, e, Facts') \/ m.thread[e] \notin {0, file.thread[e]}
  <2>1. CASE file.thread[e] = n
    BY <1>1, <1>11, <2>1 DEF Loose, Tight, Kept
  <2>2. CASE file.thread[e] # n
    BY <1>1, <1>9, <2>2
  <2> QED BY <2>1, <2>2
<1> QED BY <1>1, <1>4, <1>7, <1>9, <1>12, <1>13, <1>14, <1>a, DeliveryKeeps
==============================================================================
