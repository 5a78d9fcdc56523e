----------------------------- MODULE BotEvents -----------------------------
(***************************************************************************)
(* The Discord bot's poller for one guild (services/poller.ts) and the     *)
(* manager that starts and stops it (services/poller-manager.ts): it polls *)
(* the API for events, announces new ones, follows them to their end and   *)
(* keeps a checkpoint file.  A poller is a sequential task whose steps,    *)
(* one per await that matters, interleave with the users of the website,   *)
(* with crashes, and with a second poller when the guild is left and       *)
(* joined again.                                                           *)
(*                                                                         *)
(* An event is its id, its status and a revision that grows with every     *)
(* change (the fingerprint roster_version:status:updated_at).  A post is   *)
(* one announcement on Discord with its thread and signup card.            *)
(***************************************************************************)
EXTENDS Naturals, FiniteSets, Sequences, FiniteSetsExt, Functions

CONSTANTS Event,      \* event ids, 1..n, in the order of creation
          Poller,     \* Poller objects of the bot process
          None,       \* no poller registered
          Delivery,   \* how announcements are delivered: SettingsService.eventDelivery
          Budgets     \* bounds: creations, status changes, faults, crashes, rejoins,
                      \* flash masses, and whether the guild is fresh

Counter == {"creates", "changes", "faults", "crashes", "rejoins", "flashes", "fresh"}

ASSUME BotAssumption ==
  /\ IsFiniteSet(Event) /\ Event = 1..Cardinality(Event)
  /\ None \notin Poller
  /\ Delivery \subseteq {"message", "calendar", "forum"}
  /\ Budgets \subseteq [Counter -> Nat]

VARIABLES
  status,      \* the events in the backend
  rev,         \* their revision
  kind,        \* organized, or a flash mass inside or past its undo window
  post,        \* Discord: the announcements of an event
  file,        \* the checkpoint file
  poller,      \* memory and program counter of each Poller object
  registered,  \* the pollers map's entry for the guild
  delivery,    \* the guild's delivery setting
  history,     \* what has ever happened to an event, for the properties
  left         \* what is left of the budget

vars == <<status, rev, kind, post, file, poller, registered, delivery, history, left>>

Spend(what) == left[what] > 0 /\ left' = [left EXCEPT ![what] = @ - 1]

\* PollerState.  thread, parent: the index of a post, 0 for none; shown: the
\* revision stamped on the signup card; removed: archivedEventIds.
Checkpoint(seeded) ==
  [seeded |-> seeded, cursor |-> 0,
   parent |-> [e \in Event |-> 0], thread |-> [e \in Event |-> 0],
   card |-> [e \in Event |-> FALSE], shown |-> [e \in Event |-> 0],
   pending |-> [e \in Event |-> "none"], removed |-> {}]

Unseen == [e \in Event |-> [status |-> "unknown", rev |-> 0]]

\* A poller between cycles.  boot: the task of start(); at: the phase of the
\* cycle; todo: what is left of it; seen: the list or revisions it last read.
Idle(m, boot) ==
  [alive |-> TRUE, mem |-> m, at |-> "idle", boot |-> boot, baseline |-> 0,
   todo |-> <<>>, event |-> 0, detail |-> 0, newest |-> 0, then |-> "announce",
   known |-> FALSE, seen |-> Unseen]

Stopped == [Idle(Checkpoint(FALSE), "done") EXCEPT !.alive = FALSE]

Init ==
  /\ status = [e \in Event |-> "absent"]
  /\ rev = [e \in Event |-> 0]
  /\ kind = [e \in Event |-> "organized"]
  /\ post = [e \in Event |-> <<>>]
  /\ left \in Budgets
  /\ file = Checkpoint(left["fresh"] = 0)
  /\ poller = [p \in Poller |-> Stopped]
  /\ registered = None
  /\ delivery \in Delivery
  /\ history = [e \in Event |-> {}]

\* GET api/events leaves archived events out.
Listed == {e \in Event : status[e] \notin {"absent", "archived"}}
Newest == IF Listed = {} THEN 0 ELSE Max(Listed)
Remember(es, what) ==
  history' = [e \in Event |-> IF e \in es THEN history[e] \cup {what} ELSE history[e]]

----------------------------------------------------------------------------
(* The website.                                                            *)

Create(e, flash) ==
  /\ status[e] = "absent" /\ \A d \in Event : d < e => status[d] # "absent"
  /\ left["creates"] > 0 /\ (flash => left["flashes"] > 0)
  /\ left' = [left EXCEPT !["creates"] = @ - 1, !["flashes"] = IF flash THEN @ - 1 ELSE @]
  /\ status' = [status EXCEPT ![e] = "scheduled"]
  /\ rev' = [rev EXCEPT ![e] = 1]
  /\ kind' = IF flash THEN [kind EXCEPT ![e] = "young_flash"] ELSE kind
  /\ UNCHANGED <<post, file, poller, registered, delivery, history>>

\* edit, start, stop, cancel and its undo, archive and its undo.  An archived event
\* was scheduled: the others are archived as well, but with nothing left to follow.
Moves == {<<"scheduled", "scheduled">>, <<"scheduled", "live">>, <<"live", "over">>,
          <<"scheduled", "cancelled">>, <<"live", "cancelled">>, <<"cancelled", "scheduled">>,
          <<"scheduled", "archived">>, <<"archived", "scheduled">>}

Change(e) ==
  /\ Spend("changes")
  /\ \E s \in {m[2] : m \in {x \in Moves : x[1] = status[e]}} :
       /\ status' = [status EXCEPT ![e] = s]
       /\ rev' = [rev EXCEPT ![e] = @ + 1]
       /\ IF s = "scheduled" THEN UNCHANGED history ELSE Remember({e}, "left")
  /\ UNCHANGED <<kind, post, file, poller, registered, delivery>>

\* FLASH_UNDO_WINDOW_MS is over.
WindowCloses(e) ==
  /\ kind[e] = "young_flash"
  /\ kind' = [kind EXCEPT ![e] = "flash"]
  /\ UNCHANGED <<status, rev, post, file, poller, registered, delivery, history, left>>

----------------------------------------------------------------------------
(* Steps of a poller.                                                      *)

Mapped(m) == {e \in Event : m.thread[e] # 0}
Announced(m, e) == m.thread[e] # 0 /\ m.card[e]
\* Mutant of Retries: only the announcements held for an undo window are tried again.
RetriesOfHeld(m) == {e \in Event : m.pending[e] = "undo_window"}
Retries(m) == {e \in Event : m.pending[e] \notin {"none", "ambiguous"}}
\* The elements of S, the smallest first.
InOrder(S) ==
  CHOOSE s \in [1..Cardinality(S) -> S] :
    Range(s) = S /\ \A i, j \in DOMAIN s : i < j => s[i] < s[j]

\* pollOnce goes from closed-events to restored-events, roster-sync and the end
\* of the cycle as each runs out of work; without revisions only the second runs.
EndOfRoster(q) ==
  IF q.at = "roster" /\ q.todo = <<>>
  THEN [Idle(q.mem, q.boot) EXCEPT !.baseline = q.baseline] ELSE q
EndOfRestored(q) ==
  IF q.at = "restored" /\ q.todo = <<>>
  THEN EndOfRoster([q EXCEPT !.at = "roster",
                             !.todo = IF q.known THEN InOrder(Mapped(q.mem)) ELSE <<>>])
  ELSE EndOfRoster(q)
Settled(q) ==
  IF q.at = "close" /\ q.todo = <<>>
  THEN EndOfRestored([q EXCEPT !.at = "restored", !.todo = InOrder(q.mem.removed)])
  ELSE EndOfRestored(q)

\* The poller's next state.  One that was stopped goes away with its last cycle.
Is(p, q) ==
  poller' = [poller EXCEPT ![p] = IF q.at = "idle" /\ q.boot = "done" /\ registered # p
                                  THEN Stopped ELSE q]
\* save(): synchronous and atomic, of the whole state in memory
Save(q) == file' = q.mem

Quiet == UNCHANGED <<post, history, left>>
World == <<status, rev, kind, registered, delivery>>

\* start(): adoptCheckpointBaseline lists everything once ...
BootLists(p) ==
  LET q == poller[p]
  IN /\ q.alive /\ q.boot = "list"
     /\ Is(p, [q EXCEPT !.boot = "adopt", !.baseline = Newest])
     /\ Remember({e \in Event : e <= Newest}, "folded")
     /\ UNCHANGED <<post, file, left, World>>

\* the poll() of start() joins a cycle that a command has begun
Booted(q) == [q EXCEPT !.boot = IF q.at = "idle" THEN "poll" ELSE "done", !.baseline = 0]

\* ... and adopts the newest id without announcing.
BootAdopts(p) ==
  LET q == poller[p]
      seeded == Booted([q EXCEPT !.mem.seeded = TRUE, !.mem.cursor = Max({@, q.baseline})])
  IN /\ q.alive /\ q.boot = "adopt"
     /\ Is(p, seeded) /\ Save(seeded)
     /\ UNCHANGED World /\ Quiet

\* A list that fails leaves the seeding to the cycles.
BootFails(p) ==
  LET q == poller[p]
  IN /\ q.alive /\ q.boot = "list" /\ Spend("faults")
     /\ Is(p, Booted(q))
     /\ UNCHANGED <<post, file, history, World>>

\* A cycle begins: a tick, a delayed poll, pollNow, or the poll() of start().
\* stop() only clears the timers.
Begins(p) ==
  LET q == poller[p]
  IN q.alive /\ q.at = "idle" /\ (registered = p \/ q.boot = "poll")
Cycle(p) == IF poller[p].boot = "poll" THEN [poller[p] EXCEPT !.boot = "done"] ELSE poller[p]

\* A cycle of a poller that is not seeded seeds it, even while start() does.
SeedAgain(p) ==
  /\ Begins(p) /\ ~poller[p].mem.seeded
  /\ Is(p, [Cycle(p) EXCEPT !.at = "seed", !.newest = Newest])
  /\ Remember({e \in Event : e <= Newest}, "folded")
  /\ UNCHANGED <<post, file, left, World>>

SeedAdopts(p) ==
  LET q == poller[p]
      seeded == [q EXCEPT !.at = "idle", !.newest = 0, !.mem.seeded = TRUE,
                          !.mem.cursor = Max({@, q.newest})]
  IN /\ q.alive /\ q.at = "seed"
     /\ Is(p, seeded) /\ Save(seeded)
     /\ UNCHANGED World /\ Quiet

\* checkNewEvents: lists what is above the checkpoint, clamps a checkpoint that
\* is ahead of the list, and queues the pending announcements before the new ones.
\* A scan that stops early sees some of the events and says so.
List(p) ==
  LET q == Cycle(p)
      clamped == IF Newest > 0 /\ Newest < q.mem.cursor
                 THEN [q EXCEPT !.mem.cursor = Newest] ELSE q
      fresh == {e \in Listed : e > q.mem.cursor}
  IN /\ Begins(p) /\ q.mem.seeded
     /\ \E found \in SUBSET fresh :
          /\ \/ found = fresh /\ UNCHANGED left
             \/ found # fresh /\ Spend("faults")
          /\ LET base == IF found = fresh THEN clamped ELSE q
                 new == {e \in found : status[e] = "scheduled"}
             IN /\ Is(p, [base EXCEPT !.at = "announce", !.then = "announce",
                            !.todo = InOrder(Retries(q.mem)) \o InOrder(new),
                            !.newest = IF found = fresh THEN Newest ELSE 0,
                            !.seen = [e \in Event |->
                                        [status |-> IF e \in new THEN "scheduled" ELSE "unknown",
                                         rev |-> 0]]])
                /\ IF base.mem # q.mem THEN Save(base) ELSE UNCHANGED file
     /\ UNCHANGED <<post, history, World>>

ListFails(p) ==
  /\ Begins(p) /\ poller[p].mem.seeded /\ Spend("faults")
  /\ Is(p, [Cycle(p) EXCEPT !.at = "revisions"])
  /\ UNCHANGED <<post, file, history, World>>

\* The start of announceEvent: an ambiguous event is left alone, a flash mass in
\* its undo window waits, and the detail of any other is read.
Attempt(q, e) ==
  CASE q.mem.pending[e] = "ambiguous" -> q
    [] q.mem.pending[e] # "ambiguous" /\ kind[e] = "young_flash" ->
         [q EXCEPT !.mem.pending[e] = "undo_window"]
    [] OTHER -> [q EXCEPT !.at = "deliver", !.event = e, !.detail = rev[e]]

\* One entry of the queue.  A retried event that is over, gone or announced is
\* dropped and an announced one is skipped; any other is announced, whatever has
\* happened to it since it was listed.
Take(p) ==
  LET q == poller[p]
      e == Head(q.todo)
      rest == [q EXCEPT !.todo = Tail(@)]
      current == q.seen[e].status = "scheduled" \/ status[e] = "scheduled"
      next == IF current /\ ~Announced(q.mem, e) THEN Attempt(rest, e)
              ELSE IF e \in Retries(q.mem) THEN [rest EXCEPT !.mem.pending[e] = "none"]
              ELSE rest
  IN /\ q.alive /\ q.at = "announce" /\ q.todo # <<>>
     /\ Is(p, next)
     /\ IF next.mem # q.mem THEN Save(next) ELSE UNCHANGED file
     /\ UNCHANGED World /\ Quiet

\* The lookup of a retried event fails: it stays pending.
LookupFails(p) ==
  LET q == poller[p]
  IN /\ q.alive /\ q.at = "announce" /\ q.todo # <<>>
     /\ Head(q.todo) \in Retries(q.mem) /\ q.seen[Head(q.todo)].status # "scheduled"
     /\ Spend("faults")
     /\ Is(p, [q EXCEPT !.todo = Tail(@)])
     /\ UNCHANGED <<post, file, history, World>>

\* The end of checkNewEvents: only a full scan moves the cursor.
Advance(p) ==
  LET q == poller[p]
      moved == [q EXCEPT !.at = "revisions", !.newest = 0, !.seen = Unseen,
                         !.mem.cursor = Max({@, q.newest})]
  IN /\ q.alive /\ q.at = "announce" /\ q.todo = <<>>
     /\ Is(p, moved)
     /\ IF moved.mem # q.mem THEN Save(moved) ELSE UNCHANGED file
     /\ UNCHANGED World /\ Quiet

----------------------------------------------------------------------------
(* announceEvent(e), in the poller's state "deliver".                      *)

Delivering(p) == poller[p].alive /\ poller[p].at = "deliver"
NoThread(p) == poller[p].mem.thread[poller[p].event] = 0
NoParent(p) == poller[p].mem.parent[poller[p].event] = 0
\* A flash mass is public even where organized events go to private threads.
Mode(p) == IF delivery = "calendar" /\ kind[poller[p].event] # "organized"
           THEN "message" ELSE delivery

\* Back to the caller; checkRestoredEvents forgets that it had removed a post
\* once the event is fully announced again.
Resume(q) ==
  LET m == q.mem
      back == q.then = "restored" /\ Announced(m, q.event) /\ m.pending[q.event] # "ambiguous"
  IN Settled([q EXCEPT !.at = q.then, !.event = 0, !.detail = 0,
                       !.mem.removed = IF back THEN @ \ {q.event} ELSE @])

\* Mutant of Fail: a failure that is only logged.
FailUnrecorded(p) ==
  LET q == Resume(poller[p])
  IN Is(p, q) /\ Save(q)

\* fail(stage): the event waits for the next cycle.
Fail(p) ==
  LET q == Resume([poller[p] EXCEPT !.mem.pending[poller[p].event] = "failed"])
  IN Is(p, q) /\ Save(q)

Posted(e, thread) ==
  post' = [post EXCEPT ![e] = Append(@, [thread |-> thread, cards |-> 0, shows |-> 0])]
Gone(e, i) == post[e][i].thread = "deleted"

\* A call fails, or the thread is locked and the card is refused.
DeliverFails(p) ==
  LET q == poller[p]  i == q.mem.thread[q.event]
  IN /\ Delivering(p)
     /\ \/ Spend("faults")
        \/ ~NoThread(p) /\ post[q.event][i].thread = "locked" /\ UNCHANGED left
        \/ ~NoThread(p) /\ Mode(p) = "forum" /\ Gone(q.event, i) /\ UNCHANGED left
     /\ Fail(p)
     /\ UNCHANGED <<post, history, World>>

\* A recorded thread or parent that Discord no longer knows is forgotten.
ForgetGone(p) ==
  LET q == poller[p]  m == q.mem  e == q.event
      threadGone == m.thread[e] # 0 /\ Gone(e, m.thread[e])
      parentGone == m.thread[e] = 0 /\ m.parent[e] # 0 /\ Gone(e, m.parent[e])
  IN /\ Delivering(p) /\ Mode(p) # "forum"
     /\ \/ threadGone /\ Is(p, [q EXCEPT !.mem.thread[e] = 0])
        \/ parentGone /\ Is(p, [q EXCEPT !.mem.parent[e] = 0])
     /\ UNCHANGED <<file, World>> /\ Quiet

\* Mutant of SendParent: the ping is not saved before the next call.
SendParentUnsaved(p) ==
  LET q == poller[p]  e == q.event
  IN /\ Delivering(p) /\ Mode(p) = "message" /\ NoThread(p) /\ NoParent(p)
     /\ Posted(e, "none")
     /\ Is(p, [q EXCEPT !.mem.parent[e] = Len(post[e]) + 1])
     /\ UNCHANGED <<file, history, left, World>>

\* message: the role-wide ping, recorded and saved before the thread is opened.
SendParent(p) ==
  LET q == poller[p]  e == q.event
      sent == [q EXCEPT !.mem.parent[e] = Len(post[e]) + 1]
  IN /\ Delivering(p) /\ Mode(p) = "message" /\ NoThread(p) /\ NoParent(p)
     /\ Posted(e, "none")
     /\ Is(p, sent) /\ Save(sent)
     /\ UNCHANGED <<history, left, World>>

\* message: a thread belongs to its parent message, so one that exists is recovered.
OpenThread(p) ==
  LET q == poller[p]  e == q.event  i == q.mem.parent[e]
  IN /\ Delivering(p) /\ Mode(p) = "message" /\ NoThread(p) /\ ~NoParent(p) /\ ~Gone(e, i)
     /\ post' = [post EXCEPT ![e][i].thread = IF @ = "none" THEN "open" ELSE @]
     /\ Is(p, [q EXCEPT !.mem.thread[e] = i])
     /\ UNCHANGED <<file, history, left, World>>

\* calendar: a private thread, recorded in memory only.
CreatePrivate(p) ==
  LET q == poller[p]  e == q.event
  IN /\ Delivering(p) /\ Mode(p) = "calendar" /\ NoThread(p)
     /\ Posted(e, "open")
     /\ Is(p, [q EXCEPT !.mem.thread[e] = Len(post[e]) + 1])
     /\ UNCHANGED <<file, history, left, World>>

\* Mutant of CreateForumPost: the post is recorded before it is created.
CreateForumPostEarly(p) ==
  LET q == poller[p]  e == q.event
      created == [q EXCEPT !.mem.thread[e] = Len(post[e]) + 1]
  IN /\ Delivering(p) /\ Mode(p) = "forum" /\ NoThread(p)
     /\ Is(p, created) /\ Save(created)
     /\ UNCHANGED <<post, history, left, World>>

\* forum: a forum post, recorded and saved.
CreateForumPost(p) ==
  LET q == poller[p]  e == q.event
      created == [q EXCEPT !.mem.thread[e] = Len(post[e]) + 1]
  IN /\ Delivering(p) /\ Mode(p) = "forum" /\ NoThread(p)
     /\ Posted(e, "open")
     /\ Is(p, created) /\ Save(created)
     /\ UNCHANGED <<history, left, World>>

Unsure(p) ==
  LET q == Resume([poller[p] EXCEPT !.mem.pending[poller[p].event] = "ambiguous"])
  IN Is(p, q) /\ Save(q)

\* Discord executes one of the three and the answer is lost.  A forum post that
\* may exist is never tried again; the others are.
AnswerLost(p) ==
  LET e == poller[p].event
  IN /\ Delivering(p) /\ NoThread(p) /\ (Mode(p) = "message" => NoParent(p))
     /\ Spend("faults")
     /\ Posted(e, IF Mode(p) = "message" THEN "none" ELSE "open")
     /\ IF Mode(p) = "forum" THEN Unsure(p) ELSE Fail(p)
     /\ Remember({e}, "lost")
     /\ UNCHANGED World

ForumRefuses(p) ==
  /\ Delivering(p) /\ Mode(p) = "forum" /\ NoThread(p)
  /\ Spend("faults")
  /\ Unsure(p)
  /\ UNCHANGED <<post, history, World>>

\* The signup card (in a forum: the controls of the starter message) with the
\* detail that was read at the start.
Carded(p) ==
  LET q == poller[p]  e == q.event  i == q.mem.thread[e]
  IN post' = [post EXCEPT ![e][i] =
                [@ EXCEPT !.shows = q.detail,
                          !.cards = IF Mode(p) = "forum" THEN 1 ELSE post[e][i].cards + 1]]
CardFits(p) ==
  LET q == poller[p]
  IN Delivering(p) /\ ~NoThread(p) /\ post[q.event][q.mem.thread[q.event]].thread = "open"

\* Mutant of SendCard: the card is stamped with the revision of now, not of the detail it shows.
SendCardFresh(p) ==
  LET q == poller[p]  e == q.event
      done == Resume([q EXCEPT !.mem.card[e] = TRUE, !.mem.shown[e] = rev[e],
                               !.mem.pending[e] = "none"])
  IN /\ CardFits(p) /\ Carded(p)
     /\ Is(p, done) /\ Save(done)
     /\ UNCHANGED <<history, left, World>>

SendCard(p) ==
  LET q == poller[p]  e == q.event
      done == Resume([q EXCEPT !.mem.card[e] = TRUE, !.mem.shown[e] = q.detail,
                               !.mem.pending[e] = "none"])
  IN /\ CardFits(p) /\ Carded(p)
     /\ Is(p, done) /\ Save(done)
     /\ UNCHANGED <<history, left, World>>

CardLost(p) ==
  /\ CardFits(p) /\ Spend("faults") /\ Carded(p)
  /\ Fail(p)
  /\ UNCHANGED <<history, World>>

----------------------------------------------------------------------------
(* The rest of the cycle: closed, restored and changed events.             *)

Phase(p, at) == poller[p].alive /\ poller[p].at = at
Busy(p, at) == Phase(p, at) /\ poller[p].todo # <<>>
After(q) == Settled([q EXCEPT !.todo = Tail(@)])

\* loadEventRevisions, of every event with a recorded thread.
ReadRevisions(p) ==
  LET q == poller[p]
  IN /\ Phase(p, "revisions")
     /\ Is(p, Settled([q EXCEPT !.at = "close", !.known = TRUE, !.todo = InOrder(Mapped(q.mem)),
                                !.seen = [e \in Event |->
                                            IF e \in Mapped(q.mem)
                                            THEN [status |-> status[e], rev |-> rev[e]]
                                            ELSE Unseen[e]]]))
     /\ UNCHANGED <<file, World>> /\ Quiet

RevisionsFail(p) ==
  /\ Phase(p, "revisions") /\ Spend("faults")
  /\ Is(p, Settled([poller[p] EXCEPT !.at = "close", !.todo = <<>>]))
  /\ UNCHANGED <<post, file, history, World>>

\* forgetEventThread
Forgotten(q, e) ==
  [q EXCEPT !.mem.thread[e] = 0, !.mem.parent[e] = 0, !.mem.card[e] = FALSE,
            !.mem.shown[e] = 0, !.mem.pending[e] = "none"]

Closing(p, s) == Busy(p, "close") /\ poller[p].seen[Head(poller[p].todo)].status = s
Locked(e, i) == post' = [post EXCEPT ![e][i].thread = "locked"]

\* Neither archived nor at its end: nothing to do.
KeepOpen(p) ==
  /\ Closing(p, "scheduled") \/ Closing(p, "live")
  /\ Is(p, After(poller[p]))
  /\ UNCHANGED <<file, World>> /\ Quiet

\* A thread that is gone is forgotten, whatever was to be done to it; a deleted
\* post is forgotten in a step of its own.
ForgetClosed(p) ==
  LET q == poller[p]  e == Head(q.todo)
      forgotten == After(Forgotten(q, e))
  IN /\ Closing(p, "archived") \/ Closing(p, "cancelled") \/ Closing(p, "over")
     /\ Gone(e, q.mem.thread[e])
     /\ Is(p, forgotten) /\ Save(forgotten)
     /\ UNCHANGED World /\ Quiet

Removing(q, e) == [q EXCEPT !.mem.removed = @ \cup {e}]

\* Archived: recorded as removed, then the announcement is deleted ...
DeletePost(p) ==
  LET q == poller[p]  e == Head(q.todo)  i == q.mem.thread[e]
  IN /\ Closing(p, "archived") /\ ~Gone(e, i)
     /\ post' = [post EXCEPT ![e][i].thread = "deleted"]
     /\ Is(p, Removing(q, e)) /\ Save(Removing(q, e))
     /\ UNCHANGED <<history, left, World>>

\* ... or, when Discord refuses, locked; when it refuses that too, kept.
DeleteRefused(p) ==
  LET q == poller[p]  e == Head(q.todo)  i == q.mem.thread[e]
      locked == After(Forgotten(Removing(q, e), e))
      kept == After(Removing(q, e))
  IN /\ Closing(p, "archived") /\ ~Gone(e, i) /\ Spend("faults")
     /\ \/ Locked(e, i) /\ Is(p, locked) /\ Save(locked) /\ Remember({e}, "lost")
        \/ UNCHANGED <<post, history>> /\ Is(p, kept) /\ Save(kept)
     /\ UNCHANGED World

\* Over: the final card, then the thread is locked and forgotten.
LockOver(p) ==
  LET q == poller[p]  e == Head(q.todo)  i == q.mem.thread[e]
      forgotten == After(Forgotten(q, e))
  IN /\ Closing(p, "over") /\ ~Gone(e, i)
     /\ post' = [post EXCEPT ![e][i] = [@ EXCEPT !.thread = "locked", !.shows = rev[e]]]
     /\ Is(p, forgotten) /\ Save(forgotten)
     /\ UNCHANGED <<history, left, World>>

\* Cancelled and not locked yet: the card is refreshed from a detail read now,
\* stamped with that detail's revision, and the thread is locked and kept.
LockCancelled(p) ==
  LET q == poller[p]  e == Head(q.todo)  i == q.mem.thread[e]
      stamped == IF q.mem.card[e] THEN [q EXCEPT !.mem.shown[e] = rev[e]] ELSE q
  IN /\ Closing(p, "cancelled") /\ post[e][i].thread = "open"
     /\ post' = [post EXCEPT ![e][i] =
                   [@ EXCEPT !.thread = "locked",
                             !.shows = IF q.mem.card[e] THEN rev[e] ELSE post[e][i].shows]]
     /\ Is(p, After(stamped)) /\ Save(stamped)
     /\ UNCHANGED <<history, left, World>>

\* Cancelled and locked: stamped with the revision of the list.
StampCancelled(p) ==
  LET q == poller[p]  e == Head(q.todo)
      stamped == [q EXCEPT !.mem.shown[e] = q.seen[e].rev]
  IN /\ Closing(p, "cancelled") /\ post[e][q.mem.thread[e]].thread = "locked"
     /\ Is(p, After(stamped)) /\ Save(stamped)
     /\ UNCHANGED World /\ Quiet

\* Mutant of LockRefused: the thread is forgotten although Discord refused to lock it.
LockRefusedForgets(p) ==
  LET q == poller[p]  forgotten == After(Forgotten(q, Head(q.todo)))
  IN /\ Closing(p, "over") \/ Closing(p, "cancelled")
     /\ Spend("faults")
     /\ Is(p, forgotten) /\ Save(forgotten)
     /\ UNCHANGED <<post, history, World>>

\* Discord refuses a lock, or the thread cannot be read: a cancelled event whose
\* thread cannot be read is forgotten.
LockRefused(p) ==
  LET q == poller[p]  e == Head(q.todo)
      forgotten == After(Forgotten(q, e))
  IN /\ Closing(p, "over") \/ Closing(p, "cancelled")
     /\ Spend("faults")
     /\ \/ Is(p, After(q)) /\ UNCHANGED <<file, history>>
        \/ /\ Closing(p, "cancelled")
           /\ Is(p, forgotten) /\ Save(forgotten)
           /\ Remember({e}, "lost")
     /\ UNCHANGED <<post, World>>

\* checkRestoredEvents: an event whose announcement was removed and which is back
\* is announced again.
Restore(p) ==
  LET q == poller[p]  e == Head(q.todo)
      rest == [q EXCEPT !.todo = Tail(@), !.then = "restored"]
      next == IF status[e] \in {"scheduled", "live"} /\ q.mem.thread[e] = 0
              THEN Attempt(rest, e) ELSE rest
  IN /\ Busy(p, "restored")
     /\ Is(p, IF next.at = "deliver" THEN next ELSE Settled(next))
     /\ IF next.mem # q.mem THEN Save(next) ELSE UNCHANGED file
     /\ UNCHANGED World /\ Quiet

\* checkEventRosterSync: a revision that is not the one on the card rewrites the
\* card, which reopens the thread, and stamps it with the revision of the list.
Sync(p) ==
  LET q == poller[p]  e == Head(q.todo)  i == q.mem.thread[e]
      due == /\ q.seen[e].status \in {"scheduled", "live", "archived"}
             /\ q.mem.shown[e] # q.seen[e].rev /\ ~Gone(e, i)
      stamped == IF due /\ q.mem.card[e]
                 THEN [q EXCEPT !.mem.shown[e] = q.seen[e].rev] ELSE q
  IN /\ Busy(p, "roster")
     /\ post' = IF due THEN [post EXCEPT ![e][i] =
                               [@ EXCEPT !.thread = "open",
                                         !.shows = IF q.mem.card[e] THEN rev[e] ELSE post[e][i].shows]]
                ELSE post
     /\ Is(p, After(stamped))
     /\ IF stamped.mem # q.mem THEN Save(stamped) ELSE UNCHANGED file
     /\ UNCHANGED <<history, left, World>>

SyncFails(p) ==
  /\ Busy(p, "roster") /\ Spend("faults")
  /\ Is(p, After(poller[p]))
  /\ UNCHANGED <<post, file, history, World>>

----------------------------------------------------------------------------
(* The manager.                                                            *)

Users == <<status, rev, kind, post, delivery>>
InFlight(p) == poller[p].alive /\ (poller[p].at # "idle" \/ poller[p].boot # "done")

\* ensure(): new Poller loads the checkpoint; start() polls, and seeds first.
Ensure(p) ==
  /\ registered = None /\ ~poller[p].alive
  /\ registered' = p
  /\ poller' = [poller EXCEPT ![p] = Idle(file, IF file.seeded THEN "poll" ELSE "list")]
  /\ history' = [e \in Event |-> IF \E q \in Poller : InFlight(q)
                                 THEN history[e] \cup {"overlap"} ELSE history[e]]
  /\ UNCHANGED <<file, left, Users>>

\* forget(): the poller leaves the map and its timers stop; a cycle in flight goes
\* on, and once more when a pollNow had come during it.
Forget(again) ==
  /\ registered # None /\ Spend("rejoins")
  /\ again => InFlight(registered)
  /\ registered' = None
  /\ LET q == poller[registered]
         last == IF again THEN [q EXCEPT !.boot = "poll"] ELSE q
     IN poller' = [poller EXCEPT ![registered] =
                     IF last.at = "idle" /\ last.boot = "done" THEN Stopped ELSE last]
  /\ UNCHANGED <<file, history, Users>>

\* The bot dies, possibly after a create that it had not recorded.
Unrecorded(e) ==
  \E p \in Poller : poller[p].alive /\ poller[p].mem.thread[e] \notin {0, file.thread[e]}

Crash ==
  /\ Spend("crashes") /\ registered # None
  /\ poller' = [p \in Poller |-> Stopped]
  /\ registered' = None
  /\ \/ /\ UNCHANGED post
        /\ history' = [e \in Event |-> IF Unrecorded(e) THEN history[e] \cup {"lost"} ELSE history[e]]
     \/ \E p \in Poller :
          /\ Delivering(p) /\ NoThread(p) /\ (Mode(p) = "message" => NoParent(p))
          /\ Posted(poller[p].event, IF Mode(p) = "message" THEN "none" ELSE "open")
          /\ Remember({poller[p].event}, "lost")
  /\ UNCHANGED <<status, rev, kind, file, delivery>>

Deliver(p) ==
  \/ DeliverFails(p) \/ ForgetGone(p) \/ SendParent(p) \/ OpenThread(p) \/ CreatePrivate(p)
  \/ CreateForumPost(p) \/ AnswerLost(p) \/ ForumRefuses(p) \/ SendCard(p) \/ CardLost(p)

Close(p) ==
  \/ KeepOpen(p) \/ ForgetClosed(p) \/ DeletePost(p) \/ DeleteRefused(p) \/ LockOver(p)
  \/ LockCancelled(p) \/ StampCancelled(p) \/ LockRefused(p)

Step(p) ==
  \/ BootLists(p) \/ BootAdopts(p) \/ BootFails(p) \/ SeedAgain(p) \/ SeedAdopts(p)
  \/ List(p) \/ ListFails(p) \/ Take(p) \/ LookupFails(p) \/ Advance(p) \/ Deliver(p)
  \/ ReadRevisions(p) \/ RevisionsFail(p) \/ Close(p) \/ Restore(p)
  \/ Sync(p) \/ SyncFails(p)

Next ==
  \/ \E e \in Event : \/ \E flash \in BOOLEAN : Create(e, flash)
                      \/ Change(e) \/ WindowCloses(e)
  \/ \E p \in Poller : Step(p) \/ Ensure(p)
  \/ \E again \in BOOLEAN : Forget(again)
  \/ Crash

Spec == Init /\ [][Next]_vars

\* Timers fire, awaits return, undo windows close and reconcile() runs; nothing is
\* promised about users, faults, crashes or the guild's membership.
FairSpec ==
  /\ Spec
  /\ \A p \in Poller : WF_vars(Step(p))
  /\ WF_vars(\E p \in Poller : Ensure(p))
  /\ \A e \in Event : WF_vars(WindowCloses(e))

----------------------------------------------------------------------------
(* Properties.                                                             *)

PostState == [thread : {"none", "open", "locked", "deleted"}, cards : Nat, shows : Nat]
Memory ==
  [seeded : BOOLEAN, cursor : {0} \cup Event, parent : [Event -> Nat], thread : [Event -> Nat],
   card : [Event -> BOOLEAN], shown : [Event -> Nat],
   pending : [Event -> {"none", "undo_window", "failed", "ambiguous"}], removed : SUBSET Event]

Sound(m) ==
  /\ m \in Memory
  /\ \A e \in Event : /\ m.thread[e] <= Len(post[e]) /\ m.parent[e] <= Len(post[e])
\* The state is well-formed: every thread and parent message that a checkpoint, saved
\* or in memory, remembers was posted, and the registered poller runs.
TypeOK ==
  /\ \A e \in Event : post[e] \in Seq(PostState)
  /\ Sound(file) /\ \A p \in Poller : Sound(poller[p].mem)
  /\ registered \in {None} \cup Poller
  /\ registered # None => poller[registered].alive

\* An event is announced once: a second announcement stands beside the first only
\* after an answer was lost, the bot died, or the guild was rejoined, in between
\* (the saves of announceEvent before each later call, its recovery of the parent
\* and the thread, and the retries of checkNewEvents).
Standing(e) == {i \in DOMAIN post[e] : post[e][i].thread # "deleted"}
AnnouncedOnce ==
  \A e \in Event : Cardinality(Standing(e)) > 1 => history[e] \cap {"lost", "overlap"} # {}

\* The checkpoint never moves past an event it knows nothing of: one at or below
\* the cursor that was never seen to end was announced, waits for a retry, is
\* given up as ambiguous, or was there before the guild was seeded (the cursor of
\* checkNewEvents moves after the batch, and only after a full scan).
NothingBehindTheCursor ==
  \A e \in Event :
    e <= file.cursor /\ status[e] = "scheduled" /\ history[e] \cap {"left", "folded"} = {}
      => Announced(file, e) \/ file.pending[e] # "none"

\* What the bot knows now.
Known == IF registered = None THEN file ELSE poller[registered].mem

\* Every event that stays scheduled, and was not there before the guild was seeded,
\* is announced in the end or given up as ambiguous: a failure or a restart at any
\* point delays it (pendingAnnounces and the cursor of checkNewEvents).
NothingIsSwallowed ==
  \A e \in Event :
    []<>(\/ status[e] # "scheduled" \/ history[e] \cap {"left", "folded"} # {}
         \/ Announced(Known, e) \/ Known.pending[e] = "ambiguous")

\* No thread of an event that ended or was archived stays open, unless the bot lost
\* track of it with an answer or a reading, or by being stopped twice over
\* (checkClosedEvents, against the refreshes of checkEventRosterSync).
ThreadsFollowEvents ==
  \A e \in Event :
    <>[](\/ status[e] \in {"absent", "scheduled", "live"}
         \/ history[e] \cap {"lost", "overlap"} # {}
         \/ \A i \in DOMAIN post[e] : post[e][i].thread # "open")

\* A signup card catches up with the event it stands for (the revision stamped by
\* announceEvent and checkEventRosterSync is never newer than the card).
CardsCatchUp ==
  \A e \in Event :
    <>[](\/ status[e] \notin {"scheduled", "live"} \/ ~Announced(Known, e)
         \/ Gone(e, Known.thread[e]) \/ post[e][Known.thread[e]].shows = rev[e])

\* The checkpoint that counts: what the pollers of the guild remember, and the file
\* when none runs.
Current == IF \E p \in Poller : poller[p].alive
           THEN {poller[p].mem : p \in {o \in Poller : poller[o].alive}} ELSE {file}

\* A card that does not show the present revision has another one stamped on it, so
\* roster sync will rewrite it: no stamp runs ahead of its card, over readings that
\* were stale, answers that were lost and crashes (the safety half of CardsCatchUp).
\* The card of a cancelled event is left to its restore.
NoStampHidesAChange ==
  \A m \in Current, e \in Event :
    /\ Announced(m, e) /\ status[e] # "cancelled" /\ "overlap" \notin history[e]
    /\ m.shown[e] = rev[e]
    => post[e][m.thread[e]].shows = rev[e]

\* A thread that is open is the one on record, so the end of its event closes it
\* (the safety half of ThreadsFollowEvents).
NoThreadIsForgotten ==
  \A m \in Current, e \in Event : \A i \in DOMAIN post[e] :
    post[e][i].thread = "open" /\ history[e] \cap {"lost", "overlap"} = {} => i = m.thread[e]

\* The thread of an event that is on again is open again (the stamp of
\* closeCancelledEvent and the refresh of checkEventRosterSync).
ThreadsReopen ==
  \A e \in Event :
    []<>(\/ status[e] \notin {"scheduled", "live"} \/ ~Announced(Known, e)
         \/ post[e][Known.thread[e]].thread = "open")
============================================================================
