------------------------------ MODULE BotFeeds ------------------------------
(***************************************************************************)
(* The forum posts and giveaway messages the Discord bot's poller keeps    *)
(* (services/poller.ts, services/split-forum.ts): VOD posts of events,     *)
(* which are claimed in the backend before they are created; giveaways,    *)
(* announced behind a cursor, recorded with the backend and updated with   *)
(* their result; and split posts, which follow the split through its       *)
(* changes.  The steps of pollOnce run one after another; users change the *)
(* rows between any two of them, any call may fail or lose its answer, and *)
(* the bot may restart.                                                    *)
(*                                                                         *)
(* The checkpoint is saved in the same breath as every change of it, so    *)
(* the memory survives a restart.  A post is its place among the posts     *)
(* that Discord has ever made for its row.                                 *)
(***************************************************************************)
EXTENDS Naturals, FiniteSets, Sequences

CONSTANTS Giveaway,      \* giveaway ids, 1..n, in the order of creation
          MaxAttempts,   \* SPLIT_RETRY_MAX_ATTEMPTS
          Budgets        \* bounds on the surroundings, one record per instance

Counter == {"vods", "giveaways", "draws", "splits", "archives", "faults", "crashes"}

ASSUME FeedsAssumption ==
  /\ IsFiniteSet(Giveaway) /\ Giveaway = 1..Cardinality(Giveaway)
  /\ MaxAttempts \in Nat \ {0}
  /\ Budgets \subseteq [Counter -> Nat]

VARIABLES
  vod,        \* backend: an event's VOD delivery; Discord: its posts
  giveaway,   \* backend: the giveaways; Discord: their messages
  split,      \* backend: a split and its split_discord_sync row; Discord: its posts
  memory,     \* PollerState
  poller,     \* the poller's cycle
  history,    \* what went wrong, for the properties
  left        \* what is left of the budget

vars == <<vod, giveaway, split, memory, poller, history, left>>

Spend(what) == left[what] > 0 /\ left' = [left EXCEPT ![what] = @ - 1]
Mishap(what) == history' = history \cup {what}

\* queue: the giveaways to announce; todo: those to acknowledge or to update; then:
\* where the acknowledgements lead; read: the row last read.
Asleep == [at |-> "idle", queue |-> {}, todo |-> {}, item |-> 0, then |-> "idle", blocked |-> FALSE,
           read |-> <<>>]
Goes(to) == poller' = [poller EXCEPT !.at = to]
Enters(phase) == poller' = [Asleep EXCEPT !.at = phase]
\* What the backend answers of a row: all but what only Discord knows.
Row(row) == [f \in DOMAIN row \ {"posts", "sent", "shown", "winners"} |-> row[f]]
Reads(to, row) == poller' = [poller EXCEPT !.at = to, !.read = row]

NoMessage == 0
Init ==
  /\ vod = [status |-> "none", thread |-> 0, archived |-> FALSE, posts |-> <<>>]
  /\ giveaway = [g \in Giveaway |-> [is |-> "absent", message |-> NoMessage,
                                     sent |-> 0, shown |-> {}, winners |-> 0]]
  /\ split \in [version : {0}, final : {FALSE}, archived : {FALSE}, linked : BOOLEAN,
                thread : {0}, summary : {NoMessage}, posts : {<<>>}]
  /\ memory = [cursor |-> 0, posted |-> {}, unacked |-> [g \in Giveaway |-> NoMessage],
               announced |-> {}, splitCursor |-> 0, attempts |-> 0]
  /\ poller = Asleep
  /\ history = {}
  /\ left \in Budgets

Standing(posts) == {i \in DOMAIN posts : ~posts[i].deleted}

Wake ==
  /\ poller.at = "idle"
  /\ poller' = [Asleep EXCEPT !.at = "vod delete"]
  /\ UNCHANGED <<vod, giveaway, split, memory, history, left>>
Crash ==
  /\ Spend("crashes")
  /\ poller' = Asleep
  /\ IF poller.at = "split thread id" THEN Mishap("post lost") ELSE UNCHANGED history
  /\ UNCHANGED <<vod, giveaway, split, memory>>

----------------------------------------------------------------------------
(* VOD posts.  In the backend: vod_forum_post_status and the endpoints     *)
(* that move it.                                                           *)

\* vod_delivery_eligible, but for a cancelled event and a flash mass in its undo
\* window, which only put the claim off.
Eligible == ~vod.archived

RequestVod ==
  /\ vod.status = "none" /\ Spend("vods")
  /\ vod' = [vod EXCEPT !.status = "pending"]
  /\ UNCHANGED <<giveaway, split, memory, poller, history>>
ArchiveEvent ==
  /\ vod.status # "none" /\ ~vod.archived /\ Spend("archives")
  /\ vod' = [vod EXCEPT !.archived = TRUE]
  /\ UNCHANGED <<giveaway, split, memory, poller, history>>
\* apply_unarchive requeues only a deletion that was confirmed.
Deleting == poller.at \in {"vod remove", "vod confirm"}
UnarchiveEvent ==
  /\ vod.archived /\ Spend("archives")
  /\ vod' = [vod EXCEPT !.archived = FALSE,
                        !.status = IF @ = "deleted" THEN "pending" ELSE @,
                        !.thread = IF vod.status = "deleted" THEN 0 ELSE @]
  /\ history' = IF vod.status = "created" /\ (Deleting \/ vod.posts[vod.thread].deleted)
                  THEN history \cup {"restored while deleting"} ELSE history
  /\ UNCHANGED <<giveaway, split, memory, poller>>
\* retry_vod_forum_post: an operator saw that no post exists, with the bot stopped.
OperatorRetries ==
  /\ vod.status = "attempted" /\ Eligible /\ Standing(vod.posts) = {}
  /\ poller.at = "idle" /\ Spend("vods")
  /\ vod' = [vod EXCEPT !.status = "pending"]
  /\ UNCHANGED <<giveaway, split, memory, poller, history>>

\* Mutant of ListArchivedVods: every recorded post is listed.
ListArchivedVodsAll ==
  /\ poller.at = "vod delete"
  /\ IF vod.status = "created" /\ vod.thread # 0
       THEN Reads("vod remove", Row(vod)) ELSE Enters("vod create")
  /\ UNCHANGED <<vod, giveaway, split, memory, history, left>>
\* deleteArchivedVodForumPosts
ListArchivedVods ==
  /\ poller.at = "vod delete"
  /\ IF vod.archived /\ vod.status = "created" /\ vod.thread # 0
       THEN Reads("vod remove", Row(vod)) ELSE Enters("vod create")
  /\ UNCHANGED <<vod, giveaway, split, memory, history, left>>
\* Mutant of RemoveVod: a post that is gone already is a failure.
RemoveVodOnce ==
  /\ poller.at = "vod remove"
  /\ IF vod.posts[poller.read.thread].deleted THEN Enters("vod create") /\ UNCHANGED vod
     ELSE vod' = [vod EXCEPT !.posts[poller.read.thread].deleted = TRUE] /\ Goes("vod confirm")
  /\ UNCHANGED <<giveaway, split, memory, history, left>>
\* An unknown channel counts as removed.
RemoveVod ==
  /\ poller.at = "vod remove"
  /\ vod' = [vod EXCEPT !.posts[poller.read.thread].deleted = TRUE]
  /\ Goes("vod confirm")
  /\ UNCHANGED <<giveaway, split, memory, history, left>>
\* record_vod_forum_post_deleted accepts the exact thread of an archived event.
ConfirmVodRemoved ==
  /\ poller.at = "vod confirm"
  /\ vod' = IF vod.archived /\ vod.status = "created" /\ vod.thread = poller.read.thread
              THEN [vod EXCEPT !.status = "deleted"] ELSE vod
  /\ Enters("vod create")
  /\ UNCHANGED <<giveaway, split, memory, history, left>>
VodRemovalFails ==
  /\ poller.at \in {"vod delete", "vod remove", "vod confirm"} /\ Spend("faults")
  /\ Enters("vod create")
  /\ UNCHANGED <<vod, giveaway, split, memory, history>>

\* checkVodForumPosts: the claim is committed before Discord is called.
ListPendingVods ==
  /\ poller.at = "vod create"
  /\ Goes(IF vod.status = "pending" /\ Eligible THEN "vod claim" ELSE "give ack")
  /\ UNCHANGED <<vod, giveaway, split, memory, history, left>>
ClaimVod ==
  /\ poller.at = "vod claim"
  /\ IF vod.status = "pending" /\ Eligible
       THEN vod' = [vod EXCEPT !.status = "attempted"] /\ Goes("vod post")
       ELSE Enters("give ack") /\ UNCHANGED vod
  /\ UNCHANGED <<giveaway, split, memory, history, left>>
NewPost(version) == [deleted |-> FALSE, locked |-> FALSE, shows |-> version]
PostVod ==
  /\ poller.at = "vod post"
  /\ vod' = [vod EXCEPT !.posts = Append(@, NewPost(0))]
  /\ Goes("vod record")
  /\ UNCHANGED <<giveaway, split, memory, history, left>>
\* record_vod_forum_post_created; the post is the last one.
RecordVod ==
  /\ poller.at = "vod record"
  /\ vod' = IF vod.status = "attempted"
              THEN [vod EXCEPT !.status = "created", !.thread = Len(vod.posts)] ELSE vod
  /\ Enters("give ack")
  /\ UNCHANGED <<giveaway, split, memory, history, left>>
\* Mutant of VodFails: the claim of a failed delivery is given back.
VodFailsUnclaimed ==
  /\ poller.at \in {"vod create", "vod claim", "vod post", "vod record"} /\ Spend("faults")
  /\ vod' = [vod EXCEPT !.status = IF @ = "attempted" THEN "pending" ELSE @]
  /\ Enters("give ack")
  /\ UNCHANGED <<giveaway, split, memory, history>>
\* A failure: what was claimed stays claimed.
VodFails ==
  /\ poller.at \in {"vod create", "vod claim", "vod post", "vod record"} /\ Spend("faults")
  /\ Enters("give ack")
  /\ UNCHANGED <<vod, giveaway, split, memory, history>>
\* The call was carried out, its answer is lost.
VodAnswerLost ==
  /\ Spend("faults") /\ Enters("give ack")
  /\ \/ poller.at = "vod claim" /\ vod.status = "pending" /\ Eligible
        /\ vod' = [vod EXCEPT !.status = "attempted"]
     \/ poller.at = "vod post"
        /\ vod' = [vod EXCEPT !.posts = Append(@, NewPost(0))]
  /\ UNCHANGED <<giveaway, split, memory, history>>

----------------------------------------------------------------------------
(* Giveaways.                                                              *)

OpenGiveaway(g) ==
  /\ giveaway[g].is = "absent" /\ \A h \in 1..(g - 1) : giveaway[h].is # "absent"
  /\ Spend("giveaways")
  /\ giveaway' = [giveaway EXCEPT ![g].is = "open"]
  /\ UNCHANGED <<vod, split, memory, poller, history>>
\* Drawn, cancelled or expired without entries.
CloseGiveaway(g, outcome) ==
  /\ giveaway[g].is = "open" /\ Spend("draws")
  /\ giveaway' = [giveaway EXCEPT ![g].is = outcome]
  /\ UNCHANGED <<vod, split, memory, poller, history>>

Unacked == {g \in Giveaway : memory.unacked[g] # NoMessage}
First(S) == CHOOSE x \in S : \A y \in S : x <= y

\* ackUnackedGiveawayMessages, called first and again after every announcement.
StartAcks(then) == poller' = [poller EXCEPT !.at = "give acks", !.todo = Unacked', !.then = then]
BeginGiveaways ==
  /\ poller.at = "give ack"
  /\ poller' = [poller EXCEPT !.at = "give acks", !.todo = Unacked, !.then = "give list"]
  /\ UNCHANGED <<vod, giveaway, split, memory, history, left>>
AckGiveaway ==
  /\ poller.at = "give acks" /\ poller.todo # {}
  /\ LET g == First(poller.todo)
     IN  /\ giveaway' = [giveaway EXCEPT ![g].message = memory.unacked[g]]
         /\ memory' = [memory EXCEPT !.unacked[g] = NoMessage]
         /\ poller' = [poller EXCEPT !.todo = @ \ {g}]
  /\ UNCHANGED <<vod, split, history, left>>
AckFails ==
  /\ poller.at = "give acks" /\ poller.todo # {} /\ Spend("faults")
  /\ poller' = [poller EXCEPT !.todo = @ \ {First(@)}]
  /\ UNCHANGED <<vod, giveaway, split, memory, history>>
EndAcks ==
  /\ poller.at = "give acks" /\ poller.todo = {}
  /\ Goes(poller.then)
  /\ UNCHANGED <<vod, giveaway, split, memory, history, left>>

\* checkNewGiveaways: the giveaways above the cursor, oldest first.
NewGiveaways(cursor) == {g \in Giveaway : giveaway[g].is # "absent" /\ g > cursor}
ListGiveaways ==
  /\ poller.at = "give list"
  /\ poller' = [poller EXCEPT !.at = "give next", !.blocked = FALSE,
                              !.queue = NewGiveaways(memory.cursor)]
  /\ UNCHANGED <<vod, giveaway, split, memory, history, left>>
\* No list, or no channel to post in.
ListGiveawaysFails ==
  /\ poller.at = "give list" /\ Spend("faults")
  /\ Enters("results")
  /\ UNCHANGED <<vod, giveaway, split, memory, history>>
NextGiveaway ==
  /\ poller.at = "give next"
  /\ IF poller.queue = {} THEN Enters("results")
     ELSE LET g == First(poller.queue)
          IN  poller' = [poller EXCEPT !.item = g, !.queue = @ \ {g},
                          !.at = IF g \in memory.posted THEN "give cursor" ELSE "give send"]
  /\ UNCHANGED <<vod, giveaway, split, memory, history, left>>
\* Mutant of SendGiveaway: the backend is told first, and only then is the message remembered.
SendGiveawayUnsaved ==
  /\ poller.at = "give send"
  /\ LET g == poller.item
     IN  /\ giveaway' = [giveaway EXCEPT ![g].sent = @ + 1]
         /\ memory' = [memory EXCEPT !.unacked[g] = giveaway[g].sent + 1]
         /\ StartAcks("give cursor")
  /\ UNCHANGED <<vod, split, history, left>>
\* The message is remembered at once, then the backend is told.
SendGiveaway ==
  /\ poller.at = "give send"
  /\ LET g == poller.item
     IN  /\ giveaway' = [giveaway EXCEPT ![g].sent = @ + 1]
         /\ memory' = [memory EXCEPT !.posted = @ \cup {g},
                                     !.unacked[g] = giveaway[g].sent + 1]
         /\ StartAcks("give cursor")
  /\ UNCHANGED <<vod, split, history, left>>
\* Mutant of SendGiveawayFails: a failure does not hold the cursor back.
SendGiveawayFailsOpen ==
  /\ poller.at = "give send" /\ Spend("faults")
  /\ poller' = [poller EXCEPT !.at = "give next"]
  /\ UNCHANGED <<vod, giveaway, split, memory, history>>
SendGiveawayFails ==
  /\ poller.at = "give send" /\ Spend("faults")
  /\ poller' = [poller EXCEPT !.at = "give next", !.blocked = TRUE]
  /\ UNCHANGED <<vod, giveaway, split, memory, history>>
\* Sent, but the answer is lost, or the bot dies before it is handled.
SendGiveawayLost ==
  /\ poller.at = "give send" /\ Spend("faults")
  /\ giveaway' = [giveaway EXCEPT ![poller.item].sent = @ + 1]
  /\ poller' = [poller EXCEPT !.at = "give next", !.blocked = TRUE]
  /\ Mishap("message lost")
  /\ UNCHANGED <<vod, split, memory>>
MoveCursor ==
  /\ poller.at = "give cursor"
  /\ memory' = IF poller.blocked \/ poller.item <= memory.cursor THEN memory
               ELSE [memory EXCEPT !.cursor = poller.item]
  /\ Goes("give next")
  /\ UNCHANGED <<vod, giveaway, split, history, left>>

\* checkGiveawayResults: the posted ones whose result is not announced.
BeginResults ==
  /\ poller.at = "results"
  /\ poller' = [poller EXCEPT !.at = "result next",
                              !.todo = memory.posted \ memory.announced]
  /\ UNCHANGED <<vod, giveaway, split, memory, history, left>>
Announce(g) == memory' = [memory EXCEPT !.announced = @ \cup {g}]
\* The giveaway is read; without a recorded message there is nothing to edit.
ReadResult ==
  /\ poller.at = "result next" /\ poller.todo # {}
  /\ LET g == First(poller.todo)
         closed == giveaway[g].is # "open"
         bare == closed /\ giveaway[g].message = NoMessage
     IN  /\ poller' = [poller EXCEPT !.todo = @ \ {g}, !.item = g, !.read = Row(giveaway[g]),
                         !.at = IF closed /\ ~bare THEN "result edit" ELSE @]
         /\ IF bare THEN Announce(g) /\ Mishap("drawn unrecorded")
            ELSE UNCHANGED <<memory, history>>
  /\ UNCHANGED <<vod, giveaway, split, left>>
EditResult ==
  /\ poller.at = "result edit"
  /\ LET g == poller.item
     IN  /\ giveaway' = [giveaway EXCEPT ![g].shown = @ \cup {poller.read.message}]
         /\ IF poller.read.is = "drawn" THEN Goes("result winner") /\ UNCHANGED memory
            ELSE Goes("result next") /\ Announce(g)
  /\ UNCHANGED <<vod, split, history, left>>
\* getTextChannel answers any failure with null, which counts as nothing to edit.
ChannelUnreached ==
  /\ poller.at = "result edit" /\ Spend("faults")
  /\ Announce(poller.item) /\ Mishap("channel unreached")
  /\ Goes("result next")
  /\ UNCHANGED <<vod, giveaway, split>>
\* Mutant of ResultFails: a message that could not be edited counts as announced.
ResultFailsAnnounced ==
  /\ poller.at = "result edit" /\ Spend("faults")
  /\ Goes("result next") /\ Announce(poller.item)
  /\ UNCHANGED <<vod, giveaway, split, history>>
\* Any other failure waits for the next cycle.
ResultFails ==
  /\ poller.at \in {"result next", "result edit"} /\ Spend("faults")
  /\ \/ poller.at = "result edit" /\ Goes("result next")
     \/ poller.at = "result next" /\ poller.todo # {}
        /\ poller' = [poller EXCEPT !.todo = @ \ {First(@)}]
  /\ UNCHANGED <<vod, giveaway, split, memory, history>>
\* The winner message is tried once: its failure is only logged.
PostWinner ==
  /\ poller.at = "result winner"
  /\ giveaway' = [giveaway EXCEPT ![poller.item].winners = @ + 1]
  /\ Announce(poller.item) /\ Goes("result next")
  /\ UNCHANGED <<vod, split, history, left>>
WinnerFails ==
  /\ poller.at = "result winner" /\ Spend("faults")
  /\ Announce(poller.item) /\ Goes("result next")
  /\ UNCHANGED <<vod, giveaway, split, history>>
EndResults ==
  /\ poller.at = "result next" /\ poller.todo = {}
  /\ Enters("split retry")
  /\ UNCHANGED <<vod, giveaway, split, memory, history, left>>

----------------------------------------------------------------------------
(* Split posts.  The version stands for updated_at, and grows with every   *)
(* change.                                                                 *)

\* Created, edited, finalized, archived or unarchived.
ChangeSplit(final, archived) ==
  /\ Spend("splits")
  /\ split' = [split EXCEPT !.version = @ + 1, !.final = @ \/ final, !.archived = archived]
  /\ UNCHANGED <<vod, giveaway, memory, poller, history>>

\* retryFailedSplits, once the delay is over; then the discovery of what changed
\* after the cursor.
Synced == [memory EXCEPT !.attempts = 0]
\* Mutant of Failed: one attempt too many.
FailedLate == [memory EXCEPT !.attempts = IF @ + 1 > MaxAttempts THEN 0 ELSE @ + 1]
\* recordSplitFailure gives up after MaxAttempts.
Failed == [memory EXCEPT !.attempts = IF @ + 1 >= MaxAttempts THEN 0 ELSE @ + 1]
RetrySplit ==
  /\ poller.at = "split retry" /\ memory.attempts > 0
  /\ poller' = [poller EXCEPT !.at = "split read"]
  /\ UNCHANGED <<vod, giveaway, split, memory, history, left>>
NoRetryYet ==
  /\ poller.at = "split retry"
  /\ Goes("split discover")
  /\ UNCHANGED <<vod, giveaway, split, memory, history, left>>
DiscoverSplit ==
  /\ poller.at = "split discover"
  /\ IF split.version > memory.splitCursor
       THEN poller' = [poller EXCEPT !.at = "split read", !.item = split.version]
       ELSE Enters("idle")
  /\ UNCHANGED <<vod, giveaway, split, memory, history, left>>
DiscoverFails ==
  /\ poller.at = "split discover" /\ Spend("faults")
  /\ Enters("idle")
  /\ UNCHANGED <<vod, giveaway, split, memory, history>>

\* Mutant of Ends: a split that failed is not kept for a retry.
EndsForgotten(outcome) ==
  /\ memory' = IF poller.item = 0 THEN outcome
               ELSE [Synced EXCEPT !.splitCursor = poller.item]
  /\ Enters("split discover")
\* The end of syncSplit; the cursor moves past what was discovered, synced or not.
Ends(outcome) ==
  /\ memory' = IF poller.item = 0 THEN outcome
               ELSE [outcome EXCEPT !.splitCursor = poller.item]
  /\ Enters("split discover")
\* A failed sync, with what went wrong, is retried unless it was the last attempt.
Fails(mishaps) ==
  /\ Ends(Failed)
  /\ history' = history \cup mishaps
                  \cup (IF memory.attempts + 1 >= MaxAttempts THEN {"given up"} ELSE {})

\* GET /splits/{id}/discord-sync
ReadSplit ==
  /\ poller.at = "split read"
  /\ Reads("split thread", Row(split))
  /\ UNCHANGED <<vod, giveaway, split, memory, history, left>>

Disappears(row) == row.archived /\ (~row.final \/ row.linked)
Post(n) == split.posts[n]
\* SplitForumAdapter.sync: the recorded post is fetched; one that was deleted
\* counts as none.
FetchPost ==
  /\ poller.at = "split thread"
  /\ LET row == poller.read
         there == row.thread # 0 /\ ~Post(row.thread).deleted
     IN  CASE Disappears(row) /\ there -> Goes("split delete")
           [] Disappears(row) /\ ~there -> Goes("split cursors")
           [] ~Disappears(row) /\ there ->
                Reads("split edit", [row EXCEPT !.summary = IF @ = NoMessage THEN row.thread
                                                           ELSE @])
           [] OTHER -> Goes("split create")
  /\ UNCHANGED <<vod, giveaway, split, memory, history, left>>
DeletePost ==
  /\ poller.at = "split delete"
  /\ split' = [split EXCEPT !.posts[poller.read.thread].deleted = TRUE]
  /\ Goes("split cursors")
  /\ UNCHANGED <<vod, giveaway, memory, history, left>>
\* A post that cannot be deleted is closed instead, unless it belongs to an event.
DeleteRefused ==
  /\ poller.at = "split delete" /\ Spend("faults")
  /\ IF poller.read.linked THEN Fails({}) /\ UNCHANGED split
     ELSE /\ split' = [split EXCEPT !.posts[poller.read.thread].locked = TRUE]
          /\ Goes("split cursors") /\ UNCHANGED <<memory, history>>
  /\ UNCHANGED <<vod, giveaway>>
SaveCursors ==
  /\ poller.at = "split cursors"
  /\ Ends(Synced)
  /\ UNCHANGED <<vod, giveaway, split, history, left>>
CreatePost ==
  /\ poller.at = "split create"
  /\ split' = [split EXCEPT !.posts = Append(@, NewPost(poller.read.version))]
  /\ Goes("split thread id")
  /\ UNCHANGED <<vod, giveaway, memory, history, left>>
CreatePostLost ==
  /\ poller.at = "split create" /\ Spend("faults")
  /\ split' = [split EXCEPT !.posts = Append(@, NewPost(poller.read.version))]
  /\ Fails({"post lost"})
  /\ UNCHANGED <<vod, giveaway>>
\* Mutant of SaveThread: the post is recorded only with the cursors, at the end.
SaveThreadLater ==
  /\ poller.at = "split thread id"
  /\ Reads("split edit", [poller.read EXCEPT !.thread = Len(split.posts),
                                             !.summary = Len(split.posts)])
  /\ UNCHANGED <<vod, giveaway, split, memory, history, left>>
\* The post is recorded at once; the summary of an earlier post stays on record.
SaveThread ==
  /\ poller.at = "split thread id"
  /\ split' = [split EXCEPT !.thread = Len(split.posts)]
  /\ Reads("split edit", [poller.read EXCEPT !.thread = Len(split.posts),
                                             !.summary = Len(split.posts)])
  /\ UNCHANGED <<vod, giveaway, memory, history, left>>
SaveThreadFails ==
  /\ poller.at = "split thread id" /\ Spend("faults")
  /\ Fails({"post lost"})
  /\ UNCHANGED <<vod, giveaway, split>>
\* updateSummary and updateForumTag; the starter message of a post is in no other.
EditPost ==
  /\ poller.at = "split edit" /\ poller.read.summary = poller.read.thread
  /\ ~Post(poller.read.thread).deleted
  /\ split' = [split EXCEPT !.posts[poller.read.thread].shows = poller.read.version]
  /\ Goes(IF poller.read.final THEN "split close" ELSE "split save")
  /\ UNCHANGED <<vod, giveaway, memory, history, left>>
ForeignSummary ==
  /\ poller.at = "split edit" /\ poller.read.summary # poller.read.thread
  /\ Fails({"foreign summary"})
  /\ UNCHANGED <<vod, giveaway, split, left>>
ClosePost ==
  /\ poller.at = "split close"
  /\ split' = [split EXCEPT !.posts[poller.read.thread].locked = TRUE]
  /\ Goes("split save")
  /\ UNCHANGED <<vod, giveaway, memory, history, left>>
SaveSync ==
  /\ poller.at = "split save"
  /\ split' = [split EXCEPT !.thread = poller.read.thread, !.summary = poller.read.summary]
  /\ Ends(Synced)
  /\ UNCHANGED <<vod, giveaway, history, left>>
SplitFails ==
  /\ poller.at \in {"split read", "split thread", "split cursors", "split create",
                    "split edit", "split close", "split save"}
  /\ Spend("faults") /\ Fails({})
  /\ UNCHANGED <<vod, giveaway, split>>

----------------------------------------------------------------------------
Vods ==
  ListArchivedVods \/ RemoveVod \/ ConfirmVodRemoved \/ VodRemovalFails
  \/ ListPendingVods \/ ClaimVod \/ PostVod \/ RecordVod \/ VodFails \/ VodAnswerLost
Giveaways ==
  BeginGiveaways \/ AckGiveaway \/ AckFails \/ EndAcks \/ ListGiveaways \/ ListGiveawaysFails
  \/ NextGiveaway \/ SendGiveaway \/ SendGiveawayFails \/ SendGiveawayLost \/ MoveCursor
  \/ BeginResults \/ ReadResult \/ EditResult \/ ChannelUnreached \/ ResultFails
  \/ PostWinner \/ WinnerFails \/ EndResults
Splits ==
  RetrySplit \/ NoRetryYet \/ DiscoverSplit \/ DiscoverFails \/ ReadSplit \/ FetchPost \/ DeletePost
  \/ DeleteRefused \/ SaveCursors \/ CreatePost \/ CreatePostLost \/ SaveThread
  \/ SaveThreadFails \/ EditPost \/ ForeignSummary \/ ClosePost \/ SaveSync \/ SplitFails
Cycle == Wake \/ Vods \/ Giveaways \/ Splits

Next ==
  \/ Cycle
  \/ RequestVod \/ ArchiveEvent \/ UnarchiveEvent \/ OperatorRetries
  \/ \E g \in Giveaway :
       OpenGiveaway(g) \/ \E outcome \in {"drawn", "cancelled"} : CloseGiveaway(g, outcome)
  \/ \E final, archived \in BOOLEAN : ChangeSplit(final, archived)
  \/ Crash

Spec == Init /\ [][Next]_vars

\* Timers fire, delays end and awaits return; nothing is promised about users,
\* faults and crashes.
FairSpec == Spec /\ WF_vars(Cycle) /\ SF_vars(RetrySplit)

----------------------------------------------------------------------------
(* Properties.                                                             *)

IsPosts(posts) == posts \in Seq([deleted : BOOLEAN, locked : BOOLEAN, shows : Nat])
\* The state is well-formed: recorded posts and messages are some that were made, a
\* result is announced only of a giveaway that was, the cursor of the splits is never
\* ahead of them, and a split that is retried has attempts left.
TypeOK ==
  /\ IsPosts(vod.posts) /\ vod.thread \in 0..Len(vod.posts)
  /\ IsPosts(split.posts) /\ {split.thread, split.summary} \subseteq 0..Len(split.posts)
  /\ memory.announced \subseteq memory.posted
  /\ memory.splitCursor \in 0..split.version /\ memory.attempts \in 0..(MaxAttempts - 1)
  /\ \A g \in Giveaway : {giveaway[g].message, memory.unacked[g]} \subseteq 0..giveaway[g].sent

\* An event never has two VOD posts, whatever fails and whenever the bot restarts
\* (the claim of checkVodForumPosts, committed before Discord's create call).
VodPostedOnce == Cardinality(Standing(vod.posts)) <= 1

\* An event that was taken out of the archive keeps the VOD post it is said to have,
\* unless that was being deleted (apply_unarchive against deleteArchivedVodForumPosts).
VodPostStands ==
  vod.status = "created" /\ ~vod.archived =>
    ~vod.posts[vod.thread].deleted \/ "restored while deleting" \in history

\* A giveaway is announced twice only after the answer to the first message was lost
\* (postedGiveawayIds of checkNewGiveaways, across failures of the backend).
GiveawaySentOnce == \A g \in Giveaway : giveaway[g].sent > 1 => "message lost" \in history

\* A split has two posts only after the first could not be recorded
\* (the saveState that follows createForumPost).
SplitPostedOnce == Cardinality(Standing(split.posts)) > 1 => "post lost" \in history

\* A requested VOD post is attempted, and that of an archived event is removed
\* (checkVodForumPosts).
VodsSettle ==
  []<>~(vod.status = "pending" /\ Eligible) /\ []<>~(vod.status = "created" /\ vod.archived)

\* Every giveaway is announced: no failure lets the cursor pass one that was not
\* (cursorBlocked of checkNewGiveaways).
GiveawaysAreSent == \A g \in Giveaway : []<>(giveaway[g].is = "absent" \/ g \in memory.posted)

\* The recorded message of an announced giveaway shows its result in the end, unless
\* it was drawn before the message was recorded or its channel could not be fetched
\* (checkGiveawayResults).
ResultShows(g) == giveaway[g].message \in giveaway[g].shown
ResultsAreShown ==
  \A g \in Giveaway :
    []<>(\/ giveaway[g].is \in {"absent", "open"} \/ ResultShows(g)
         \/ history \cap {"drawn unrecorded", "channel unreached"} # {})

\* The recorded post catches up with the split: gone or closed when the split is
\* archived, locked when it is final, and showing its last change, unless it was
\* recorded beside the summary of an earlier post, or was given up after
\* MaxAttempts failures (SplitForumAdapter.sync and the retries of checkSplitSync).
CaughtUp ==
  IF Disappears(split)
    THEN split.thread # 0 => Post(split.thread).deleted \/ Post(split.thread).locked
    ELSE split.thread # 0 /\ ~Post(split.thread).deleted
         /\ Post(split.thread).shows = split.version /\ (split.final => Post(split.thread).locked)
SplitsCatchUp ==
  []<>(split.version = 0 \/ CaughtUp \/ history \cap {"foreign summary", "given up"} # {})

\* The cursor of the giveaways never moves past one that was not posted, in
\* whatever order failures, lost answers and restarts come (the safety half of
\* GiveawaysAreSent: cursorBlocked and postedGiveawayIds of checkNewGiveaways).
NoGiveawayIsPassed == \A g \in Giveaway : g <= memory.cursor => g \in memory.posted

\* A giveaway whose result counts as announced is closed, and the message on record
\* shows it and always will (the safety half of ResultsAreShown: what
\* checkGiveawayResults drops, it never looks at again).
AnnouncedResultsStand ==
  \A g \in memory.announced :
    /\ giveaway[g].is \in {"drawn", "cancelled"}
    /\ ResultShows(g) \/ history \cap {"drawn unrecorded", "channel unreached"} # {}

\* A split that its post does not show is ahead of the cursor or kept for a retry,
\* although the cursor passes it, synced or not, and it may change while it is
\* synced (the safety half of SplitsCatchUp: checkSplitSync and retryFailedSplits).
NoSplitIsForgotten ==
  \/ split.version = 0 \/ CaughtUp
  \/ split.version > memory.splitCursor
  \/ memory.attempts > 0
  \/ "given up" \in history

\* A post that stands is one the backend may know of: none is left behind by a
\* deletion, an operator's retry or a lost answer where the next request of a VOD
\* post would make a second one (record_vod_forum_post_deleted, apply_unarchive).
NoStrayVodPost == Standing(vod.posts) # {} => vod.status \in {"attempted", "created"}
=============================================================================
